---------------------- MODULE MCUnobtrusiveValidation ----------------------
(* Small instances of UnobtrusiveValidation for TLC.                        *)
EXTENDS UnobtrusiveValidation

CONSTANTS user, mail

(* The names of the inputs of a form with two nested models.                *)
FormNames ==
    << <<"a">>, <<"b">>, <<"a", "a">>, <<"a", "b">>, <<"b", "a">>, <<"b", "b">>,
       <<"a", "b", "a">>, <<"a", "b", "b">>, <<"b", "b", "a">> >>

(* A field that is required and checked by the server, and an optional one  *)
(* that is checked by the server and is added by a script.                  *)
TwoFields ==
    user :> [name |-> <<"a">>, type |-> "text", attrs |->
        <<"required">> :> "needed" @@ <<"remote">> :> "taken" @@ <<"remote", "url">> :> "/user"]
    @@ mail :> [name |-> <<"b">>, type |-> "text", attrs |->
        <<"remote">> :> "refused" @@ <<"remote", "url">> :> "/mail"]
=============================================================================
