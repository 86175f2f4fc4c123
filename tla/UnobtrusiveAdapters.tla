------------------------ MODULE UnobtrusiveAdapters -------------------------
(***************************************************************************)
(* jquery.validate.unobtrusive.js, the part without state: the adapters    *)
(* that turn the data-val-* attributes of an input into the rules and      *)
(* messages of jQuery Validate, and the validation methods it adds.        *)
(*                                                                         *)
(* An attribute name is a tuple, <<"range">> for data-val-range (its value *)
(* is the error message) and <<"range", "min">> for data-val-range-min.    *)
(* An element's attributes are a function from the names that are present. *)
(* A field name is the sequence of its segments, so "Order.Email" is       *)
(* <<"Order", "Email">>. Numbers stand for the strings that spell them:    *)
(* like those strings, and unlike JavaScript's numbers, 0 is truthy.       *)
(***************************************************************************)
EXTENDS Integers, Sequences, FiniteSets, SequencesExt, TLC

CONSTANTS Undefined,    \* JavaScript's undefined
          Empty         \* the empty string

Truthy(v) == v \notin {Undefined, Empty}

Lookup(f, key) == IF key \in DOMAIN f THEN f[key] ELSE Undefined

NoKeys == [key \in {} |-> Undefined]    \* {}, the empty object

\* $.extend. It skips what is undefined; no source here has such a value.
extend(target, source) ==
  [key \in DOMAIN target \union DOMAIN source |->
     IF key \in DOMAIN source THEN source[key] ELSE target[key]]

-----------------------------------------------------------------------------
(* Names *)

\* Faulty variant: the prefix ends at the first dot of a nested name.
FirstSegment(fieldName) == SubSeq(fieldName, 1, IF Len(fieldName) > 1 THEN 1 ELSE 0)

getModelPrefix(fieldName) == Front(fieldName)

appendModelPrefix(value, prefix) ==
  IF Len(value) > 1 /\ Head(value) = "*" THEN prefix \o Tail(value) ELSE value

\* $(form).find(":input").filter("[name='...']")[0], over the names of the
\* form's inputs in document order.
FindInput(form, name) ==
  LET found == {i \in DOMAIN form : form[i] = name}
  IN  IF found = {} THEN Undefined ELSE Min(found)

-----------------------------------------------------------------------------
(* The adapters. What the function given to adapters.add closes over is    *)
(* kept in the adapter's record: rules holds its rule names and attribute  *)
(* the argument of addSingleVal. No adapter reads the rules and messages   *)
(* that it adds to, so each is modelled by the rules that it sets.         *)

setValidationValues(ruleName, value) == [key \in {ruleName} |-> value]

add(name, params, adapt) ==
  [name |-> name, params |-> params, adapt |-> adapt, rules |-> <<>>, attribute |-> Undefined]

addBool(name) == [add(name, <<>>, "bool") EXCEPT !.rules = <<name>>]

addMinMax(name, minRule, maxRule, minMaxRule) ==   \* no adapter names its attributes
  [add(name, <<"min", "max">>, "minMax") EXCEPT !.rules = <<minRule, maxRule, minMaxRule>>]

addSingleVal(name, attribute, rule) ==
  [add(name, <<IF Truthy(attribute) THEN attribute ELSE "val">>, "singleVal")
     EXCEPT !.rules = <<rule>>, !.attribute = attribute]

\* Faulty variant: a lower bound hides the upper one.
adaptMinOrMax(rule, options) ==
  LET min == Lookup(options.params, "min")
      max == Lookup(options.params, "max")
  IN  CASE Truthy(min)                 -> setValidationValues(rule[1], min)
        [] ~Truthy(min) /\ Truthy(max) -> setValidationValues(rule[2], max)
        [] OTHER                       -> NoKeys

adaptMinMax(rule, options) ==
  LET min == Lookup(options.params, "min")
      max == Lookup(options.params, "max")
  IN  CASE Truthy(min) /\ Truthy(max)  -> setValidationValues(rule[3], <<min, max>>)
        [] Truthy(min) /\ ~Truthy(max) -> setValidationValues(rule[1], min)
        [] ~Truthy(min) /\ Truthy(max) -> setValidationValues(rule[2], max)
        [] OTHER                       -> NoKeys

adaptEqualTo(options) ==
  LET other == appendModelPrefix(options.params["other"], getModelPrefix(options.element.name))
  IN  setValidationValues("equalTo", FindInput(options.form, other))

adaptRequired(options) ==
  IF options.element.type = "checkbox" THEN NoKeys ELSE setValidationValues("required", TRUE)

\* value.data has a function for each name, which reads the field when the
\* request is sent: RemoteData below.
adaptRemote(options) ==
  LET fields == IF Truthy(Lookup(options.params, "additionalfields"))
                THEN options.params["additionalfields"] ELSE <<options.element.name>>
      names  == {appendModelPrefix(fields[i], getModelPrefix(options.element.name)) :
                   i \in DOMAIN fields}
      type   == options.params["type"]
  IN  setValidationValues("remote",
        [url |-> options.params["url"], type |-> IF Truthy(type) THEN type ELSE "GET", data |-> names])

adaptPassword(options) ==
  LET SetTruthy(ruleName, value) ==
        IF Truthy(value) THEN setValidationValues(ruleName, value) ELSE NoKeys
  IN  extend(extend(SetTruthy("minlength", options.params["min"]),
                    SetTruthy("nonalphamin", options.params["nonalphamin"])),
             SetTruthy("regex", options.params["regex"]))

Adapt(adapter, options) ==
  CASE adapter.adapt = "bool"      -> setValidationValues(adapter.rules[1], TRUE)
    [] adapter.adapt = "minMax"    -> adaptMinMax(adapter.rules, options)
    [] adapter.adapt = "singleVal" -> setValidationValues(adapter.rules[1],
                                         Lookup(options.params, adapter.attribute))
    [] adapter.adapt = "equalto"   -> adaptEqualTo(options)
    [] adapter.adapt = "required"  -> adaptRequired(options)
    [] adapter.adapt = "remote"    -> adaptRemote(options)
    [] adapter.adapt = "password"  -> adaptPassword(options)
    [] adapter.adapt = "fileextensions" ->
         setValidationValues("extension", options.params["extensions"])

\* The adapters in the order they are pushed. additional-methods.js, which
\* brings the extension method, is not loaded by _ValidationScriptsPartial.
Adapters ==
  << addSingleVal("extension", "extension", "accept"),
     addSingleVal("regex", "pattern", "regex"),
     addBool("creditcard"), addBool("date"), addBool("digits"),
     addBool("email"), addBool("number"), addBool("url"),
     addMinMax("length", "minlength", "maxlength", "rangelength"),
     addMinMax("range", "min", "max", "range"),
     addMinMax("minlength", "minlength", Undefined, Undefined),
     addMinMax("maxlength", "minlength", "maxlength", Undefined),
     add("equalto", <<"other">>, "equalto"),
     add("required", <<>>, "required"),
     add("remote", <<"url", "type", "additionalfields">>, "remote"),
     add("password", <<"min", "nonalphamin", "regex">>, "password"),
     add("fileextensions", <<"extensions">>, "fileextensions") >>

\* The rules that an adapter sets for an element: none, unless the attribute
\* of its name is there (an empty message is one).
Visit(element, form, adapter) ==
  IF <<adapter.name>> \notin DOMAIN element.attrs THEN NoKeys
  ELSE Adapt(adapter,
         [element |-> element, form |-> form,
          params  |-> [p \in ToSet(adapter.params) |-> Lookup(element.attrs, <<adapter.name, p>>)]])

\* The loop of parseElement over the adapters: a rule has the value given by
\* the last adapter that sets it, and the message of the last one that has
\* a truthy message (the if of setValidationValues).
ApplyAdapters(element, form, adapters) ==
  LET set        == [i \in DOMAIN adapters |-> Visit(element, form, adapters[i])]
      Message(i) == element.attrs[<<adapters[i].name>>]
      Setters(key) == {i \in DOMAIN adapters : key \in DOMAIN set[i]}
      Tellers(key) == {i \in Setters(key) : Truthy(Message(i))}
      keys       == UNION {DOMAIN set[i] : i \in DOMAIN adapters}
  IN  [rules    |-> extend([key \in keys |-> set[Max(Setters(key))][key]],
                           [key \in {"__dummy__"} |-> TRUE]),
       messages |-> [key \in {k \in keys : Tellers(k) # {}} |-> Message(Max(Tellers(key)))]]

-----------------------------------------------------------------------------
(* What the rules mean when they are used *)

\* Faulty variant: the hidden input that comes first is always taken.
RemoteDataFirst(field) == IF field = <<>> THEN Undefined ELSE Head(field).value

\* The value of the first of some inputs, as .val() gives it.
FirstValue(field, found) == IF found = {} THEN Undefined ELSE field[Min(found)].value

\* jQuery's :hidden, an element without a box on the page: one of type hidden,
\* and any other that is not displayed.
IsHidden(input) == ~input.displayed

\* The data functions of a remote rule, over the inputs of that name: a
\* check box or radio button sends the value of a checked one, and check
\* boxes of which none is checked that of the first without a box on the
\* page, which is meant to be the hidden input that goes with them.
RemoteData(field) ==
  LET checked == FirstValue(field, {i \in DOMAIN field : field[i].checked})
      hidden  == FirstValue(field, {i \in DOMAIN field : IsHidden(field[i])})
      Is(type) == \E i \in DOMAIN field : field[i].type = type
  IN  CASE Is("checkbox") /\ Truthy(checked)  -> checked
        [] Is("checkbox") /\ ~Truthy(checked) -> IF Truthy(hidden) THEN hidden ELSE Empty
        [] ~Is("checkbox") /\ Is("radio")     -> IF Truthy(checked) THEN checked ELSE Empty
        [] OTHER -> FirstValue(field, DOMAIN field)

\* The lengths that the rules refuse; an empty value is optional for them.
RefusesLength(rules, n) ==
  LET min == Lookup(rules, "minlength")
      max == Lookup(rules, "maxlength")
      range == Lookup(rules, "rangelength")
  IN  /\ n > 0
      /\ \/ min # Undefined /\ n < min
         \/ max # Undefined /\ n > max
         \/ range # Undefined /\ (n < range[1] \/ n > range[2])

-----------------------------------------------------------------------------
(* Properties, over bounded inputs *)

CONSTANTS MaxBound,    \* the largest bound that a length attribute declares
          Segments,    \* what names are made of, with the "*" of relative ones
          InputNames,  \* the names of a form's inputs, in document order
          InputValues, \* the values that inputs may have, without Empty
          MaxGroup     \* the most inputs that share a name

\* Undefined and Empty are no other values. Inputs have the names of C#
\* properties, of which none begins with "*".
ASSUME AdapterConstants ==
  /\ MaxBound \in Nat /\ MaxGroup \in Nat
  /\ Undefined # Empty
  /\ \A v \in {Undefined, Empty} :
       v \notin Nat /\ v \notin InputValues /\ v \notin Seq(Nat) /\ v \notin Seq(Seq(Segments))
  /\ "*" \in Segments /\ InputNames \in Seq(Seq(Segments) \ {<<>>})
  /\ \A i \in DOMAIN InputNames : InputNames[i][1] # "*"

LowerBoundNames == {<<"length", "min">>, <<"minlength", "min">>, <<"password", "min">>}
UpperBoundNames == {<<"length", "max">>, <<"maxlength", "max">>}
BoundNames      == LowerBoundNames \union UpperBoundNames

\* The elements that declare some bounds on their length.
LengthElement(names, bound) ==
  [name |-> <<"a">>, type |-> "text",
   attrs |-> [k \in names \union {<<n[1]>> : n \in names} |->
                IF Len(k) = 1 THEN "message" ELSE bound[k]]]

LengthElements ==
  {LengthElement(names, bound) :
     names \in SUBSET BoundNames, bound \in [BoundNames -> 0..MaxBound \union {Empty}]}

\* An empty attribute declares no bound.
Declared(element, names) ==
  {element.attrs[k] : k \in DOMAIN element.attrs \intersect names} \ {Empty}

\* The rules of an element never refuse a length that all the bounds it
\* declares allow; and where the adapters that declare a lower (upper) bound
\* agree on it they refuse every other length. (When they disagree the last
\* adapter overwrites the rule of the same name: the page is then laxer than
\* its markup.)
LengthAgrees(element) ==
  LET rules   == ApplyAdapters(element, <<>>, Adapters).rules
      lower   == Declared(element, LowerBoundNames)
      upper   == Declared(element, UpperBoundNames)
  IN  \A n \in 1..(MaxBound + 1) :
        LET allowed == (\A b \in lower : n >= b) /\ (\A b \in upper : n <= b)
        IN  /\ RefusesLength(rules, n) => ~allowed
            /\ Cardinality(lower) <= 1 /\ Cardinality(upper) <= 1 =>
                 (RefusesLength(rules, n) <=> ~allowed)

LengthRulesAgree == \A element \in LengthElements : LengthAgrees(element)

\* An element that names its fields relative to its model.
RelativeElement(name, last) ==
  [name |-> name, type |-> "text",
   attrs |-> [k \in {<<"equalto">>, <<"equalto", "other">>, <<"remote">>, <<"remote", "url">>,
                     <<"remote", "additionalfields">>} |->
                CASE k = <<"equalto", "other">> -> <<"*", last>>
                  [] k = <<"remote", "url">>    -> "url"
                  [] k = <<"remote", "additionalfields">> -> <<<<"*", last>>, name>>
                  [] OTHER -> Empty]]

\* A name that starts with "*." is looked up in the model that the element
\* itself belongs to, at any depth: equalto compares with the field of that
\* model, and remote sends the fields of that model, although the form has
\* fields of the same last segment in other models.
RelativeNamesStayInModel(name, last) ==
  LET rules  == ApplyAdapters(RelativeElement(name, last), InputNames, Adapters).rules
      target == [name EXCEPT ![Len(name)] = last]
      found  == rules["equalTo"]
  IN  /\ IF target \in ToSet(InputNames) THEN InputNames[found] = target ELSE found = Undefined
      /\ rules["remote"].data = {target, name}

Inputs ==
  [type : {"checkbox", "radio", "hidden", "text"}, checked : BOOLEAN, displayed : BOOLEAN,
   value : InputValues \union {Empty}]

\* The inputs that share a name: check boxes, with or without the hidden
\* input that stands for an unchecked one, a group of radio buttons, or a
\* single other input. A check box has a value.
FieldGroups ==
  {g \in UNION {[1..k -> Inputs] : k \in 1..MaxGroup} :
     /\ \A i \in DOMAIN g :
          /\ g[i].type \notin {"checkbox", "radio"} => ~g[i].checked
          /\ g[i].type = "checkbox" => g[i].value # Empty
          /\ g[i].type = "hidden" => ~g[i].displayed
     /\ \/ Len(g) = 1
        \/ \A i \in DOMAIN g : g[i].type = "radio"
        \/ /\ \A i \in 1..(Len(g) - 1) : g[i].type = "checkbox"
           /\ g[Len(g)].type \in {"checkbox", "hidden"}
     /\ Cardinality({i \in DOMAIN g : g[i].type = "radio" /\ g[i].checked}) <= 1}

\* The remote validation of a field gets the value that a post of the form
\* would give it: that of the first successful input, or nothing.
RemoteSendsWhatTheFormSends(g) ==
  LET posted == {i \in DOMAIN g : g[i].checked \/ g[i].type \in {"hidden", "text"}}
  IN  RemoteData(g) = IF posted = {} THEN Empty ELSE FirstValue(g, posted)

\* The groups whose check boxes are on the page. Of the others RemoteData may
\* pick up a check box that is not checked.
ShownGroups == {g \in FieldGroups : \A i \in DOMAIN g : g[i].type = "checkbox" => g[i].displayed}

\* Rules that look at fields by their names look at the right ones: those of
\* the element's own model and, of several inputs that share a name, the one
\* that a post of the form would send, as long as its check boxes are on the
\* page.
ReferencesAreRight ==
  /\ \A name \in ToSet(InputNames), last \in {Last(n) : n \in ToSet(InputNames)} :
       RelativeNamesStayInModel(name, last)
  /\ \A g \in ShownGroups : RemoteSendsWhatTheFormSends(g)

=============================================================================
