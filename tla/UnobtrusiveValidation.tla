----------------------- MODULE UnobtrusiveValidation ------------------------
(***************************************************************************)
(* jquery.validate.unobtrusive.js with the part of jquery.validate.js that *)
(* it drives: one form of a page whose fields are decorated with data-val- *)
(* attributes, the validator that parse attaches to it, the messages shown *)
(* beside the fields, and the remote validations in flight.                *)
(*                                                                         *)
(* Each action is one event handler of the page, which JavaScript runs to  *)
(* its end: what interleaves are the user's events, the answers of the     *)
(* server and the scripts of the page, which add fields, hide and disable  *)
(* them and fill them. Of a field's rules, required and remote decide about *)
(* its value here; the others are pure functions of it. The fields are     *)
(* typed into: check boxes and radio buttons are checked by onclick. The   *)
(* page sets no unobtrusive.options.                                       *)
(***************************************************************************)
EXTENDS UnobtrusiveAdapters

CONSTANTS Fields,     \* the inputs that the form may get
          Loaded,     \* those that are in the document when it is ready
          Markup,     \* the name, type and attributes of each
          Replaced,   \* those whose message element has data-valmsg-replace="true"
          Values,     \* what a user may type, with Empty
          Accepted,   \* the values that the server's remote validation accepts
          MaxEdits    \* bound: how often a field is edited, shown, hidden, ...

ASSUME FormConstants ==
  /\ Loaded \subseteq Fields /\ Replaced \subseteq Fields
  /\ IsFiniteSet(Fields)
  /\ Empty \in Values /\ Accepted \subseteq Values
  /\ MaxEdits \in Nat
  /\ \A f \in Fields : Markup[f].type \notin {"hidden", "checkbox", "radio"}

VARIABLES present,  \* the fields in the document
          options,  \* the options.rules of validationInfo, by field
          form,     \* the form: values, validator, requests, what is shown
          lost,     \* whether an answer of the server was lost
          edits     \* how often the fields were edited, shown, hidden, ...

vars == <<present, options, form, lost, edits>>

NoFields == [f \in {} |-> {}]

\* The container of a field's message, and the label that is in it.
Container == [class |-> "field-validation-valid", label |-> Undefined]

NewForm ==
  [ value          |-> [f \in Fields |-> Empty],
    validated      |-> FALSE,        \* $form.data("validator") is set
    rules          |-> NoFields,     \* its settings.rules
    submitted      |-> {},           \* the names in it
    invalid        |-> {},           \* the names in it
    errorList      |-> {},
    successList    |-> {},
    current        |-> {},           \* currentElements
    pending        |-> {},
    pendingRequest |-> 0,
    formSubmitted  |-> FALSE,
    cancelSubmit   |-> FALSE,
    previous       |-> [f \in Fields |-> Undefined],    \* previousValue
    requests       |-> {},           \* the remote validations in flight
    container      |-> [f \in Fields |-> Container],
    highlighted    |-> {},           \* the fields of class input-validation-error
    summary        |-> [class |-> "validation-summary-valid", list |-> {}],
    hidden         |-> {},           \* the fields without a box on the page
    disabled       |-> {},
    failed         |-> {},           \* history: the fields whose last check failed
    unchecked      |-> FALSE,        \* history: the last submit was not checked
    sent           |-> FALSE ]       \* the browser has sent the form

Init ==
  /\ present = Loaded /\ options = NoFields /\ form = NewForm
  /\ lost = FALSE /\ edits = 0

-----------------------------------------------------------------------------
(* Messages *)

\* Faulty variant: the label keeps the error class.
onErrorKeepsClass(container, f) ==
  LET label == [errorClass |-> TRUE, unobtrusiveContainer |-> TRUE]
  IN  [container |-> [class |-> "field-validation-error",
                      label |-> IF f \in Replaced THEN label ELSE container.label],
       label |-> label]

\* errorPlacement, with a label that was just made: result is the container
\* and the label. The label is moved into a container that is replaced, and
\* then loses the class by which errorsFor would find it again.
onError(container, f) ==
  LET label == [errorClass |-> f \notin Replaced, unobtrusiveContainer |-> TRUE]
  IN  [container |-> [class |-> "field-validation-error",
                      label |-> IF f \in Replaced THEN label ELSE container.label],
       label |-> label]

\* success, with the field's label
onSuccess(container, label, f) ==
  IF label.unobtrusiveContainer
  THEN [class |-> "field-validation-valid",
        label |-> IF f \in Replaced THEN Undefined ELSE container.label]
  ELSE container

\* A label of the form that still has the error class is used again, and is
\* not placed again.
showLabel(container, f, isError) ==
  LET found == container.label # Undefined /\ container.label.errorClass
      shown == IF found THEN [container |-> container, label |-> container.label]
               ELSE onError(container, f)
  IN  IF isError THEN shown.container ELSE onSuccess(shown.container, shown.label, f)

\* invalidHandler
onErrors(w) ==
  IF w.errorList = {} THEN w
  ELSE [w EXCEPT !.summary = [class |-> "validation-summary-errors", list |-> w.errorList]]

\* defaultShowErrors, after the lists were made
showErrors(w) ==
  [w EXCEPT
     !.container = [f \in Fields |->
        IF f \in w.errorList THEN showLabel(@[f], f, TRUE)
        ELSE IF f \in w.successList THEN showLabel(@[f], f, FALSE) ELSE @[f]],
     !.highlighted = (@ \union w.errorList) \ (w.current \ w.errorList)]

-----------------------------------------------------------------------------
(* Checks. Each operator returns the form after it. *)

RulesOf(w, f) == IF f \in DOMAIN w.rules THEN w.rules[f] ELSE {}

\* The fields that the validator looks at: settings.ignore is ":hidden".
elements(w) == {f \in present : f \notin w.disabled \union w.hidden /\ RulesOf(w, f) # {}}

reset(w) == [w EXCEPT !.errorList = {}, !.successList = {}, !.current = {}]

startRequest(w, fields) ==
  [w EXCEPT !.pendingRequest = @ + Cardinality(fields \ w.pending), !.pending = @ \union fields]

\* What is remembered of the request of each of the fields
asked(w, fields) ==
  [f \in Fields |->
     IF f \in fields
     THEN [old |-> w.value[f], valid |-> w.previous[f] = Undefined \/ w.previous[f].valid]
     ELSE w.previous[f]]

Request(w, f) == [field |-> f, value |-> w.value[f]]

\* Faulty variant: the request before is not aborted.
sendAlso(w, fields) ==
  [startRequest(w, fields) EXCEPT
     !.previous = asked(w, fields),
     !.requests = @ \union {Request(w, f) : f \in fields}]

\* The request of the remote method; ajax "abort" mode ends the one before.
send(w, fields) ==
  [startRequest(w, fields) EXCEPT
     !.previous = asked(w, fields),
     !.requests = {r \in @ : r.field \notin fields} \union {Request(w, f) : f \in fields}]

\* What check finds of a field: required is tried before remote, which passes
\* over an empty value ("dependency-mismatch") and answers a value it was
\* asked before, and the one it is being asked, from previousValue. A field
\* whose only rule was passed over is neither an error nor a success.
check(w, f) ==
  LET rules    == RulesOf(w, f)
      previous == w.previous[f]
      remote   == "remote" \in rules /\ w.value[f] # Empty
      known    == previous # Undefined /\ previous.old = w.value[f]
  IN  CASE "required" \in rules /\ w.value[f] = Empty -> "refused"
        [] remote /\ ~known -> "pending"
        [] remote /\ known -> IF previous.valid THEN "passed" ELSE "refused"
        [] rules = {"remote"} /\ w.value[f] = Empty -> "mismatch"
        [] rules = {} -> "none"
        [] OTHER -> "passed"

\* The loop of checkForm, and the call of check in element. No check looks at
\* what that of another field has changed; formatAndAdd is in errorList and
\* submitted.
checkElements(w, fields) ==
  LET Found(result) == {f \in fields : check(w, f) = result}
  IN  send([reset(w) EXCEPT
              !.current     = fields,
              !.errorList   = Found("refused"),
              !.successList = Found("passed"),
              !.submitted   = @ \union Found("refused"),
              !.failed      = (@ \union Found("refused")) \ (Found("passed") \union Found("mismatch"))],
           Found("pending"))

\* One field, for onkeyup and onfocusout
element(w, f) ==
  IF f \in w.hidden THEN [w EXCEPT !.invalid = @ \ {f}]
  ELSE showErrors([checkElements(w, {f}) EXCEPT !.invalid = @ \union {f}])

\* The whole form; the result is valid when errorList is empty.
formCheck(w) ==
  LET checked == checkElements(w, elements(w))
      listed  == [checked EXCEPT !.submitted = @ \union checked.errorList,
                                 !.invalid   = checked.errorList]
  IN  showErrors(onErrors(listed))

\* The handler of the form's submit event
submit(w) ==
  LET checked == formCheck(w)
  IN  CASE w.cancelSubmit -> [w EXCEPT !.cancelSubmit = FALSE, !.sent = TRUE]
        [] ~w.cancelSubmit /\ checked.errorList # {} -> checked
        [] ~w.cancelSubmit /\ checked.errorList = {} /\ checked.pendingRequest > 0 ->
             [checked EXCEPT !.formSubmitted = TRUE]
        [] ~w.cancelSubmit /\ checked.errorList = {} /\ checked.pendingRequest = 0 ->
             [checked EXCEPT !.sent = TRUE]

\* Faulty variant: the form is sent without another look at its fields.
stopRequestTrusts(w, f, valid) ==
  LET stopped == [w EXCEPT !.pendingRequest = IF @ = 0 THEN 0 ELSE @ - 1, !.pending = @ \ {f}]
      waiting == stopped.pendingRequest = 0 /\ stopped.formSubmitted
  IN  IF waiting /\ valid THEN [stopped EXCEPT !.sent = TRUE, !.formSubmitted = FALSE]
      ELSE IF waiting THEN [onErrors(stopped) EXCEPT !.formSubmitted = FALSE]
      ELSE stopped

\* Faulty variant: an answer does not repeat the submit.
stopRequestForgets(w, f, valid) ==
  [w EXCEPT !.pendingRequest = IF @ = 0 THEN 0 ELSE @ - 1, !.pending = @ \ {f}]

\* A submit that waited is repeated when the last answer is valid and so is
\* the form, and is dropped when the last answer is not.
stopRequest(w, f, valid) ==
  LET stopped == [w EXCEPT !.pendingRequest = IF @ = 0 THEN 0 ELSE @ - 1, !.pending = @ \ {f}]
      waiting == stopped.pendingRequest = 0 /\ stopped.formSubmitted
      again   == formCheck(stopped)
  IN  CASE waiting /\ valid /\ again.errorList = {} /\ again.pendingRequest = 0 ->
             [submit(again) EXCEPT !.formSubmitted = FALSE]
        [] waiting /\ valid /\ (again.errorList # {} \/ again.pendingRequest > 0) -> again
        [] waiting /\ ~valid -> [onErrors(stopped) EXCEPT !.formSubmitted = FALSE]
        [] ~waiting -> stopped

-----------------------------------------------------------------------------
(* Scripts of the page *)

parseElement(f) == DOMAIN ApplyAdapters(Markup[f], InputNames, Adapters).rules

\* validate(options) copies the rules into a new validator; a validator that
\* is there keeps its own.
attachValidation(w, rules) ==
  IF w.validated THEN w ELSE [w EXCEPT !.validated = TRUE, !.rules = rules]

\* parse on some of the form's fields: on the whole document, or on what a
\* script has added.
parse(selected) ==
  /\ selected # {}    \* every field is decorated
  /\ options' = extend(options, [f \in selected |-> parseElement(f)])
  /\ form' = attachValidation(form, options')

Parse ==
  /\ ~form.sent
  /\ parse(present) \/ \E f \in present : parse({f})
  /\ UNCHANGED <<present, lost, edits>>

AddField(f) ==
  /\ ~form.sent /\ f \notin present
  /\ present' = present \union {f}
  /\ UNCHANGED <<options, form, lost, edits>>

\* A script hides a field or shows it again.
Display(f) ==
  /\ ~form.sent /\ f \in present /\ edits < MaxEdits
  /\ form' = [form EXCEPT !.hidden = IF f \in @ THEN @ \ {f} ELSE @ \union {f}]
  /\ edits' = edits + 1
  /\ UNCHANGED <<present, options, lost>>

Disable(f) ==
  /\ ~form.sent /\ f \in present /\ edits < MaxEdits
  /\ form' = [form EXCEPT !.disabled = IF f \in @ THEN @ \ {f} ELSE @ \union {f}]
  /\ edits' = edits + 1
  /\ UNCHANGED <<present, options, lost>>

\* validationInfo(form).validate, which unobtrusive Ajax calls
validate ==
  /\ form.validated /\ ~form.sent
  /\ form' = formCheck(form)
  /\ UNCHANGED <<present, options, lost, edits>>

-----------------------------------------------------------------------------
(* The user *)

\* A field gets another value, by a key, a paste, or a script.
Change(f, v) ==
  /\ ~form.sent /\ f \in present /\ edits < MaxEdits /\ v # form.value[f]
  /\ form' = [form EXCEPT !.value[f] = v]
  /\ edits' = edits + 1
  /\ UNCHANGED <<present, options, lost>>

\* Whether an event of the user reaches the handlers of a field
delegate(f) == form.validated /\ ~form.sent /\ f \in present \ (form.hidden \union form.disabled)

\* onkeyup, for a key that is not excluded: a field that failed once, or was
\* checked since the form was checked, is checked at once.
KeyUp(f) ==
  /\ delegate(f)
  /\ f \in form.submitted \union form.invalid
  /\ form' = element(form, f)
  /\ UNCHANGED <<present, options, lost, edits>>

\* onfocusout
Leave(f) ==
  /\ delegate(f)
  /\ f \in form.submitted \/ form.value[f] # Empty
  /\ form' = element(form, f)
  /\ UNCHANGED <<present, options, lost, edits>>

\* The click on a submit button of class "cancel", or with formnovalidate. The
\* submit follows, unless a script prevents it.
ClickCancel ==
  /\ form.validated /\ ~form.sent
  /\ form' = [form EXCEPT !.cancelSubmit = TRUE]
  /\ UNCHANGED <<present, options, lost, edits>>

Submit ==
  /\ form.validated /\ ~form.sent
  /\ form' = [submit(form) EXCEPT !.unchecked = form.cancelSubmit]
  /\ UNCHANGED <<present, options, lost, edits>>

\* The message stays in its container, hidden by the style of the class.
onResetContainer(w, f) ==
  LET c == w.container[f]
  IN  IF c.class # "field-validation-error" THEN c
      ELSE [class |-> "field-validation-valid",
            label |-> IF c.label = Undefined THEN Undefined
                      ELSE [c.label EXCEPT !.unobtrusiveContainer = FALSE]]

\* onReset with resetForm, then the browser empties the fields. Requests in
\* flight, and a submit that waits for them, are not given up.
Reset ==
  LET shown == elements(form)
  IN  /\ form.validated /\ ~form.sent
      /\ form' = [reset(form) EXCEPT
                    !.value         = [f \in Fields |-> Empty],
                    !.submitted     = {},
                    !.invalid       = {},
                    !.previous      = [f \in Fields |-> IF f \in shown THEN Undefined ELSE @[f]],
                    !.highlighted   = @ \ shown,
                    !.summary.class = "validation-summary-valid",
                    !.container     = [f \in Fields |-> onResetContainer(form, f)],
                    !.failed        = {}]
      /\ UNCHANGED <<present, options, lost, edits>>

\* The page is loaded again after the form was sent.
Load ==
  /\ form.sent
  /\ present' = Loaded /\ options' = NoFields /\ form' = NewForm
  /\ lost' = FALSE /\ edits' = 0

-----------------------------------------------------------------------------
(* The server *)

\* Faulty variant: a refused field stays among the successful ones.
receiveKeepsSuccess(w, f, valid) ==
  IF valid
  THEN showErrors([w EXCEPT !.errorList = {}, !.successList = {f}, !.failed = @ \ {f}])
  ELSE showErrors([w EXCEPT !.errorList = @ \union {f}, !.failed = @ \union {f}])

\* success of the remote request: a valid answer clears the lists of the last
\* check, an invalid one joins them.
receive(w, f, valid) ==
  IF valid
  THEN showErrors([w EXCEPT !.errorList = {}, !.successList = {f}, !.failed = @ \ {f}])
  ELSE showErrors([w EXCEPT !.errorList = @ \union {f}, !.successList = @ \ {f},
                            !.failed = @ \union {f}])

Answer(f) ==
  /\ ~form.sent
  /\ \E r \in form.requests :
       LET valid    == r.value \in Accepted
           received == [form EXCEPT
                          !.requests = @ \ {r}, !.invalid = @ \union {f},
                          !.previous[f] = IF @ = Undefined THEN @ ELSE [@ EXCEPT !.valid = valid]]
       IN  r.field = f /\ form' = stopRequest(receive(received, f, valid), f, valid)
  /\ UNCHANGED <<present, options, lost, edits>>

\* The request fails: the remote method has no error callback.
LoseAnswer ==
  /\ ~form.sent
  /\ \E r \in form.requests : form' = [form EXCEPT !.requests = @ \ {r}]
  /\ lost' = TRUE
  /\ UNCHANGED <<present, options, edits>>

Next ==
  \/ Parse \/ validate \/ ClickCancel \/ Submit \/ Reset \/ Load \/ LoseAnswer
  \/ \E f \in Fields : AddField(f) \/ Display(f) \/ Disable(f) \/ KeyUp(f) \/ Leave(f) \/ Answer(f)
  \/ \E f \in Fields, v \in Values : Change(f, v)

\* The server answers; neither the user nor a script has to do anything.
\* This is WF_vars(Answer(f)) with its ENABLED written out.
Awaited(f) == ~form.sent /\ \E r \in form.requests : r.field = f

ServerAnswers == \A f \in Fields : []<>~Awaited(f) \/ []<><<Answer(f)>>_vars

Spec == Init /\ [][Next]_vars /\ ServerAnswers

-----------------------------------------------------------------------------
(* Properties *)

Label == [errorClass : BOOLEAN, unobtrusiveContainer : BOOLEAN]

\* What each part of the page can hold.
TypeOK ==
  /\ present \subseteq Fields /\ lost \in BOOLEAN /\ edits \in 0..MaxEdits
  /\ DOMAIN options \subseteq present /\ DOMAIN form.rules \subseteq DOMAIN options
  /\ \A f \in DOMAIN options : options[f] = parseElement(f)
  /\ \A f \in DOMAIN form.rules : form.rules[f] = options[f]
  /\ form.value \in [Fields -> Values]
  /\ \A s \in {form.submitted, form.invalid, form.errorList, form.successList, form.current,
               form.pending, form.highlighted, form.failed, form.summary.list,
               form.hidden, form.disabled} : s \subseteq present
  /\ form.pendingRequest \in Nat
  /\ form.requests \subseteq [field : Fields, value : Values]
  /\ \A f \in Fields :
       /\ form.previous[f] \in {Undefined} \union [old : Values, valid : BOOLEAN]
       /\ form.container[f] \in [class : {"field-validation-valid", "field-validation-error"},
                                 label : {Undefined} \union Label]
  /\ form.errorList \intersect form.successList = {}

\* pendingRequest is the number of fields that wait for an answer, and no
\* request is in flight for another field, nor two for one: the count never
\* has to be corrected to 0 in stopRequest, and it cannot reach 0 while an
\* answer is outstanding that could refuse the form.
RequestsAreCounted ==
  /\ form.pendingRequest = Cardinality(form.pending)
  /\ \A r \in form.requests : r.field \in form.pending
  /\ \A r, s \in form.requests : r.field = s.field => r = s

\* A form is only sent by a submit that was checked when all the rules that
\* its validator knows hold for the values that are sent, whatever was typed,
\* aborted, answered late or reset since the user submitted it: the rules of
\* the fields that are enabled and visible when it is sent. A submit that a
\* cancel button let through unchecked is the user's own, never the one that
\* an answer repeats.
SentFormIsValid ==
  form.sent /\ ~form.unchecked =>
    \A f \in elements(form) :
      /\ "required" \in form.rules[f] => form.value[f] # Empty
      /\ "remote" \in form.rules[f] => form.value[f] \in Accepted \union {Empty}

\* The container of a field is marked as an error exactly when the last
\* check of the field, or the last answer about it, refused it since the
\* form was reset: no label that was left in the document takes the place
\* of a new message, and no field keeps its error when it passes.
ShownAsChecked ==
  \A f \in present : form.container[f].class = "field-validation-error" <=> f \in form.failed

\* A submit that waits for answers is decided: the form is sent, or no answer
\* is awaited any more and what the last check refused is shown, unless an
\* answer was lost.
WaitingSubmitIsDecided ==
  form.formSubmitted /\ form.pendingRequest > 0
    ~> form.sent \/ (form.pendingRequest = 0 /\ form.errorList # {}) \/ lost

\* The adapters have no state of their own, so one state of the page, the
\* one that has just been loaded, is enough to check what they compute.
JustLoaded == form = NewForm /\ edits = 0

\* The rules that are made of an element never refuse a length that all the
\* bounds in its attributes allow, and refuse every other one unless the
\* attributes contradict each other (the last adapter then overwrites the
\* rule of the same name, and the page is laxer than its markup).
RulesAgreeWithMarkup == JustLoaded => LengthRulesAgree

\* A rule that names another field reads that of the element's own model, at
\* any depth; and of several inputs that share a name a remote rule sends
\* the value that a post of the form would send, unless a check box of
\* theirs is not displayed.
RulesReadTheRightFields == JustLoaded => ReferencesAreRight

=============================================================================
