---------------------- MODULE UnobtrusiveValidationProofs ----------------------
(* Theorems about UnobtrusiveValidation, for any fields, attributes, values *)
(* and answers of the server.                                               *)
EXTENDS UnobtrusiveValidation, FiniteSetTheorems, SequenceTheorems, WellFoundedInduction, TLAPS

(***************************************************************************)
(* The inductive invariant speaks of a form w, not only of the variable, so *)
(* that what holds of a form in the middle of an event handler can be said. *)
(***************************************************************************)
FormParts ==
  {"value", "validated", "rules", "submitted", "invalid", "errorList", "successList", "current",
   "pending", "pendingRequest", "formSubmitted", "cancelSubmit", "previous", "requests",
   "container", "highlighted", "summary", "hidden", "disabled", "failed", "unchecked", "sent"}

(* What the parts of a form hold.                                          *)
Typed(w) ==
  /\ DOMAIN w = FormParts /\ DOMAIN w.summary = {"class", "list"}
  /\ DOMAIN w.value = Fields /\ DOMAIN w.previous = Fields /\ DOMAIN w.container = Fields
  /\ w.value \in [Fields -> Values]
  /\ w.sent \in BOOLEAN
  /\ w.submitted \subseteq present /\ w.invalid \subseteq present /\ w.errorList \subseteq present
  /\ w.successList \subseteq present /\ w.current \subseteq present /\ w.pending \subseteq present
  /\ w.highlighted \subseteq present /\ w.failed \subseteq present /\ w.summary.list \subseteq present
  /\ w.hidden \subseteq present /\ w.disabled \subseteq present
  /\ \A f \in Fields : w.previous[f] \in {Undefined} \union [old : Values, valid : BOOLEAN]

(* The validator knows rules of fields that are there, and never a remote  *)
(* rule alone.                                                             *)
Ruled(w) ==
  /\ DOMAIN w.rules \subseteq DOMAIN options
  /\ \A f \in DOMAIN w.rules : w.rules[f] = options[f]

(* The requests, the fields that wait for them, and their number.          *)
Counted(w) ==
  /\ w.pendingRequest = Cardinality(w.pending)
  /\ w.requests \subseteq [field : Fields, value : Values]
  /\ \A r \in w.requests : r.field \in w.pending
  /\ \A r, s \in w.requests : r.field = s.field => r = s

(* The stored answer of a field is about the value that it was asked about *)
(* last; it is the server's answer unless the field still waits for it.    *)
Answered(w) ==
  /\ \A r \in w.requests : w.previous[r.field] # Undefined => w.previous[r.field].old = r.value
  /\ \A f \in Fields \ w.pending :
       w.previous[f] # Undefined => (w.previous[f].valid <=> w.previous[f].old \in Accepted)

(* The lists are made of fields whose last check they tell; no label that  *)
(* errorsFor would find is left in a container.                            *)
Listed(w) ==
  /\ w.errorList \subseteq w.failed /\ w.successList \intersect w.failed = {}
  /\ \A f \in Fields :
       /\ w.container[f] \in [class : {"field-validation-valid", "field-validation-error"},
                              label : {Undefined} \union Label]
       /\ w.container[f].label # Undefined => ~w.container[f].label.errorClass

(* The containers of the other fields show what was checked last.          *)
ShownExcept(w, fields) ==
  \A f \in Fields \ fields : w.container[f].class = "field-validation-error" <=> f \in w.failed

(* Every rule of a field that the validator looks at holds for its value.  *)
Valid(w) ==
  \A f \in elements(w) :
    /\ "required" \in w.rules[f] => w.value[f] # Empty
    /\ "remote" \in w.rules[f] => w.value[f] \in Accepted \union {Empty}

Good(w) == Typed(w) /\ Ruled(w) /\ Counted(w) /\ Answered(w) /\ Listed(w)

Page ==
  /\ present \subseteq Fields /\ lost \in BOOLEAN /\ edits \in 0..MaxEdits
  /\ DOMAIN options \subseteq present
  /\ \A f \in DOMAIN options : options[f] = parseElement(f)

IInv == Page /\ Good(form) /\ ShownExcept(form, {}) /\ (form.sent /\ ~form.unchecked => Valid(form))

-----------------------------------------------------------------------------
(* What the checks make of a form, part by part *)

Found(w, fields, result) == {f \in fields : check(w, f) = result}

(* checkForm and element fill the lists with what check finds, and send a  *)
(* request for each field whose value the server was not asked about.      *)
Checked(w, fields, c) ==
  LET refused == Found(w, fields, "refused")
      passed  == Found(w, fields, "passed")
      waiting == Found(w, fields, "pending")
  IN  /\ DOMAIN c = FormParts
      /\ c.value = w.value /\ c.validated = w.validated /\ c.rules = w.rules
      /\ c.invalid = w.invalid /\ c.formSubmitted = w.formSubmitted
      /\ c.container = w.container /\ c.highlighted = w.highlighted
      /\ c.summary = w.summary /\ c.hidden = w.hidden /\ c.disabled = w.disabled
      /\ c.cancelSubmit = w.cancelSubmit /\ c.sent = w.sent
      /\ c.current = fields /\ c.errorList = refused /\ c.successList = passed
      /\ c.submitted = w.submitted \union refused
      /\ c.failed = (w.failed \union refused) \ (passed \union Found(w, fields, "mismatch"))
      /\ c.pending = w.pending \union waiting
      /\ c.pendingRequest = w.pendingRequest + Cardinality(waiting \ w.pending)
      /\ c.previous = asked(w, waiting)
      /\ c.requests = {r \in w.requests : r.field \notin waiting} \union {Request(w, f) : f \in waiting}

LEMMA CheckedParts ==
  ASSUME NEW w, DOMAIN w = FormParts, NEW fields
  PROVE  Checked(w, fields, checkElements(w, fields))
<1> DEFINE refused == Found(w, fields, "refused")
           passed  == Found(w, fields, "passed")
           waiting == Found(w, fields, "pending")
           failing == (w.failed \union refused) \ (passed \union Found(w, fields, "mismatch"))
           listed  == [reset(w) EXCEPT !.current = fields, !.errorList = refused,
                         !.successList = passed, !.submitted = @ \union refused, !.failed = failing]
           started == startRequest(listed, waiting)
           c       == send(listed, waiting)
<1>0. checkElements(w, fields) = c
  <2>1. DOMAIN reset(w) = FormParts /\ reset(w).failed = w.failed
    BY DEF reset, FormParts
  <2>2. QED
    BY <2>1 DEF checkElements, Found
<1>1. /\ DOMAIN listed = FormParts
      /\ listed.value = w.value /\ listed.validated = w.validated /\ listed.rules = w.rules
      /\ listed.invalid = w.invalid /\ listed.formSubmitted = w.formSubmitted
      /\ listed.container = w.container /\ listed.highlighted = w.highlighted
      /\ listed.summary = w.summary /\ listed.hidden = w.hidden /\ listed.disabled = w.disabled
      /\ listed.cancelSubmit = w.cancelSubmit /\ listed.sent = w.sent
      /\ listed.current = fields /\ listed.errorList = refused /\ listed.successList = passed
      /\ listed.submitted = w.submitted \union refused /\ listed.failed = failing
      /\ listed.pending = w.pending /\ listed.pendingRequest = w.pendingRequest
      /\ listed.previous = w.previous /\ listed.requests = w.requests
  BY DEF reset, FormParts
<1> HIDE DEF refused, passed, waiting, failing, listed
<1>2. /\ DOMAIN started = FormParts
      /\ \A p \in FormParts \ {"pending", "pendingRequest"} : started[p] = listed[p]
      /\ started.pending = w.pending \union waiting
      /\ started.pendingRequest = w.pendingRequest + Cardinality(waiting \ w.pending)
  BY <1>1 DEF startRequest, FormParts
<1>3. asked(listed, waiting) = asked(w, waiting)
  BY <1>1 DEF asked
<1>4. \A f : Request(listed, f) = Request(w, f)
  BY <1>1 DEF Request
<1>5. /\ DOMAIN c = FormParts
      /\ \A p \in FormParts \ {"previous", "requests"} : c[p] = started[p]
      /\ c.previous = asked(w, waiting)
      /\ c.requests = {r \in started.requests : r.field \notin waiting} \union {Request(w, f) : f \in waiting}
  BY <1>2, <1>3, <1>4 DEF send, FormParts
<1> HIDE DEF started, c
<1>6. \A p \in FormParts \ {"pending", "pendingRequest", "previous", "requests"} : c[p] = listed[p]
  BY <1>2, <1>5
<1>7. c.pending = started.pending /\ c.pendingRequest = started.pendingRequest /\ started.requests = w.requests
  BY <1>1, <1>2, <1>5 DEF FormParts
<1>8. /\ c.value = listed.value /\ c.validated = listed.validated /\ c.rules = listed.rules
      /\ c.invalid = listed.invalid /\ c.formSubmitted = listed.formSubmitted
      /\ c.container = listed.container /\ c.highlighted = listed.highlighted
      /\ c.summary = listed.summary /\ c.hidden = listed.hidden /\ c.disabled = listed.disabled
      /\ c.cancelSubmit = listed.cancelSubmit /\ c.sent = listed.sent
      /\ c.current = listed.current /\ c.errorList = listed.errorList
      /\ c.successList = listed.successList
      /\ c.submitted = listed.submitted /\ c.failed = listed.failed
  BY <1>6 DEF FormParts
<1>9. QED
  BY <1>0, <1>1, <1>2, <1>5, <1>7, <1>8 DEF Checked, refused, passed, waiting, failing

(* defaultShowErrors changes the containers and the highlighted fields.    *)
LEMMA ShownParts ==
  ASSUME NEW w, DOMAIN w = FormParts
  PROVE  LET s == showErrors(w)
         IN  /\ DOMAIN s = FormParts
             /\ \A p \in FormParts \ {"container", "highlighted"} : s[p] = w[p]
             /\ s.highlighted = (w.highlighted \union w.errorList) \ (w.current \ w.errorList)
             /\ s.container = [f \in Fields |->
                   IF f \in w.errorList THEN showLabel(w.container[f], f, TRUE)
                   ELSE IF f \in w.successList THEN showLabel(w.container[f], f, FALSE)
                   ELSE w.container[f]]
  BY DEF showErrors, FormParts

-----------------------------------------------------------------------------
(* The labels *)

Containers == [class : {"field-validation-valid", "field-validation-error"},
               label : {Undefined} \union Label]

(* A container without a label that errorsFor would find shows what it is   *)
(* told to, and is left without such a label.                              *)
LEMMA LabelShown ==
  ASSUME NEW k \in Containers, k.label # Undefined => ~k.label.errorClass, NEW f
  PROVE  /\ showLabel(k, f, TRUE) \in Containers
         /\ showLabel(k, f, TRUE).class = "field-validation-error"
         /\ showLabel(k, f, TRUE).label # Undefined => ~showLabel(k, f, TRUE).label.errorClass
         /\ showLabel(k, f, FALSE) \in Containers
         /\ showLabel(k, f, FALSE).class = "field-validation-valid"
         /\ showLabel(k, f, FALSE).label # Undefined => ~showLabel(k, f, FALSE).label.errorClass
<1> DEFINE label == [errorClass |-> f \notin Replaced, unobtrusiveContainer |-> TRUE]
           held  == [class |-> "field-validation-error",
                     label |-> IF f \in Replaced THEN label ELSE k.label]
<1>1. showLabel(k, f, TRUE) = held
  BY DEF showLabel, onError
<1>2. showLabel(k, f, FALSE) = [class |-> "field-validation-valid",
                                label |-> IF f \in Replaced THEN Undefined ELSE k.label]
  BY DEF showLabel, onError, onSuccess
<1>3. label \in Label /\ (f \in Replaced => ~label.errorClass)
  BY DEF Label
<1> HIDE DEF label
<1>4. /\ held \in Containers /\ held.class = "field-validation-error"
      /\ held.label # Undefined => ~held.label.errorClass
  BY <1>3 DEF Containers
<1>5. k.label \in {Undefined} \union Label
  BY DEF Containers
<1>6. QED
  <2> DEFINE left == IF f \in Replaced THEN Undefined ELSE k.label
  <2> HIDE DEF held
  <2>1. left \in {Undefined} \union Label /\ (left # Undefined => ~left.errorClass)
    BY <1>5
  <2>2. showLabel(k, f, FALSE) = [class |-> "field-validation-valid", label |-> left]
    BY <1>2
  <2> HIDE DEF left
  <2>3. /\ showLabel(k, f, FALSE) \in Containers
        /\ showLabel(k, f, FALSE).class = "field-validation-valid"
        /\ showLabel(k, f, FALSE).label = left
    <3>1. \A l \in {Undefined} \union Label : [class |-> "field-validation-valid", label |-> l] \in Containers
      BY DEF Containers
    <3>2. [class |-> "field-validation-valid", label |-> left] \in Containers
      BY <2>1, <3>1
    <3>3. /\ [class |-> "field-validation-valid", label |-> left].class = "field-validation-valid"
          /\ [class |-> "field-validation-valid", label |-> left].label = left
      OBVIOUS
    <3>4. QED
      BY <2>2, <3>2, <3>3, Zenon
  <2>4. QED
    BY <1>1, <1>4, <2>1, <2>3

(* What the lists say is what is shown afterwards.                         *)
LEMMA ShowKeeps ==
  ASSUME present \subseteq Fields, NEW w, Good(w), ShownExcept(w, w.errorList \union w.successList)
  PROVE  LET s == showErrors(w)
         IN  /\ Good(s) /\ ShownExcept(s, {})
             /\ \A p \in FormParts \ {"container", "highlighted"} : s[p] = w[p]
<1> DEFINE s == showErrors(w)
<1>1. /\ DOMAIN s = FormParts
      /\ \A p \in FormParts \ {"container", "highlighted"} : s[p] = w[p]
      /\ s.highlighted = (w.highlighted \union w.errorList) \ (w.current \ w.errorList)
      /\ s.container = [f \in Fields |->
            IF f \in w.errorList THEN showLabel(w.container[f], f, TRUE)
            ELSE IF f \in w.successList THEN showLabel(w.container[f], f, FALSE)
            ELSE w.container[f]]
  BY ShownParts DEF Good, Typed
<1> HIDE DEF s
<1>2. /\ s.value = w.value /\ s.validated = w.validated /\ s.rules = w.rules
      /\ s.submitted = w.submitted /\ s.invalid = w.invalid /\ s.errorList = w.errorList
      /\ s.successList = w.successList /\ s.current = w.current /\ s.pending = w.pending
      /\ s.pendingRequest = w.pendingRequest /\ s.formSubmitted = w.formSubmitted
      /\ s.previous = w.previous /\ s.requests = w.requests /\ s.summary = w.summary
      /\ s.failed = w.failed /\ s.sent = w.sent
      /\ s.hidden = w.hidden /\ s.disabled = w.disabled
  BY <1>1 DEF FormParts
<1>3. \A f \in Fields : w.container[f] \in Containers /\ (w.container[f].label # Undefined => ~w.container[f].label.errorClass)
  BY DEF Good, Listed, Containers
<1>4. \A f \in Fields : s.container[f] \in Containers /\ (s.container[f].label # Undefined => ~s.container[f].label.errorClass)
  <2> TAKE f \in Fields
  <2>1. /\ showLabel(w.container[f], f, TRUE) \in Containers
        /\ showLabel(w.container[f], f, TRUE).label # Undefined =>
             ~showLabel(w.container[f], f, TRUE).label.errorClass
        /\ showLabel(w.container[f], f, FALSE) \in Containers
        /\ showLabel(w.container[f], f, FALSE).label # Undefined =>
             ~showLabel(w.container[f], f, FALSE).label.errorClass
    BY <1>3, LabelShown
  <2>2. QED
    BY <1>1, <1>3, <2>1
<1>5. Typed(s)
  <2>1. DOMAIN s.container = Fields /\ s.highlighted \subseteq present
    BY <1>1 DEF Good, Typed
  <2>2. QED
    BY <1>1, <1>2, <2>1 DEF Good, Typed
<1>6. Ruled(s) /\ Counted(s) /\ Answered(s)
  BY <1>2 DEF Good, Ruled, Counted, Answered
<1>7. Listed(s)
  BY <1>2, <1>4 DEF Good, Listed, Containers
<1>8. ShownExcept(s, {})
  <2> SUFFICES ASSUME NEW f \in Fields
               PROVE  s.container[f].class = "field-validation-error" <=> f \in w.failed
    BY <1>2 DEF ShownExcept
  <2>0. /\ w.errorList \subseteq w.failed /\ w.successList \intersect w.failed = {}
        /\ showLabel(w.container[f], f, TRUE).class = "field-validation-error"
        /\ showLabel(w.container[f], f, FALSE).class = "field-validation-valid"
    BY <1>3, LabelShown DEF Good, Listed
  <2>1. CASE f \in w.errorList
    BY <1>1, <2>0, <2>1
  <2>2. CASE f \in w.successList /\ f \notin w.errorList
    BY <1>1, <2>0, <2>2
  <2>3. CASE f \notin w.errorList \union w.successList
    BY <1>1, <2>3 DEF ShownExcept
  <2>4. QED
    BY <2>1, <2>2, <2>3
<1>9. QED
  BY <1>1, <1>5, <1>6, <1>7, <1>8 DEF Good, s

-----------------------------------------------------------------------------
(* The checks *)

(* parseElement gives each field a rule that never refuses it.             *)
LEMMA DummyRule ==
  ASSUME NEW f
  PROVE  "__dummy__" \in parseElement(f)
  BY DEF parseElement, ApplyAdapters, extend

(* Counting the fields that begin to wait.                                 *)
LEMMA WaitersCounted ==
  ASSUME NEW S \in SUBSET Fields, NEW T \in SUBSET Fields
  PROVE  Cardinality(S) + Cardinality(T \ S) = Cardinality(S \union T)
<1>1. IsFiniteSet(S) /\ IsFiniteSet(T \ S)
  BY FormConstants, FS_Subset
<1>2. S \intersect (T \ S) = {} /\ S \union (T \ S) = S \union T
  OBVIOUS
<1>3. Cardinality(S) \in Nat /\ Cardinality(T \ S) \in Nat
  BY <1>1, FS_CardinalityType
<1>4. Cardinality(S \union (T \ S)) = Cardinality(S) + Cardinality(T \ S) - Cardinality({})
  BY <1>1, <1>2, FS_Union
<1>5. Cardinality({}) = 0
  BY FS_EmptySet
<1>6. Cardinality(S \union T) = Cardinality(S) + Cardinality(T \ S) - Cardinality({})
  BY <1>2, <1>4, Zenon
<1>7. QED
  BY <1>3, <1>5, <1>6

(* A check keeps what the invariant says of a form; the containers of the   *)
(* fields in its lists are yet to be shown.                                *)
LEMMA CheckKeeps ==
  ASSUME Page, NEW w, Good(w), ShownExcept(w, {}), NEW fields \in SUBSET present
  PROVE  LET c == checkElements(w, fields)
         IN  Good(c) /\ ShownExcept(c, c.errorList \union c.successList)
<1> DEFINE c == checkElements(w, fields)
           refused == Found(w, fields, "refused")
           passed  == Found(w, fields, "passed")
           waiting == Found(w, fields, "pending")
           alone   == Found(w, fields, "mismatch")
<1>0. present \subseteq Fields /\ DOMAIN w = FormParts
  BY DEF Page, Good, Typed
<1>c. Checked(w, fields, c)
  BY <1>0, CheckedParts
<1>1. /\ DOMAIN c = FormParts
      /\ c.value = w.value /\ c.validated = w.validated /\ c.rules = w.rules
      /\ c.invalid = w.invalid /\ c.formSubmitted = w.formSubmitted
      /\ c.container = w.container /\ c.highlighted = w.highlighted
      /\ c.summary = w.summary /\ c.hidden = w.hidden /\ c.disabled = w.disabled
      /\ c.cancelSubmit = w.cancelSubmit /\ c.sent = w.sent
      /\ c.current = fields /\ c.errorList = refused /\ c.successList = passed
      /\ c.submitted = w.submitted \union refused
      /\ c.failed = (w.failed \union refused) \ (passed \union alone)
      /\ c.pending = w.pending \union waiting
      /\ c.pendingRequest = w.pendingRequest + Cardinality(waiting \ w.pending)
      /\ c.previous = asked(w, waiting)
      /\ c.requests = {r \in w.requests : r.field \notin waiting} \union {Request(w, f) : f \in waiting}
  BY <1>c DEF Checked
<1>2. /\ refused \subseteq fields /\ passed \subseteq fields /\ waiting \subseteq fields
      /\ refused \intersect passed = {}
  BY DEF Found
<1>3. alone = {}
  <2> SUFFICES ASSUME NEW f \in fields, check(w, f) = "mismatch" PROVE FALSE
    BY DEF Found
  <2>1. RulesOf(w, f) = {"remote"}
    BY DEF check
  <2>2. f \in DOMAIN w.rules /\ w.rules[f] = parseElement(f)
    BY <2>1 DEF RulesOf, Good, Ruled, Page
  <2>3. "__dummy__" \in RulesOf(w, f)
    BY <2>2, DummyRule DEF RulesOf
  <2>4. QED
    BY <2>1, <2>3
<1> HIDE DEF c, refused, passed, waiting, alone
<1>4. Typed(c)
  <2>1. /\ DOMAIN c.previous = Fields
        /\ \A f \in Fields : c.previous[f] \in {Undefined} \union [old : Values, valid : BOOLEAN]
    BY <1>1 DEF asked, Good, Typed
  <2>2. QED
    BY <1>0, <1>1, <1>2, <2>1 DEF Good, Typed
<1>5. Ruled(c)
  BY <1>1 DEF Good, Ruled
<1>6. Counted(c)
  <2>1. c.pendingRequest = Cardinality(c.pending)
    <3>1. w.pending \in SUBSET Fields /\ waiting \in SUBSET Fields
      BY <1>0, <1>2 DEF Good, Typed
    <3>2. Cardinality(w.pending) + Cardinality(waiting \ w.pending) = Cardinality(w.pending \union waiting)
      BY <3>1, WaitersCounted
    <3>3. QED
      BY <1>1, <3>2 DEF Good, Counted
  <2>2. \A f \in waiting : /\ Request(w, f) \in [field : Fields, value : Values]
                           /\ Request(w, f).field = f
    BY <1>0, <1>2 DEF Request, Good, Typed
  <2>3. QED
    BY <1>1, <2>1, <2>2 DEF Good, Counted
<1>7. Answered(c)
  <2>1. /\ \A f \in Fields : f \in waiting => c.previous[f].old = w.value[f]
        /\ \A f \in Fields : f \notin waiting => c.previous[f] = w.previous[f]
    BY <1>1 DEF asked
  <2>2. \A r \in c.requests : c.previous[r.field] # Undefined => c.previous[r.field].old = r.value
    <3> TAKE r \in c.requests
    <3>1. CASE r \in w.requests /\ r.field \notin waiting
      BY <2>1, <3>1 DEF Good, Counted, Answered
    <3>2. ASSUME NEW f \in waiting, r = Request(w, f)
          PROVE  c.previous[r.field].old = r.value
      <4>1. f \in Fields /\ r.field = f /\ r.value = w.value[f]
        BY <1>0, <1>2, <3>2 DEF Request
      <4>2. QED
        BY <2>1, <4>1
    <3>3. QED
      BY <1>1, <3>1, <3>2
  <2>3. QED
    BY <1>1, <2>1, <2>2 DEF Good, Answered
<1>8. Listed(c)
  BY <1>1, <1>2, <1>3 DEF Good, Listed
<1>9. ShownExcept(c, c.errorList \union c.successList)
  BY <1>1, <1>3 DEF ShownExcept
<1>10. QED
  BY <1>4, <1>5, <1>6, <1>7, <1>8, <1>9 DEF Good, c

-----------------------------------------------------------------------------
(* The parts of an event handler *)

(* Parts that the invariant says little about may change.                  *)
Others == {"validated", "submitted", "invalid", "formSubmitted", "cancelSubmit", "summary", "unchecked",
           "sent"}

LEMMA GoodKept ==
  ASSUME NEW w, Good(w), NEW v, DOMAIN v = FormParts,
         \A p \in FormParts \ Others : v[p] = w[p],
         v.submitted \subseteq present, v.invalid \subseteq present, v.sent \in BOOLEAN,
         DOMAIN v.summary = {"class", "list"}, v.summary.list \subseteq present
  PROVE  Good(v) /\ \A S : ShownExcept(w, S) => ShownExcept(v, S)
<1>1. /\ v.value = w.value /\ v.rules = w.rules /\ v.errorList = w.errorList
      /\ v.successList = w.successList /\ v.current = w.current /\ v.pending = w.pending
      /\ v.pendingRequest = w.pendingRequest /\ v.previous = w.previous
      /\ v.requests = w.requests /\ v.container = w.container
      /\ v.highlighted = w.highlighted /\ v.failed = w.failed
      /\ v.hidden = w.hidden /\ v.disabled = w.disabled
  BY DEF FormParts, Others
<1>2. Typed(v)
  BY <1>1 DEF Good, Typed
<1>3. Ruled(v) /\ Counted(v) /\ Answered(v)
  BY <1>1 DEF Good, Ruled, Counted, Answered
<1>4. Listed(v)
  BY <1>1 DEF Good, Listed
<1>5. \A S : ShownExcept(w, S) => ShownExcept(v, S)
  BY <1>1 DEF ShownExcept
<1>6. QED
  BY <1>2, <1>3, <1>4, <1>5 DEF Good

(* invalidHandler writes the summary and nothing else.                     *)
LEMMA SummaryKeeps ==
  ASSUME NEW w, Good(w)
  PROVE  /\ Good(onErrors(w)) /\ \A S : ShownExcept(w, S) => ShownExcept(onErrors(w), S)
         /\ \A p \in FormParts \ {"summary"} : onErrors(w)[p] = w[p]
<1>0. DOMAIN w = FormParts /\ w.errorList \subseteq present
      /\ w.submitted \subseteq present /\ w.invalid \subseteq present /\ w.sent \in BOOLEAN
  BY DEF Good, Typed
<1>1. CASE w.errorList = {}
  BY <1>1 DEF onErrors
<1>2. CASE w.errorList # {}
  <2> DEFINE v == [w EXCEPT !.summary = [class |-> "validation-summary-errors", list |-> w.errorList]]
  <2>1. onErrors(w) = v
    BY <1>2 DEF onErrors
  <2>2. /\ DOMAIN v = FormParts /\ \A p \in FormParts \ {"summary"} : v[p] = w[p]
        /\ v.summary = [class |-> "validation-summary-errors", list |-> w.errorList]
    BY <1>0 DEF FormParts
  <2> HIDE DEF v
  <2>3. v.submitted = w.submitted /\ v.invalid = w.invalid /\ v.sent = w.sent
    BY <2>2 DEF FormParts
  <2>4. DOMAIN v.summary = {"class", "list"} /\ v.summary.list \subseteq present
    BY <1>0, <2>2
  <2>5. \A p \in FormParts \ Others : v[p] = w[p]
    BY <2>2 DEF Others
  <2>6. Good(v) /\ \A S : ShownExcept(w, S) => ShownExcept(v, S)
    BY <1>0, <2>2, <2>3, <2>4, <2>5, GoodKept
  <2>7. QED
    BY <2>1, <2>2, <2>6
<1>3. QED
  BY <1>1, <1>2

(* What a check means that neither refuses nor has to wait.                *)
LEMMA CheckPasses ==
  ASSUME NEW w, NEW f, check(w, f) # "refused", check(w, f) # "pending"
  PROVE  /\ "required" \in RulesOf(w, f) => w.value[f] # Empty
         /\ "remote" \in RulesOf(w, f) /\ w.value[f] # Empty =>
              w.previous[f] # Undefined /\ w.previous[f].old = w.value[f] /\ w.previous[f].valid
<1>1. "required" \in RulesOf(w, f) => w.value[f] # Empty
  BY DEF check
<1>2. ASSUME "remote" \in RulesOf(w, f), w.value[f] # Empty
      PROVE  w.previous[f] # Undefined /\ w.previous[f].old = w.value[f] /\ w.previous[f].valid
  BY <1>2 DEF check
<1>3. QED
  BY <1>1, <1>2

(* What is valid depends on the values, the rules and the fields that count. *)
LEMMA ValidKept ==
  ASSUME NEW w, NEW v, Valid(w), v.value = w.value, v.rules = w.rules,
         v.hidden = w.hidden, v.disabled = w.disabled
  PROVE  Valid(v)
<1>1. elements(v) = elements(w)
  BY DEF elements, RulesOf
<1>2. QED
  BY <1>1 DEF Valid

(* A form check keeps the invariant, and what it finds valid is valid.     *)
LEMMA FormIsChecked ==
  ASSUME Page, NEW w, Good(w), ShownExcept(w, {})
  PROVE  LET s == formCheck(w)
         IN  /\ Good(s) /\ ShownExcept(s, {})
             /\ s.value = w.value /\ s.rules = w.rules /\ s.sent = w.sent
             /\ s.hidden = w.hidden /\ s.disabled = w.disabled /\ s.cancelSubmit = w.cancelSubmit
             /\ s.errorList = {} /\ s.pendingRequest = 0 => Valid(s)
<1> DEFINE fields == elements(w)
           c == checkElements(w, fields)
           l == [c EXCEPT !.submitted = @ \union c.errorList, !.invalid = c.errorList]
           o == onErrors(l)
           s == formCheck(w)
<1>0. s = showErrors(o) /\ present \subseteq Fields /\ DOMAIN w = FormParts
  BY DEF formCheck, Page, Good, Typed
<1>e. fields \in SUBSET present
  BY DEF elements
<1>1. /\ Good(c) /\ ShownExcept(c, c.errorList \union c.successList)
      /\ Checked(w, fields, c)
  BY <1>0, <1>e, CheckKeeps, CheckedParts
<1> HIDE DEF c, fields
<1>2. /\ DOMAIN l = FormParts
      /\ l.submitted = c.submitted \union c.errorList /\ l.invalid = c.errorList
      /\ \A p \in FormParts \ {"submitted", "invalid"} : l[p] = c[p]
  BY <1>1 DEF Good, Typed, FormParts
<1> HIDE DEF l
<1>3. Good(l) /\ ShownExcept(l, c.errorList \union c.successList)
  <2>1. /\ c.submitted \subseteq present /\ c.errorList \subseteq present /\ c.sent \in BOOLEAN
        /\ DOMAIN c.summary = {"class", "list"} /\ c.summary.list \subseteq present
    BY <1>1 DEF Good, Typed
  <2>2. l.sent = c.sent /\ l.summary = c.summary
    BY <1>2 DEF FormParts
  <2>3. \A p \in FormParts \ Others : l[p] = c[p]
    BY <1>2 DEF Others
  <2>4. QED
    BY <1>1, <1>2, <2>1, <2>2, <2>3, GoodKept
<1>4. /\ Good(o) /\ ShownExcept(o, c.errorList \union c.successList)
      /\ \A p \in FormParts \ {"summary"} : o[p] = l[p]
  BY <1>3, SummaryKeeps
<1> HIDE DEF o
<1>5. \A p \in FormParts \ {"summary", "submitted", "invalid"} : o[p] = c[p]
  BY <1>2, <1>4
<1>6. o.errorList = c.errorList /\ o.successList = c.successList
  BY <1>5 DEF FormParts
<1>7. /\ Good(s) /\ ShownExcept(s, {})
      /\ \A p \in FormParts \ {"container", "highlighted"} : s[p] = o[p]
  BY <1>0, <1>4, <1>6, ShowKeeps
<1> HIDE DEF s
<1>8. /\ s.value = c.value /\ s.rules = c.rules /\ s.sent = c.sent /\ s.errorList = c.errorList
      /\ s.pendingRequest = c.pendingRequest /\ s.hidden = c.hidden /\ s.disabled = c.disabled
      /\ s.cancelSubmit = c.cancelSubmit
  BY <1>5, <1>7 DEF FormParts
<1>9. /\ s.value = w.value /\ s.rules = w.rules /\ s.sent = w.sent
      /\ s.hidden = w.hidden /\ s.disabled = w.disabled /\ s.cancelSubmit = w.cancelSubmit
  BY <1>1, <1>8 DEF Checked
<1>10. ASSUME s.errorList = {}, s.pendingRequest = 0 PROVE Valid(s)
  <2>1. Found(w, fields, "refused") = {}
    BY <1>1, <1>8, <1>10 DEF Checked
  <2>2. w.pending = {} /\ Found(w, fields, "pending") = {}
    <3>1. c.pending \in SUBSET Fields /\ Cardinality(c.pending) = 0
      BY <1>0, <1>1, <1>8, <1>10 DEF Good, Typed, Counted
    <3>2. IsFiniteSet(c.pending)
      BY <3>1, FormConstants, FS_Subset
    <3>3. c.pending = {}
      BY <3>1, <3>2, FS_EmptySet
    <3>4. c.pending = w.pending \union Found(w, fields, "pending")
      BY <1>1 DEF Checked
    <3>5. QED
      BY <3>3, <3>4
  <2>3. ASSUME NEW f \in elements(w)
        PROVE  /\ "required" \in w.rules[f] => w.value[f] # Empty
               /\ "remote" \in w.rules[f] => w.value[f] \in Accepted \union {Empty}
    <3>1. f \in present /\ f \in DOMAIN w.rules /\ RulesOf(w, f) = w.rules[f]
      BY <2>3 DEF elements, RulesOf
    <3>2. check(w, f) # "refused" /\ check(w, f) # "pending"
      BY <2>1, <2>2, <2>3 DEF Found, fields
    <3>3. w.previous[f] # Undefined => (w.previous[f].valid <=> w.previous[f].old \in Accepted)
      BY <1>0, <2>2, <3>1 DEF Good, Answered
    <3>4. QED
      BY <3>1, <3>2, <3>3, CheckPasses
  <2>4. Valid(w)
    BY <2>3 DEF Valid
  <2>5. QED
    BY <1>9, <2>4, ValidKept
<1>11. QED
  BY <1>7, <1>9, <1>10 DEF s

(* The check of one field keeps it too.                                    *)
LEMMA ElementIsChecked ==
  ASSUME Page, NEW w, Good(w), ShownExcept(w, {}), NEW f \in present \ w.hidden
  PROVE  LET s == element(w, f)
         IN  Good(s) /\ ShownExcept(s, {}) /\ s.sent = w.sent
<1> DEFINE c == checkElements(w, {f})
           l == [c EXCEPT !.invalid = @ \union {f}]
           s == element(w, f)
<1>0. s = showErrors(l) /\ present \subseteq Fields /\ DOMAIN w = FormParts
  BY DEF element, Page, Good, Typed
<1>1. /\ Good(c) /\ ShownExcept(c, c.errorList \union c.successList)
      /\ Checked(w, {f}, c)
  BY <1>0, CheckKeeps, CheckedParts
<1> HIDE DEF c
<1>2. /\ DOMAIN l = FormParts /\ l.invalid = c.invalid \union {f}
      /\ \A p \in FormParts \ {"invalid"} : l[p] = c[p]
  BY <1>1 DEF Good, Typed, FormParts
<1> HIDE DEF l
<1>3. l.errorList = c.errorList /\ l.successList = c.successList /\ l.sent = c.sent
      /\ l.summary = c.summary /\ l.submitted = c.submitted
  BY <1>2 DEF FormParts
<1>4. Good(l) /\ ShownExcept(l, l.errorList \union l.successList)
  <2>1. /\ c.submitted \subseteq present /\ c.invalid \subseteq present /\ c.sent \in BOOLEAN
        /\ DOMAIN c.summary = {"class", "list"} /\ c.summary.list \subseteq present
    BY <1>1 DEF Good, Typed
  <2>2. \A p \in FormParts \ Others : l[p] = c[p]
    BY <1>2 DEF Others
  <2>3. QED
    BY <1>1, <1>2, <1>3, <2>1, <2>2, GoodKept
<1>5. /\ Good(s) /\ ShownExcept(s, {})
      /\ \A p \in FormParts \ {"container", "highlighted"} : s[p] = l[p]
  BY <1>0, <1>4, ShowKeeps
<1> HIDE DEF s
<1>6. s.sent = w.sent
  BY <1>1, <1>3, <1>5 DEF Checked, FormParts
<1>7. QED
  BY <1>5, <1>6 DEF s

(* pendingRequest is a number.                                              *)
LEMMA CountIsNat ==
  ASSUME Page, NEW w, Good(w)
  PROVE  w.pendingRequest \in Nat
<1>1. IsFiniteSet(w.pending)
  BY FormConstants, FS_Subset DEF Good, Typed, Page
<1>2. QED
  BY <1>1, FS_CardinalityType DEF Good, Counted

(* A form is only sent when its last check found it valid, or when nothing  *)
(* is checked and it is sent as it is.                                      *)
LEMMA SubmitKeeps ==
  ASSUME Page, NEW w, Good(w), ShownExcept(w, {}), ~w.sent
  PROVE  LET s == submit(w)
         IN  Good(s) /\ ShownExcept(s, {}) /\ (s.sent => Valid(s) \/ (w.cancelSubmit /\ ~Valid(w)))
<1> DEFINE c == formCheck(w)
           s == submit(w)
<1>1. /\ Good(c) /\ ShownExcept(c, {}) /\ c.sent = w.sent
      /\ c.errorList = {} /\ c.pendingRequest = 0 => Valid(c)
  BY FormIsChecked
<1>2. c.pendingRequest \in Nat
  BY <1>1, CountIsNat
<1> HIDE DEF c
<1>3. \/ s = c
      \/ s = [c EXCEPT !.formSubmitted = TRUE]
      \/ s = [c EXCEPT !.sent = TRUE] /\ c.errorList = {} /\ c.pendingRequest = 0
      \/ s = [w EXCEPT !.cancelSubmit = FALSE, !.sent = TRUE] /\ w.cancelSubmit
  <2>1. s = CASE w.cancelSubmit -> [w EXCEPT !.cancelSubmit = FALSE, !.sent = TRUE]
              [] ~w.cancelSubmit /\ c.errorList # {} -> c
              [] ~w.cancelSubmit /\ c.errorList = {} /\ c.pendingRequest > 0 ->
                   [c EXCEPT !.formSubmitted = TRUE]
              [] ~w.cancelSubmit /\ c.errorList = {} /\ c.pendingRequest = 0 -> [c EXCEPT !.sent = TRUE]
    BY DEF submit, c
  <2>2. c.pendingRequest > 0 \/ c.pendingRequest = 0
    BY <1>2
  <2> HIDE DEF s
  <2>3. QED
    BY <2>1, <2>2
<1> SUFFICES Good(s) /\ ShownExcept(s, {}) /\ (s.sent => Valid(s) \/ (w.cancelSubmit /\ ~Valid(w)))
  OBVIOUS
<1> HIDE DEF s
<1>4. ASSUME NEW v, Good(v), ShownExcept(v, {}), DOMAIN s = FormParts, s.sent \in BOOLEAN,
             \A p \in FormParts \ {"formSubmitted", "cancelSubmit", "sent"} : s[p] = v[p]
      PROVE  /\ Good(s) /\ ShownExcept(s, {})
             /\ s.value = v.value /\ s.rules = v.rules /\ s.hidden = v.hidden /\ s.disabled = v.disabled
  <2>1. /\ v.submitted \subseteq present /\ v.invalid \subseteq present
        /\ DOMAIN v.summary = {"class", "list"} /\ v.summary.list \subseteq present
    BY <1>4 DEF Good, Typed
  <2>2. /\ s.submitted = v.submitted /\ s.invalid = v.invalid /\ s.summary = v.summary
        /\ s.value = v.value /\ s.rules = v.rules /\ s.hidden = v.hidden /\ s.disabled = v.disabled
    BY <1>4 DEF FormParts
  <2>3. \A p \in FormParts \ Others : s[p] = v[p]
    BY <1>4 DEF Others
  <2>4. QED
    BY <1>4, <2>1, <2>2, <2>3, GoodKept
<1>5. DOMAIN c = FormParts /\ DOMAIN w = FormParts /\ c.sent \in BOOLEAN
  BY <1>1 DEF Good, Typed
<1>6. CASE s = c
  BY <1>1, <1>6
<1>7. CASE s = [c EXCEPT !.formSubmitted = TRUE]
  <2>1. /\ DOMAIN s = FormParts /\ s.sent = c.sent
        /\ \A p \in FormParts \ {"formSubmitted"} : s[p] = c[p]
    BY <1>5, <1>7 DEF FormParts
  <2>2. QED
    BY <1>1, <1>4, <1>5, <2>1
<1>8. CASE s = [c EXCEPT !.sent = TRUE] /\ c.errorList = {} /\ c.pendingRequest = 0
  <2>1. DOMAIN s = FormParts /\ s.sent = TRUE /\ \A p \in FormParts \ {"sent"} : s[p] = c[p]
    BY <1>5, <1>8 DEF FormParts
  <2>2. /\ Good(s) /\ ShownExcept(s, {}) /\ s.value = c.value /\ s.rules = c.rules
        /\ s.hidden = c.hidden /\ s.disabled = c.disabled
    BY <1>1, <1>4, <2>1
  <2>3. Valid(c)
    BY <1>1, <1>8
  <2>4. Valid(s)
    BY <2>2, <2>3, ValidKept
  <2>5. QED
    BY <2>2, <2>4
<1>9. CASE s = [w EXCEPT !.cancelSubmit = FALSE, !.sent = TRUE] /\ w.cancelSubmit
  <2>1. /\ DOMAIN s = FormParts /\ s.sent = TRUE
        /\ \A p \in FormParts \ {"cancelSubmit", "sent"} : s[p] = w[p]
    BY <1>5, <1>9 DEF FormParts
  <2>2. /\ Good(s) /\ ShownExcept(s, {}) /\ s.value = w.value /\ s.rules = w.rules
        /\ s.hidden = w.hidden /\ s.disabled = w.disabled
    BY <1>4, <2>1
  <2>3. Valid(w) => Valid(s)
    BY <2>2, ValidKept
  <2>4. QED
    BY <1>9, <2>2, <2>3
<1>10. QED
  BY <1>3, <1>6, <1>7, <1>8, <1>9

-----------------------------------------------------------------------------
(* The answer of the server *)

(* The answer about a field is stored and no request for it is in flight.  *)
Settled(w, f) ==
  /\ w.previous[f] # Undefined => (w.previous[f].valid <=> w.previous[f].old \in Accepted)
  /\ \A r \in w.requests : r.field # f

(* stopRequest ends a field's waiting and may repeat the submit.           *)
LEMMA StopKeeps ==
  ASSUME Page, NEW w, Good(w), ShownExcept(w, {}), ~w.sent,
         NEW f \in w.pending, Settled(w, f), NEW valid \in BOOLEAN
  PROVE  LET s == stopRequest(w, f, valid)
         IN  Good(s) /\ ShownExcept(s, {}) /\ (s.sent => Valid(s))
<1> DEFINE stopped == [w EXCEPT !.pendingRequest = IF @ = 0 THEN 0 ELSE @ - 1, !.pending = @ \ {f}]
           waiting == stopped.pendingRequest = 0 /\ stopped.formSubmitted
           again   == formCheck(stopped)
           s       == stopRequest(w, f, valid)
<1>1. /\ DOMAIN stopped = FormParts
      /\ \A p \in FormParts \ {"pendingRequest", "pending"} : stopped[p] = w[p]
      /\ stopped.pending = w.pending \ {f}
      /\ stopped.pendingRequest = IF w.pendingRequest = 0 THEN 0 ELSE w.pendingRequest - 1
  BY DEF Good, Typed, FormParts
<1>2. again.pendingRequest \in Nat =>
        \/ s = stopped
        \/ s = [onErrors(stopped) EXCEPT !.formSubmitted = FALSE]
        \/ s = again
        \/ /\ s = [submit(again) EXCEPT !.formSubmitted = FALSE]
           /\ again.errorList = {} /\ again.pendingRequest = 0
  <2> HIDE DEF again
  <2>1. s = CASE waiting /\ valid /\ again.errorList = {} /\ again.pendingRequest = 0 ->
                   [submit(again) EXCEPT !.formSubmitted = FALSE]
              [] waiting /\ valid /\ (again.errorList # {} \/ again.pendingRequest > 0) -> again
              [] waiting /\ ~valid -> [onErrors(stopped) EXCEPT !.formSubmitted = FALSE]
              [] ~waiting -> stopped
    BY DEF stopRequest, again
  <2> HIDE DEF s, stopped
  <2>2. QED
    BY <2>1
<1> HIDE DEF stopped, s
<1>3. /\ stopped.value = w.value /\ stopped.rules = w.rules /\ stopped.submitted = w.submitted
      /\ stopped.invalid = w.invalid /\ stopped.errorList = w.errorList
      /\ stopped.successList = w.successList /\ stopped.current = w.current
      /\ stopped.previous = w.previous /\ stopped.requests = w.requests
      /\ stopped.container = w.container /\ stopped.highlighted = w.highlighted
      /\ stopped.summary = w.summary /\ stopped.failed = w.failed /\ stopped.sent = w.sent
      /\ stopped.hidden = w.hidden /\ stopped.disabled = w.disabled
  BY <1>1 DEF FormParts
<1>4. Good(stopped)
  <2>1. Typed(stopped)
    BY <1>1, <1>3 DEF Good, Typed
  <2>2. Counted(stopped)
    <3>1. IsFiniteSet(w.pending)
      BY FormConstants, FS_Subset DEF Good, Typed, Page
    <3>2. Cardinality(w.pending) \in Nat /\ Cardinality(w.pending \ {f}) = Cardinality(w.pending) - 1
      BY <3>1, FS_CardinalityType, FS_RemoveElement
    <3>3. Cardinality(w.pending \ {f}) \in Nat
      BY <3>1, FS_CardinalityType, FS_RemoveElement
    <3>4. stopped.pendingRequest = Cardinality(stopped.pending)
      BY <1>1, <3>2, <3>3 DEF Good, Counted
    <3>5. QED
      BY <1>1, <1>3, <3>4 DEF Good, Counted, Settled
  <2>3. Answered(stopped)
    BY <1>1, <1>3 DEF Good, Answered, Settled
  <2>4. QED
    BY <1>3, <2>1, <2>2, <2>3 DEF Good, Ruled, Listed
<1>5. ShownExcept(stopped, {}) /\ ~stopped.sent
  BY <1>3 DEF ShownExcept
<1>6. ASSUME NEW v, Good(v), ShownExcept(v, {}), v.sent => Valid(v), s = [v EXCEPT !.formSubmitted = FALSE]
      PROVE  Good(s) /\ ShownExcept(s, {}) /\ (s.sent => Valid(s))
  <2>0. /\ DOMAIN v = FormParts /\ v.submitted \subseteq present /\ v.invalid \subseteq present
        /\ v.sent \in BOOLEAN /\ DOMAIN v.summary = {"class", "list"} /\ v.summary.list \subseteq present
    BY <1>6 DEF Good, Typed
  <2>1. DOMAIN s = FormParts /\ \A p \in FormParts \ {"formSubmitted"} : s[p] = v[p]
    BY <1>6, <2>0
  <2>2. /\ s.submitted = v.submitted /\ s.invalid = v.invalid /\ s.summary = v.summary
        /\ s.sent = v.sent /\ s.value = v.value /\ s.rules = v.rules
        /\ s.hidden = v.hidden /\ s.disabled = v.disabled
    BY <2>1 DEF FormParts
  <2>3. \A p \in FormParts \ Others : s[p] = v[p]
    BY <2>1 DEF Others
  <2>4. Good(s) /\ ShownExcept(s, {})
    BY <1>6, <2>0, <2>1, <2>2, <2>3, GoodKept
  <2>5. QED
    BY <1>6, <2>2, <2>4, ValidKept
<1>7. /\ Good(onErrors(stopped)) /\ ShownExcept(onErrors(stopped), {}) /\ ~onErrors(stopped).sent
  BY <1>4, <1>5, SummaryKeeps DEF FormParts
<1>8. /\ Good(again) /\ ShownExcept(again, {}) /\ ~again.sent
      /\ again.errorList = {} /\ again.pendingRequest = 0 => Valid(again)
  BY <1>4, <1>5, FormIsChecked
<1> HIDE DEF again
<1>9. /\ Good(submit(again)) /\ ShownExcept(submit(again), {})
      /\ again.errorList = {} /\ again.pendingRequest = 0 => (submit(again).sent => Valid(submit(again)))
  BY <1>8, SubmitKeeps
<1>10. again.pendingRequest \in Nat
  BY <1>8, CountIsNat
<1>11. Good(s) /\ ShownExcept(s, {}) /\ (s.sent => Valid(s))
  BY <1>2, <1>4, <1>5, <1>6, <1>7, <1>8, <1>9, <1>10
<1>12. QED
  BY <1>11 DEF s

(* The success callback of the request shows the answer.                   *)
LEMMA ReceiveKeeps ==
  ASSUME Page, NEW w, Good(w), ShownExcept(w, {}), NEW f \in present, NEW valid \in BOOLEAN
  PROVE  LET s == receive(w, f, valid)
         IN  /\ Good(s) /\ ShownExcept(s, {})
             /\ s.pending = w.pending /\ s.previous = w.previous /\ s.requests = w.requests
             /\ s.sent = w.sent
<1> DEFINE accepted == [w EXCEPT !.errorList = {}, !.successList = {f}, !.failed = @ \ {f}]
           rejected == [w EXCEPT !.errorList = @ \union {f}, !.successList = @ \ {f},
                                 !.failed = @ \union {f}]
           s == receive(w, f, valid)
<1>0. DOMAIN w = FormParts /\ present \subseteq Fields
  BY DEF Good, Typed, Page
<1>1. s = showErrors(accepted) \/ s = showErrors(rejected)
  BY DEF receive
<1>2. /\ DOMAIN accepted = FormParts
      /\ accepted.errorList = {} /\ accepted.successList = {f} /\ accepted.failed = w.failed \ {f}
      /\ \A p \in FormParts \ {"errorList", "successList", "failed"} : accepted[p] = w[p]
  BY <1>0 DEF FormParts
<1>3. /\ DOMAIN rejected = FormParts
      /\ rejected.errorList = w.errorList \union {f} /\ rejected.successList = w.successList \ {f}
      /\ rejected.failed = w.failed \union {f}
      /\ \A p \in FormParts \ {"errorList", "successList", "failed"} : rejected[p] = w[p]
  BY <1>0 DEF FormParts
<1> HIDE DEF accepted, rejected, s
<1>4. ASSUME NEW v, DOMAIN v = FormParts,
             \A p \in FormParts \ {"errorList", "successList", "failed"} : v[p] = w[p],
             v.errorList \subseteq v.failed, v.successList \intersect v.failed = {},
             v.failed \subseteq present, v.successList \subseteq present,
             f \in v.errorList \union v.successList,
             \A g : g # f => (g \in v.failed <=> g \in w.failed),
             s = showErrors(v)
      PROVE  /\ Good(s) /\ ShownExcept(s, {})
             /\ s.pending = w.pending /\ s.previous = w.previous /\ s.requests = w.requests
             /\ s.sent = w.sent
  <2>1. /\ v.value = w.value /\ v.rules = w.rules /\ v.submitted = w.submitted
        /\ v.invalid = w.invalid /\ v.current = w.current /\ v.pending = w.pending
        /\ v.pendingRequest = w.pendingRequest /\ v.previous = w.previous
        /\ v.requests = w.requests /\ v.container = w.container
        /\ v.highlighted = w.highlighted /\ v.summary = w.summary /\ v.sent = w.sent
        /\ v.hidden = w.hidden /\ v.disabled = w.disabled
    BY <1>4 DEF FormParts
  <2>2. Typed(v)
    BY <1>4, <2>1 DEF Good, Typed
  <2>3. Ruled(v) /\ Counted(v) /\ Answered(v)
    BY <2>1 DEF Good, Ruled, Counted, Answered
  <2>4. Listed(v)
    BY <1>4, <2>1 DEF Good, Listed
  <2>5. ShownExcept(v, v.errorList \union v.successList)
    BY <1>4, <2>1 DEF ShownExcept
  <2>6. /\ Good(s) /\ ShownExcept(s, {})
        /\ \A p \in FormParts \ {"container", "highlighted"} : s[p] = v[p]
    BY <1>0, <1>4, <2>2, <2>3, <2>4, <2>5, ShowKeeps DEF Good
  <2>7. QED
    BY <2>1, <2>6 DEF FormParts
<1>5. /\ w.errorList \subseteq w.failed /\ w.successList \intersect w.failed = {}
      /\ w.failed \subseteq present /\ w.successList \subseteq present
  BY DEF Good, Listed, Typed
<1>6. CASE s = showErrors(accepted)
  BY <1>2, <1>4, <1>5, <1>6 DEF s
<1>7. CASE s = showErrors(rejected)
  BY <1>3, <1>4, <1>5, <1>7 DEF s
<1>8. QED
  BY <1>1, <1>6, <1>7

-----------------------------------------------------------------------------
(* The actions *)

(* What is left to show of a step that changes the form and counts.        *)
LEMMA FormStep ==
  ASSUME Page, UNCHANGED <<present, options>>, lost' \in BOOLEAN, edits' \in 0..MaxEdits,
         Good(form'), ShownExcept(form', {}), form'.sent /\ ~form'.unchecked => Valid(form')
  PROVE  IInv'
<1>1. Page'
  BY DEF Page
<1>2. Typed(form)' /\ Ruled(form)'
  BY DEF Good, Typed, Ruled
<1>3. Counted(form)' /\ Answered(form)' /\ Listed(form)'
  BY DEF Good, Counted, Answered, Listed
<1>4. ShownExcept(form, {})' /\ (form.sent /\ ~form.unchecked => Valid(form))'
  BY DEF ShownExcept, Valid, elements, RulesOf
<1>5. QED
  BY <1>1, <1>2, <1>3, <1>4 DEF IInv, Good

(* The page that has just been loaded.                                     *)
LEMMA NewFormIsGood ==
  ASSUME present = Loaded, options = NoFields
  PROVE  Good(NewForm) /\ ShownExcept(NewForm, {}) /\ ~NewForm.sent
<1>1. Typed(NewForm)
  BY FormConstants DEF Typed, NewForm, FormParts
<1>2. Ruled(NewForm)
  BY DEF Ruled, NewForm, NoFields
<1>3. Counted(NewForm) /\ Answered(NewForm)
  BY FS_EmptySet DEF Counted, Answered, NewForm
<1>4. Listed(NewForm) /\ ShownExcept(NewForm, {})
  BY DEF Listed, ShownExcept, NewForm, Container
<1>5. QED
  BY <1>1, <1>2, <1>3, <1>4 DEF Good, NewForm

LEMMA InvHoldsAtFirst == Init => IInv
<1> SUFFICES ASSUME Init PROVE IInv
  OBVIOUS
<1>1. Good(form) /\ ShownExcept(form, {}) /\ ~form.sent
  BY NewFormIsGood DEF Init
<1>2. Page
  <2>1. lost \in BOOLEAN
    BY DEF Init
  <2>2. present \subseteq Fields /\ edits \in 0..MaxEdits /\ DOMAIN options = {}
    BY FormConstants DEF Init, NoFields
  <2>3. QED
    BY <2>1, <2>2 DEF Page
<1>3. QED
  BY <1>1, <1>2 DEF IInv

LEMMA ParseStep ==
  ASSUME IInv, Parse
  PROVE  IInv'
<1>1. PICK selected \in SUBSET present : parse(selected)
  BY DEF Parse
<1>2. /\ options' = [f \in DOMAIN options \union selected |->
                       IF f \in selected THEN parseElement(f) ELSE options[f]]
      /\ form' = attachValidation(form, options')
      /\ present' = present /\ lost' = lost /\ edits' = edits
  <2>1. extend(options, [f \in selected |-> parseElement(f)]) =
          [f \in DOMAIN options \union selected |-> IF f \in selected THEN parseElement(f) ELSE options[f]]
    BY DEF extend
  <2>2. QED
    BY <1>1, <2>1 DEF parse, Parse
<1>3. /\ DOMAIN options \subseteq DOMAIN options' /\ DOMAIN options' \subseteq present
      /\ \A f \in DOMAIN options' : options'[f] = parseElement(f)
      /\ \A f \in DOMAIN options : options'[f] = options[f]
  BY <1>2 DEF IInv, Page
<1>4. Page'
  BY <1>2, <1>3 DEF IInv, Page
<1>5. CASE form.validated
  <2>1. form' = form
    BY <1>2, <1>5 DEF attachValidation
  <2>2. Ruled(form)'
    BY <1>3, <2>1 DEF IInv, Good, Ruled
  <2>3. Typed(form)' /\ Counted(form)' /\ Answered(form)' /\ Listed(form)'
    BY <1>2, <2>1 DEF IInv, Good, Typed, Counted, Answered, Listed
  <2>4. ShownExcept(form, {})' /\ ~form'.sent
    BY <2>1 DEF IInv, ShownExcept, Parse
  <2>5. QED
    BY <1>4, <2>2, <2>3, <2>4 DEF IInv, Good
<1>6. CASE ~form.validated
  <2>1. form' = [form EXCEPT !.validated = TRUE, !.rules = options']
    BY <1>2, <1>6 DEF attachValidation
  <2>2. /\ DOMAIN form' = FormParts /\ form'.rules = options'
        /\ \A p \in FormParts \ {"validated", "rules"} : form'[p] = form[p]
    BY <2>1 DEF IInv, Good, Typed, FormParts
  <2>3. /\ form'.value = form.value /\ form'.submitted = form.submitted /\ form'.invalid = form.invalid
        /\ form'.errorList = form.errorList /\ form'.successList = form.successList
        /\ form'.current = form.current /\ form'.pending = form.pending
        /\ form'.pendingRequest = form.pendingRequest /\ form'.previous = form.previous
        /\ form'.requests = form.requests /\ form'.container = form.container
        /\ form'.highlighted = form.highlighted /\ form'.summary = form.summary
        /\ form'.failed = form.failed /\ form'.sent = form.sent
      /\ form'.hidden = form.hidden /\ form'.disabled = form.disabled
    BY <2>2 DEF FormParts
  <2>4. Ruled(form)'
    BY <2>2 DEF Ruled
  <2>5. Typed(form)'
    BY <1>2, <2>2, <2>3 DEF IInv, Good, Typed
  <2>6. Counted(form)' /\ Answered(form)' /\ Listed(form)'
    BY <2>3 DEF IInv, Good, Counted, Answered, Listed
  <2>7. ShownExcept(form, {})' /\ ~form'.sent
    BY <2>3 DEF IInv, ShownExcept, Parse
  <2>8. QED
    BY <1>4, <2>4, <2>5, <2>6, <2>7 DEF IInv, Good
<1>7. QED
  BY <1>5, <1>6

LEMMA AddFieldStep ==
  ASSUME IInv, NEW f \in Fields, AddField(f)
  PROVE  IInv'
<1>1. present' = present \union {f} /\ UNCHANGED <<options, form, lost, edits>>
  BY DEF AddField
<1>2. Page'
  BY <1>1 DEF IInv, Page
<1>3. Typed(form)' /\ Ruled(form)'
  BY <1>1 DEF IInv, Good, Typed, Ruled
<1>4. Counted(form)' /\ Answered(form)' /\ Listed(form)'
  BY <1>1 DEF IInv, Good, Counted, Answered, Listed
<1>5. ShownExcept(form, {})' /\ ~form'.sent
  BY <1>1 DEF IInv, ShownExcept, AddField
<1>6. QED
  BY <1>2, <1>3, <1>4, <1>5 DEF IInv, Good

LEMMA LoadStep ==
  ASSUME IInv, Load
  PROVE  IInv'
<1>1. Init'
  BY DEF Load, Init
<1>2. Good(form)' /\ ShownExcept(form, {})' /\ ~form'.sent
  <2>1. (present = Loaded)' /\ (options = NoFields)' /\ (form = NewForm)'
    BY <1>1 DEF Init
  <2>2. QED
    BY <2>1, FormConstants, FS_EmptySet
       DEF Good, Typed, Ruled, Counted, Answered, Listed, ShownExcept, NewForm, NoFields, Container, FormParts
<1>3. Page'
  <2>1. lost' \in BOOLEAN
    BY <1>1 DEF Init
  <2>2. present' \subseteq Fields /\ edits' \in 0..MaxEdits /\ DOMAIN options' = {}
    BY <1>1, FormConstants DEF Init, NoFields
  <2>3. QED
    BY <2>1, <2>2 DEF Page
<1>4. QED
  BY <1>2, <1>3 DEF IInv

LEMMA ChangeStep ==
  ASSUME IInv, NEW f \in Fields, NEW v \in Values, Change(f, v)
  PROVE  IInv'
<1>1. /\ ~form.sent /\ lost' = lost /\ edits' = edits + 1 /\ edits < MaxEdits
      /\ UNCHANGED <<present, options>> /\ form' = [form EXCEPT !.value[f] = v]
  BY DEF Change
<1>2. /\ DOMAIN form' = FormParts /\ form'.value = [form.value EXCEPT ![f] = v]
      /\ \A p \in FormParts \ {"value"} : form'[p] = form[p]
  BY <1>1 DEF IInv, Good, Typed, FormParts
<1>3. /\ form'.rules = form.rules /\ form'.submitted = form.submitted /\ form'.invalid = form.invalid
      /\ form'.errorList = form.errorList /\ form'.successList = form.successList
      /\ form'.current = form.current /\ form'.pending = form.pending
      /\ form'.pendingRequest = form.pendingRequest /\ form'.previous = form.previous
      /\ form'.requests = form.requests /\ form'.container = form.container
      /\ form'.highlighted = form.highlighted /\ form'.summary = form.summary
      /\ form'.failed = form.failed /\ form'.sent = form.sent
      /\ form'.hidden = form.hidden /\ form'.disabled = form.disabled
  BY <1>2 DEF FormParts
<1>4. Typed(form')
  BY <1>2, <1>3 DEF IInv, Good, Typed
<1>5. Ruled(form') /\ Counted(form') /\ Answered(form') /\ Listed(form')
  BY <1>3 DEF IInv, Good, Ruled, Counted, Answered, Listed
<1>6. ShownExcept(form', {}) /\ ~form'.sent
  BY <1>1, <1>3 DEF IInv, ShownExcept
<1>7. Page /\ lost' \in BOOLEAN /\ edits' \in 0..MaxEdits
  BY <1>1, FormConstants DEF IInv, Page
<1>8. QED
  BY <1>1, <1>4, <1>5, <1>6, <1>7, FormStep DEF Good

(* A field that is hidden, shown, disabled or enabled keeps all else.       *)
LEMMA ToggleStep ==
  ASSUME IInv, ~form.sent, edits < MaxEdits, lost' = lost, edits' = edits + 1,
         UNCHANGED <<present, options>>, DOMAIN form' = FormParts,
         form'.hidden \subseteq present, form'.disabled \subseteq present,
         \A p \in FormParts \ {"hidden", "disabled"} : form'[p] = form[p]
  PROVE  IInv'
<1>1. /\ form'.value = form.value /\ form'.rules = form.rules /\ form'.submitted = form.submitted
      /\ form'.invalid = form.invalid /\ form'.errorList = form.errorList
      /\ form'.successList = form.successList /\ form'.current = form.current
      /\ form'.pending = form.pending /\ form'.pendingRequest = form.pendingRequest
      /\ form'.previous = form.previous /\ form'.requests = form.requests
      /\ form'.container = form.container /\ form'.highlighted = form.highlighted
      /\ form'.summary = form.summary /\ form'.failed = form.failed /\ form'.sent = form.sent
  BY DEF FormParts
<1>2. Typed(form')
  BY <1>1 DEF IInv, Good, Typed
<1>3. Ruled(form') /\ Counted(form') /\ Answered(form') /\ Listed(form')
  BY <1>1 DEF IInv, Good, Ruled, Counted, Answered, Listed
<1>4. ShownExcept(form', {}) /\ ~form'.sent
  BY <1>1 DEF IInv, ShownExcept
<1>5. Page /\ lost' \in BOOLEAN /\ edits' \in 0..MaxEdits
  BY FormConstants DEF IInv, Page
<1>6. QED
  BY <1>2, <1>3, <1>4, <1>5, FormStep DEF Good

LEMMA DisplayStep ==
  ASSUME IInv, NEW f \in Fields, Display(f)
  PROVE  IInv'
<1> DEFINE toggled == IF f \in form.hidden THEN form.hidden \ {f} ELSE form.hidden \union {f}
<1>1. /\ ~form.sent /\ edits < MaxEdits /\ lost' = lost /\ edits' = edits + 1 /\ f \in present
      /\ UNCHANGED <<present, options>> /\ form' = [form EXCEPT !.hidden = toggled]
  BY DEF Display
<1>2. toggled \subseteq present /\ form.disabled \subseteq present
  BY <1>1 DEF IInv, Good, Typed
<1> HIDE DEF toggled
<1>3. /\ DOMAIN form' = FormParts /\ form'.hidden = toggled
      /\ \A p \in FormParts \ {"hidden"} : form'[p] = form[p]
  BY <1>1 DEF IInv, Good, Typed, FormParts
<1>4. form'.disabled = form.disabled
  BY <1>3 DEF FormParts
<1>5. QED
  BY <1>1, <1>2, <1>3, <1>4, ToggleStep

LEMMA DisableStep ==
  ASSUME IInv, NEW f \in Fields, Disable(f)
  PROVE  IInv'
<1> DEFINE toggled == IF f \in form.disabled THEN form.disabled \ {f} ELSE form.disabled \union {f}
<1>1. /\ ~form.sent /\ edits < MaxEdits /\ lost' = lost /\ edits' = edits + 1 /\ f \in present
      /\ UNCHANGED <<present, options>> /\ form' = [form EXCEPT !.disabled = toggled]
  BY DEF Disable
<1>2. toggled \subseteq present /\ form.hidden \subseteq present
  BY <1>1 DEF IInv, Good, Typed
<1> HIDE DEF toggled
<1>3. /\ DOMAIN form' = FormParts /\ form'.disabled = toggled
      /\ \A p \in FormParts \ {"disabled"} : form'[p] = form[p]
  BY <1>1 DEF IInv, Good, Typed, FormParts
<1>4. form'.hidden = form.hidden
  BY <1>3 DEF FormParts
<1>5. QED
  BY <1>1, <1>2, <1>3, <1>4, ToggleStep

(* A field that hears an event of the user is checked.                      *)
LEMMA ElementStep ==
  ASSUME IInv, NEW f \in Fields, delegate(f), form' = element(form, f),
         UNCHANGED <<present, options, lost, edits>>
  PROVE  IInv'
<1>1. ~form.sent /\ f \in present \ form.hidden /\ lost' = lost /\ edits' = edits
  BY DEF delegate
<1>2. Page /\ lost' \in BOOLEAN /\ edits' \in 0..MaxEdits
  BY <1>1 DEF IInv, Page
<1>3. Good(form') /\ ShownExcept(form', {}) /\ ~form'.sent
  BY <1>1, <1>2, ElementIsChecked DEF IInv
<1>4. QED
  BY <1>1, <1>2, <1>3, FormStep

LEMMA ClickCancelStep ==
  ASSUME IInv, ClickCancel
  PROVE  IInv'
<1>1. /\ ~form.sent /\ form' = [form EXCEPT !.cancelSubmit = TRUE]
      /\ UNCHANGED <<present, options>> /\ lost' = lost /\ edits' = edits
  BY DEF ClickCancel
<1>2. Page /\ lost' \in BOOLEAN /\ edits' \in 0..MaxEdits
  BY <1>1 DEF IInv, Page
<1>3. /\ DOMAIN form = FormParts /\ form.submitted \subseteq present /\ form.invalid \subseteq present
      /\ form.sent \in BOOLEAN /\ DOMAIN form.summary = {"class", "list"}
      /\ form.summary.list \subseteq present
  BY DEF IInv, Good, Typed
<1>4. DOMAIN form' = FormParts /\ \A p \in FormParts \ {"cancelSubmit"} : form'[p] = form[p]
  BY <1>1, <1>3 DEF FormParts
<1>5. /\ form'.submitted = form.submitted /\ form'.invalid = form.invalid
      /\ form'.summary = form.summary /\ form'.sent = form.sent
  BY <1>4 DEF FormParts
<1>6. \A p \in FormParts \ Others : form'[p] = form[p]
  BY <1>4 DEF Others
<1>7. Good(form') /\ ShownExcept(form', {})
  BY <1>3, <1>4, <1>5, <1>6, GoodKept DEF IInv
<1>8. QED
  BY <1>1, <1>2, <1>5, <1>7, FormStep

LEMMA ValidateStep ==
  ASSUME IInv, validate
  PROVE  IInv'
<1>1. /\ ~form.sent /\ form' = formCheck(form)
      /\ UNCHANGED <<present, options>> /\ lost' = lost /\ edits' = edits
  BY DEF validate
<1>2. Page /\ lost' \in BOOLEAN /\ edits' \in 0..MaxEdits
  BY <1>1 DEF IInv, Page
<1>3. Good(form') /\ ShownExcept(form', {}) /\ ~form'.sent
  BY <1>1, <1>2, FormIsChecked DEF IInv
<1>4. QED
  BY <1>1, <1>2, <1>3, FormStep

LEMMA SubmitStep ==
  ASSUME IInv, Submit
  PROVE  IInv'
<1> DEFINE s == submit(form)
<1>1. /\ ~form.sent /\ form' = [s EXCEPT !.unchecked = form.cancelSubmit]
      /\ UNCHANGED <<present, options>> /\ lost' = lost /\ edits' = edits
  BY DEF Submit
<1>2. Page /\ lost' \in BOOLEAN /\ edits' \in 0..MaxEdits
  BY <1>1 DEF IInv, Page
<1>3. Good(s) /\ ShownExcept(s, {}) /\ (s.sent => Valid(s) \/ form.cancelSubmit)
  BY <1>1, <1>2, SubmitKeeps DEF IInv
<1> HIDE DEF s
<1>4. /\ DOMAIN s = FormParts /\ s.submitted \subseteq present /\ s.invalid \subseteq present
      /\ s.sent \in BOOLEAN /\ DOMAIN s.summary = {"class", "list"} /\ s.summary.list \subseteq present
  BY <1>3 DEF Good, Typed
<1>5. /\ DOMAIN form' = FormParts /\ form'.unchecked = form.cancelSubmit
      /\ \A p \in FormParts \ {"unchecked"} : form'[p] = s[p]
  BY <1>1, <1>4 DEF FormParts
<1>6. /\ form'.submitted = s.submitted /\ form'.invalid = s.invalid
      /\ form'.summary = s.summary /\ form'.sent = s.sent
      /\ form'.value = s.value /\ form'.rules = s.rules
      /\ form'.hidden = s.hidden /\ form'.disabled = s.disabled
  BY <1>5 DEF FormParts
<1>7. \A p \in FormParts \ Others : form'[p] = s[p]
  BY <1>5 DEF Others
<1>8. Good(form') /\ ShownExcept(form', {})
  BY <1>3, <1>4, <1>5, <1>6, <1>7, GoodKept
<1>9. form'.sent /\ ~form'.unchecked => Valid(form')
  BY <1>3, <1>5, <1>6, ValidKept
<1>10. QED
  BY <1>1, <1>2, <1>8, <1>9, FormStep

LEMMA AnswerStep ==
  ASSUME IInv, NEW f \in Fields, Answer(f)
  PROVE  IInv'
<1>1. PICK r \in form.requests :
        LET valid    == r.value \in Accepted
            received == [form EXCEPT
                           !.requests = @ \ {r}, !.invalid = @ \union {f},
                           !.previous[f] = IF @ = Undefined THEN @ ELSE [@ EXCEPT !.valid = valid]]
        IN  r.field = f /\ form' = stopRequest(receive(received, f, valid), f, valid)
  BY DEF Answer
<1> DEFINE valid    == r.value \in Accepted
           received == [form EXCEPT
                          !.requests = @ \ {r}, !.invalid = @ \union {f},
                          !.previous[f] = IF @ = Undefined THEN @ ELSE [@ EXCEPT !.valid = valid]]
           shown    == receive(received, f, valid)
<1>2. /\ ~form.sent /\ r.field = f /\ form' = stopRequest(shown, f, valid)
      /\ UNCHANGED <<present, options>> /\ lost' = lost /\ edits' = edits
  BY <1>1 DEF Answer
<1>3. Page /\ lost' \in BOOLEAN /\ edits' \in 0..MaxEdits /\ present \subseteq Fields
  BY <1>2 DEF IInv, Page
<1>4. /\ DOMAIN received = FormParts
      /\ received.requests = form.requests \ {r} /\ received.invalid = form.invalid \union {f}
      /\ received.previous = [form.previous EXCEPT ![f] =
                                 IF @ = Undefined THEN @ ELSE [@ EXCEPT !.valid = valid]]
      /\ \A p \in FormParts \ {"requests", "invalid", "previous"} : received[p] = form[p]
  BY DEF IInv, Good, Typed, FormParts
<1>5. valid \in BOOLEAN /\ (valid <=> r.value \in Accepted)
  OBVIOUS
<1>6. /\ f \in form.pending /\ f \in present /\ r.value \in Values
      /\ form.previous[f] \in {Undefined} \union [old : Values, valid : BOOLEAN]
      /\ form.previous[f] # Undefined => form.previous[f].old = r.value
      /\ DOMAIN form.previous = Fields
  BY <1>2 DEF IInv, Good, Typed, Counted, Answered
<1> HIDE DEF received, valid
<1>7. /\ \A g \in Fields : g # f => received.previous[g] = form.previous[g]
      /\ received.previous[f] = IF form.previous[f] = Undefined THEN form.previous[f]
                                ELSE [form.previous[f] EXCEPT !.valid = valid]
  BY <1>4, <1>6
<1>8. /\ DOMAIN received.previous = Fields
      /\ received.previous[f] \in {Undefined} \union [old : Values, valid : BOOLEAN]
      /\ received.previous[f] # Undefined => received.previous[f].old = r.value
      /\ received.previous[f] # Undefined => (received.previous[f].valid <=> r.value \in Accepted)
  BY <1>4, <1>5, <1>6, <1>7
<1>9. /\ received.value = form.value /\ received.rules = form.rules
      /\ received.submitted = form.submitted /\ received.errorList = form.errorList
      /\ received.successList = form.successList /\ received.current = form.current
      /\ received.pending = form.pending /\ received.pendingRequest = form.pendingRequest
      /\ received.container = form.container /\ received.highlighted = form.highlighted
      /\ received.summary = form.summary /\ received.failed = form.failed /\ received.sent = form.sent
      /\ received.hidden = form.hidden /\ received.disabled = form.disabled
  BY <1>4 DEF FormParts
<1>10. Good(received)
  <2>1. Typed(received)
    BY <1>4, <1>6, <1>7, <1>8, <1>9 DEF IInv, Good, Typed
  <2>2. Ruled(received) /\ Counted(received) /\ Listed(received)
    BY <1>4, <1>9 DEF IInv, Good, Ruled, Counted, Listed
  <2>3. Answered(received)
    <3>1. \A s \in received.requests : s.field \in Fields /\ s.field # f /\ s \in form.requests
      BY <1>2, <1>4 DEF IInv, Good, Counted
    <3>2. QED
      BY <1>6, <1>7, <1>9, <3>1 DEF IInv, Good, Answered
  <2>4. QED
    BY <2>1, <2>2, <2>3 DEF Good
<1>11. ShownExcept(received, {}) /\ ~received.sent /\ Settled(received, f)
  <2>1. \A s \in received.requests : s.field # f
    BY <1>2, <1>4 DEF IInv, Good, Counted
  <2>2. QED
    BY <1>2, <1>8, <1>9, <2>1 DEF IInv, ShownExcept, Settled
<1>12. /\ Good(shown) /\ ShownExcept(shown, {}) /\ ~shown.sent
       /\ f \in shown.pending /\ Settled(shown, f)
  BY <1>3, <1>5, <1>6, <1>9, <1>10, <1>11, ReceiveKeeps DEF Settled
<1> HIDE DEF shown
<1>13. Good(form') /\ ShownExcept(form', {}) /\ (form'.sent => Valid(form'))
  BY <1>2, <1>3, <1>5, <1>12, StopKeeps
<1>14. QED
  BY <1>2, <1>3, <1>13, FormStep

LEMMA LoseAnswerStep ==
  ASSUME IInv, LoseAnswer
  PROVE  IInv'
<1>1. PICK r \in form.requests : form' = [form EXCEPT !.requests = @ \ {r}]
  BY DEF LoseAnswer
<1>2. ~form.sent /\ UNCHANGED <<present, options>> /\ lost' = TRUE /\ edits' = edits
  BY DEF LoseAnswer
<1>3. /\ DOMAIN form' = FormParts /\ form'.requests = form.requests \ {r}
      /\ \A p \in FormParts \ {"requests"} : form'[p] = form[p]
  BY <1>1 DEF IInv, Good, Typed, FormParts
<1>4. /\ form'.value = form.value /\ form'.rules = form.rules /\ form'.submitted = form.submitted
      /\ form'.invalid = form.invalid /\ form'.errorList = form.errorList
      /\ form'.successList = form.successList /\ form'.current = form.current
      /\ form'.pending = form.pending /\ form'.pendingRequest = form.pendingRequest
      /\ form'.previous = form.previous /\ form'.container = form.container
      /\ form'.highlighted = form.highlighted /\ form'.summary = form.summary
      /\ form'.failed = form.failed /\ form'.sent = form.sent
      /\ form'.hidden = form.hidden /\ form'.disabled = form.disabled
  BY <1>3 DEF FormParts
<1>5. Typed(form')
  BY <1>3, <1>4 DEF IInv, Good, Typed
<1>6. Ruled(form') /\ Counted(form') /\ Answered(form') /\ Listed(form')
  BY <1>3, <1>4 DEF IInv, Good, Ruled, Counted, Answered, Listed
<1>7. ShownExcept(form', {}) /\ ~form'.sent
  BY <1>2, <1>4 DEF IInv, ShownExcept
<1>8. Page /\ lost' \in BOOLEAN /\ edits' \in 0..MaxEdits
  BY <1>2 DEF IInv, Page
<1>9. QED
  BY <1>2, <1>5, <1>6, <1>7, <1>8, FormStep DEF Good

LEMMA ResetStep ==
  ASSUME IInv, Reset
  PROVE  IInv'
<1> DEFINE shown == elements(form)
<1>1. /\ ~form.sent /\ UNCHANGED <<present, options>> /\ lost' = lost /\ edits' = edits
      /\ form' = [reset(form) EXCEPT
                    !.value         = [f \in Fields |-> Empty],
                    !.submitted     = {},
                    !.invalid       = {},
                    !.previous      = [f \in Fields |-> IF f \in shown THEN Undefined ELSE @[f]],
                    !.highlighted   = @ \ shown,
                    !.summary.class = "validation-summary-valid",
                    !.container     = [f \in Fields |-> onResetContainer(form, f)],
                    !.failed        = {}]
  BY DEF Reset
<1> HIDE DEF shown
<1>2. /\ DOMAIN reset(form) = FormParts
      /\ \A p \in FormParts \ {"errorList", "successList", "current"} : reset(form)[p] = form[p]
      /\ reset(form).errorList = {} /\ reset(form).successList = {} /\ reset(form).current = {}
  BY DEF reset, IInv, Good, Typed, FormParts
<1>3. /\ DOMAIN form' = FormParts
      /\ form'.value = [f \in Fields |-> Empty] /\ form'.submitted = {} /\ form'.invalid = {}
      /\ form'.previous = [f \in Fields |-> IF f \in shown THEN Undefined ELSE reset(form).previous[f]]
      /\ form'.highlighted = reset(form).highlighted \ shown
      /\ form'.summary = [reset(form).summary EXCEPT !.class = "validation-summary-valid"]
      /\ form'.container = [f \in Fields |-> onResetContainer(form, f)]
      /\ form'.failed = {}
      /\ \A p \in FormParts \ {"value", "submitted", "invalid", "previous", "highlighted",
                                "summary", "container", "failed"} : form'[p] = reset(form)[p]
  BY <1>1, <1>2 DEF FormParts
<1>4. /\ form'.errorList = {} /\ form'.successList = {} /\ form'.current = {}
      /\ form'.rules = form.rules /\ form'.pending = form.pending
      /\ form'.pendingRequest = form.pendingRequest /\ form'.requests = form.requests
      /\ form'.sent = form.sent /\ form'.hidden = form.hidden /\ form'.disabled = form.disabled
      /\ form'.highlighted \subseteq form.highlighted
      /\ form'.summary = [form.summary EXCEPT !.class = "validation-summary-valid"]
      /\ \A f \in Fields : form'.previous[f] = Undefined \/ form'.previous[f] = form.previous[f]
  BY <1>2, <1>3 DEF FormParts
<1>5. Typed(form')
  BY <1>3, <1>4, FormConstants DEF IInv, Good, Typed
<1>6. Ruled(form') /\ Counted(form')
  BY <1>4 DEF IInv, Good, Ruled, Counted
<1>7. Answered(form')
  BY <1>4 DEF IInv, Good, Answered, Counted
<1>8. \A f \in Fields :
        /\ form'.container[f] \in Containers /\ form'.container[f].class = "field-validation-valid"
        /\ form'.container[f].label # Undefined => ~form'.container[f].label.errorClass
  <2> TAKE f \in Fields
  <2>1. /\ form.container[f] \in Containers
        /\ form.container[f].label # Undefined => ~form.container[f].label.errorClass
    BY DEF IInv, Good, Listed, Containers
  <2>2. form'.container[f] = onResetContainer(form, f)
    BY <1>3
  <2> DEFINE c == form.container[f]
             left == IF c.label = Undefined THEN Undefined
                     ELSE [c.label EXCEPT !.unobtrusiveContainer = FALSE]
  <2>3. CASE c.class # "field-validation-error"
    <3>1. form'.container[f] = c
      BY <2>2, <2>3 DEF onResetContainer
    <3>2. c.class = "field-validation-valid"
      BY <2>1, <2>3 DEF Containers
    <3>3. QED
      BY <2>1, <3>1, <3>2
  <2>4. CASE c.class = "field-validation-error"
    <3>1. form'.container[f] = [class |-> "field-validation-valid", label |-> left]
      BY <2>2, <2>4 DEF onResetContainer
    <3>2. c.label \in {Undefined} \union Label
      BY <2>1 DEF Containers
    <3>3. left \in {Undefined} \union Label
      BY <3>2 DEF Label
    <3>4. left # Undefined => ~left.errorClass
      BY <2>1, <3>2 DEF Label
    <3> HIDE DEF left
    <3>5. \A l \in {Undefined} \union Label : [class |-> "field-validation-valid", label |-> l] \in Containers
      BY DEF Containers
    <3>6. [class |-> "field-validation-valid", label |-> left] \in Containers
      BY <3>3, <3>5
    <3>7. QED
      BY <3>1, <3>4, <3>6
  <2>5. QED
    BY <2>3, <2>4
<1>9. Listed(form') /\ ShownExcept(form', {})
  BY <1>3, <1>4, <1>8 DEF Listed, ShownExcept, Containers
<1>10. Page /\ lost' \in BOOLEAN /\ edits' \in 0..MaxEdits /\ ~form'.sent
  BY <1>1, <1>4 DEF IInv, Page
<1>11. QED
  BY <1>1, <1>5, <1>6, <1>7, <1>9, <1>10, FormStep DEF Good

(* Every step keeps the invariant.                                         *)
LEMMA InvIsInductive == IInv /\ [Next]_vars => IInv'
<1> SUFFICES ASSUME IInv, [Next]_vars PROVE IInv'
  OBVIOUS
<1>1. CASE Parse
  BY <1>1, ParseStep
<1>2. CASE validate
  BY <1>2, ValidateStep
<1>3. CASE Submit
  BY <1>3, SubmitStep
<1>4. CASE Reset
  BY <1>4, ResetStep
<1>5. CASE Load
  BY <1>5, LoadStep
<1>6. CASE LoseAnswer
  BY <1>6, LoseAnswerStep
<1>7. CASE \E f \in Fields : AddField(f)
  BY <1>7, AddFieldStep
<1>8. CASE \E f \in Fields : KeyUp(f) \/ Leave(f)
  BY <1>8, ElementStep DEF KeyUp, Leave
<1>9. CASE \E f \in Fields : Answer(f)
  BY <1>9, AnswerStep
<1>10. CASE \E f \in Fields, v \in Values : Change(f, v)
  BY <1>10, ChangeStep
<1>11. CASE UNCHANGED vars
  <2>1. UNCHANGED <<present, options, form, lost, edits>>
    BY <1>11 DEF vars
  <2>2. /\ Page /\ lost' \in BOOLEAN /\ edits' \in 0..MaxEdits
        /\ Good(form') /\ ShownExcept(form', {}) /\ (form'.sent /\ ~form'.unchecked => Valid(form'))
    BY <2>1 DEF IInv, Page
  <2>3. QED
    BY <2>1, <2>2, FormStep
<1>12. CASE ClickCancel
  BY <1>12, ClickCancelStep
<1>13. CASE \E f \in Fields : Display(f) \/ Disable(f)
  BY <1>13, DisplayStep, DisableStep
<1>14. QED
  BY <1>1, <1>2, <1>3, <1>4, <1>5, <1>6, <1>7, <1>8, <1>9, <1>10, <1>11,
     <1>12, <1>13 DEF Next

LEMMA InvHolds == Spec => []IInv
  BY InvHoldsAtFirst, InvIsInductive, PTL DEF Spec

-----------------------------------------------------------------------------
(* Theorems *)

(* The page's parts keep their types: lists name fields that are there, an  *)
(* error is no success, and the validator has the rules that were parsed.  *)
THEOREM TypeCorrect == Spec => []TypeOK
<1>1. ASSUME IInv PROVE TypeOK
  <2>1. /\ present \subseteq Fields /\ lost \in BOOLEAN /\ edits \in 0..MaxEdits
        /\ DOMAIN options \subseteq present /\ DOMAIN form.rules \subseteq DOMAIN options
        /\ \A f \in DOMAIN options : options[f] = parseElement(f)
        /\ \A f \in DOMAIN form.rules : form.rules[f] = options[f]
    BY <1>1 DEF IInv, Page, Good, Ruled
  <2>2. /\ form.value \in [Fields -> Values]
        /\ \A s \in {form.submitted, form.invalid, form.errorList, form.successList, form.current,
                     form.pending, form.highlighted, form.failed, form.summary.list,
                     form.hidden, form.disabled} : s \subseteq present
        /\ form.requests \subseteq [field : Fields, value : Values]
        /\ \A f \in Fields : form.previous[f] \in {Undefined} \union [old : Values, valid : BOOLEAN]
    BY <1>1 DEF IInv, Good, Typed, Counted
  <2>3. form.pendingRequest \in Nat
    BY <1>1, CountIsNat DEF IInv
  <2>4. /\ \A f \in Fields :
             form.container[f] \in [class : {"field-validation-valid", "field-validation-error"},
                                   label : {Undefined} \union Label]
        /\ form.errorList \intersect form.successList = {}
    BY <1>1 DEF IInv, Good, Listed
  <2>5. QED
    BY <2>1, <2>2, <2>3, <2>4 DEF TypeOK
<1>2. QED
  BY <1>1, InvHolds, PTL

(* However requests are sent, aborted, answered and lost, pendingRequest is *)
(* the number of fields that wait, and each has at most one request.       *)
THEOREM RequestsMatch == Spec => []RequestsAreCounted
<1>1. IInv => RequestsAreCounted
  BY DEF IInv, Good, Counted, RequestsAreCounted
<1>2. QED
  BY <1>1, InvHolds, PTL

(* Of any number of fields with any attributes, a form that a checked submit *)
(* sends has no value in an enabled and visible field that a rule known to  *)
(* its validator refuses, whatever is hidden, disabled or cancelled before. *)
THEOREM SentFormsAreValid == Spec => []SentFormIsValid
<1>1. IInv => SentFormIsValid
  BY DEF IInv, Valid, SentFormIsValid
<1>2. QED
  BY <1>1, InvHolds, PTL

(* A container is marked as an error exactly when the last check or answer  *)
(* refused its field, whether its message is replaced or not.              *)
THEOREM LabelsTellTheTruth == Spec => []ShownAsChecked
<1>1. ASSUME IInv PROVE ShownAsChecked
  BY <1>1 DEF IInv, Page, ShownExcept, ShownAsChecked
<1>2. QED
  BY <1>1, InvHolds, PTL

-----------------------------------------------------------------------------
(* The adapters, for any bounds, names, values and groups of inputs. They   *)
(* have no state: what is proved of them is proved of every constant.      *)

(* A set of natural numbers with an element has a least one.               *)
LEMMA MinOf ==
  ASSUME NEW S \in SUBSET Nat, S # {}
  PROVE  Min(S) \in S /\ \A i \in S : Min(S) <= i
<1> DEFINE R == OpToRel(<, Nat)
<1>1. \A x, y \in Nat : y < x => <<y, x>> \in R
  <2>1. R = {ss \in Nat \X Nat : ss[1] < ss[2]}
    BY Zenon DEF OpToRel
  <2>2. QED
    BY <2>1
<1>2. IsWellFoundedOn(R, Nat)
  BY NatLessThanWellFounded, Zenon
<1> HIDE DEF R
<1>3. PICK x \in S : \A y \in S : ~(<<y, x>> \in R)
  BY <1>2, WFMin
<1>4. \A y \in S : x <= y
  <2>1. \A y \in S : ~(y < x)
    BY <1>1, <1>3, Zenon
  <2>2. QED
    BY <2>1
<1>5. QED
  BY <1>4 DEF Min

(* The greatest element of a set is its maximum.                           *)
LEMMA MaxIs ==
  ASSUME NEW S \in SUBSET Nat, NEW m \in S, \A i \in S : i <= m
  PROVE  Max(S) = m
<1>1. m \in Nat /\ \A i \in S : i \in Nat
  OBVIOUS
<1>2. m = CHOOSE x \in S : \A y \in S : x >= y
  <2>1. \A x \in S : (\A y \in S : x >= y) => x = m
    BY <1>1
  <2>2. \A y \in S : m >= y
    BY <1>1
  <2>3. QED
    BY <2>1, <2>2
<1>3. QED
  BY <1>2 DEF Max


(* The adapters by number, with what their attributes are called.          *)
LEMMA AdapterTable ==
  /\ DOMAIN Adapters = 1..17
  /\ Adapters[9]  = [name |-> "length", params |-> <<"min", "max">>, adapt |-> "minMax",
                     rules |-> <<"minlength", "maxlength", "rangelength">>, attribute |-> Undefined]
  /\ Adapters[11] = [name |-> "minlength", params |-> <<"min", "max">>, adapt |-> "minMax",
                     rules |-> <<"minlength", Undefined, Undefined>>, attribute |-> Undefined]
  /\ Adapters[12] = [name |-> "maxlength", params |-> <<"min", "max">>, adapt |-> "minMax",
                     rules |-> <<"minlength", "maxlength", Undefined>>, attribute |-> Undefined]
  /\ Adapters[13] = [name |-> "equalto", params |-> <<"other">>, adapt |-> "equalto",
                     rules |-> <<>>, attribute |-> Undefined]
  /\ Adapters[15] = [name |-> "remote", params |-> <<"url", "type", "additionalfields">>,
                     adapt |-> "remote", rules |-> <<>>, attribute |-> Undefined]
  /\ Adapters[16] = [name |-> "password", params |-> <<"min", "nonalphamin", "regex">>,
                     adapt |-> "password", rules |-> <<>>, attribute |-> Undefined]
  /\ \A i \in 1..17 \ {9, 11, 12, 16} :
       Adapters[i].name \notin {"length", "minlength", "maxlength", "password"}
  /\ \A i \in 1..17 \ {13, 15} : Adapters[i].name \notin {"equalto", "remote"}
<1>1. DOMAIN Adapters = 1..17
  BY DEF Adapters
<1>2. /\ Adapters[9] = addMinMax("length", "minlength", "maxlength", "rangelength")
      /\ Adapters[11] = addMinMax("minlength", "minlength", Undefined, Undefined)
      /\ Adapters[12] = addMinMax("maxlength", "minlength", "maxlength", Undefined)
      /\ Adapters[13] = add("equalto", <<"other">>, "equalto")
      /\ Adapters[15] = add("remote", <<"url", "type", "additionalfields">>, "remote")
      /\ Adapters[16] = add("password", <<"min", "nonalphamin", "regex">>, "password")
  BY DEF Adapters
<1>3. /\ Adapters[1].name = "extension" /\ Adapters[2].name = "regex" /\ Adapters[3].name = "creditcard"
      /\ Adapters[4].name = "date" /\ Adapters[5].name = "digits" /\ Adapters[6].name = "email"
      /\ Adapters[7].name = "number" /\ Adapters[8].name = "url" /\ Adapters[9].name = "length"
      /\ Adapters[10].name = "range" /\ Adapters[11].name = "minlength"
      /\ Adapters[12].name = "maxlength" /\ Adapters[13].name = "equalto"
      /\ Adapters[14].name = "required" /\ Adapters[15].name = "remote"
      /\ Adapters[16].name = "password" /\ Adapters[17].name = "fileextensions"
  <2>1. \A n, p, a : add(n, p, a).name = n
    BY DEF add
  <2>2. \A n, a, b, c : addMinMax(n, a, b, c).name = n
    BY DEF addMinMax, add
  <2>3. \A n : addBool(n).name = n
    BY DEF addBool, add
  <2>4. \A n, a, r : addSingleVal(n, a, r).name = n
    BY DEF addSingleVal, add
  <2>5. QED
    BY <2>1, <2>2, <2>3, <2>4 DEF Adapters
<1>4. \A i \in 1..17 \ {9, 11, 12, 16} :
        Adapters[i].name \notin {"length", "minlength", "maxlength", "password"}
  BY <1>3
<1>5. \A i \in 1..17 \ {13, 15} : Adapters[i].name \notin {"equalto", "remote"}
  BY <1>3
<1>6. QED
  BY <1>1, <1>2, <1>4, <1>5 DEF add, addMinMax

(* Adapter m is the last one that sets a rule; no adapter sets it.         *)
LastSetter(input, inputs, key, m) ==
  /\ key \in DOMAIN Visit(input, inputs, Adapters[m])
  /\ \A i \in 1..17 : key \in DOMAIN Visit(input, inputs, Adapters[i]) => i <= m
NoSetter(input, inputs, key) ==
  \A i \in 1..17 : key \notin DOMAIN Visit(input, inputs, Adapters[i])

(* A rule of an element is that of the last adapter that sets it.          *)
LEMMA RuleOf ==
  ASSUME NEW input, NEW inputs, NEW key, key # "__dummy__", NEW m \in 1..17,
         LastSetter(input, inputs, key, m)
  PROVE  /\ key \in DOMAIN ApplyAdapters(input, inputs, Adapters).rules
         /\ ApplyAdapters(input, inputs, Adapters).rules[key] = Visit(input, inputs, Adapters[m])[key]
<1> DEFINE set     == [i \in DOMAIN Adapters |-> Visit(input, inputs, Adapters[i])]
           Setters(k) == {i \in DOMAIN Adapters : k \in DOMAIN set[i]}
           keys    == UNION {DOMAIN set[i] : i \in DOMAIN Adapters}
           given   == [k \in keys |-> set[Max(Setters(k))][k]]
<1>1. ApplyAdapters(input, inputs, Adapters).rules = extend(given, [k \in {"__dummy__"} |-> TRUE])
  BY DEF ApplyAdapters
<1>2. DOMAIN Adapters = 1..17
  BY AdapterTable
<1>3. Max(Setters(key)) = m
  <2>1. Setters(key) \in SUBSET Nat /\ m \in Setters(key) /\ \A i \in Setters(key) : i <= m
    BY <1>2 DEF LastSetter
  <2>2. QED
    BY <2>1, MaxIs
<1>4. key \in keys /\ given[key] = Visit(input, inputs, Adapters[m])[key]
  BY <1>2, <1>3 DEF LastSetter
<1> HIDE DEF given
<1>5. QED
  BY <1>1, <1>4 DEF extend, given

(* A rule that no adapter sets is not there.                               *)
LEMMA NoRule ==
  ASSUME NEW input, NEW inputs, NEW key, key # "__dummy__",
         NoSetter(input, inputs, key)
  PROVE  key \notin DOMAIN ApplyAdapters(input, inputs, Adapters).rules
  BY AdapterTable DEF ApplyAdapters, extend, NoSetter

(* What a minMax adapter makes of the two attributes.                      *)
MinMaxSets(sets, there, rule, min, max) ==
  /\ ~there => sets = NoKeys
  /\ there /\ Truthy(min) /\ Truthy(max)   => sets = [k \in {rule[3]} |-> <<min, max>>]
  /\ there /\ Truthy(min) /\ ~Truthy(max)  => sets = [k \in {rule[1]} |-> min]
  /\ there /\ ~Truthy(min) /\ Truthy(max)  => sets = [k \in {rule[2]} |-> max]
  /\ there /\ ~Truthy(min) /\ ~Truthy(max) => sets = NoKeys

(* A minMax adapter reads the attributes of its own name.                  *)
LEMMA VisitMinMax ==
  ASSUME NEW input, NEW inputs, NEW a, a.adapt = "minMax", a.params = <<"min", "max">>
  PROVE  MinMaxSets(Visit(input, inputs, a), <<a.name>> \in DOMAIN input.attrs, a.rules,
                    Lookup(input.attrs, <<a.name, "min">>), Lookup(input.attrs, <<a.name, "max">>))
<1> DEFINE there == <<a.name>> \in DOMAIN input.attrs
           min     == Lookup(input.attrs, <<a.name, "min">>)
           max     == Lookup(input.attrs, <<a.name, "max">>)
           params  == [p \in ToSet(a.params) |-> Lookup(input.attrs, <<a.name, p>>)]
           given == [element |-> input, form |-> inputs, params |-> params]
<1>1. ~there => Visit(input, inputs, a) = NoKeys
  BY DEF Visit
<1>2. there => Visit(input, inputs, a) = adaptMinMax(a.rules, given)
  BY DEF Visit, Adapt
<1>3. Lookup(given.params, "min") = min /\ Lookup(given.params, "max") = max
  <2>1. ToSet(a.params) = {"min", "max"}
    BY DEF ToSet
  <2> HIDE DEF min, max
  <2>2. params["min"] = min /\ params["max"] = max /\ DOMAIN params = {"min", "max"}
    BY <2>1 DEF min, max
  <2>3. QED
    BY <2>2 DEF Lookup
<1> HIDE DEF min, max, there, given
<1>4. adaptMinMax(a.rules, given) =
        CASE Truthy(min) /\ Truthy(max)  -> [k \in {a.rules[3]} |-> <<min, max>>]
          [] Truthy(min) /\ ~Truthy(max) -> [k \in {a.rules[1]} |-> min]
          [] ~Truthy(min) /\ Truthy(max) -> [k \in {a.rules[2]} |-> max]
          [] OTHER                       -> NoKeys
  BY <1>3 DEF adaptMinMax, setValidationValues
<1>5. MinMaxSets(Visit(input, inputs, a), there, a.rules, min, max)
  BY <1>1, <1>2, <1>4 DEF MinMaxSets
<1>6. QED
  BY <1>5 DEF there, min, max

(* The values of the bounds; the bounds that are stated by a value.        *)
Bounds == 0..MaxBound \union {Empty}
Stated(names, bound) == {k \in names : bound[k] # Empty}

(* What each adapter sets for an element that declares bounds.             *)
LEMMA LengthRules ==
  ASSUME NEW names \in SUBSET BoundNames, NEW bound \in [BoundNames -> Bounds]
  PROVE  LET stated == Stated(names, bound) IN
         /\ Visit(LengthElement(names, bound), <<>>, Adapters[9]) =
              IF <<"length", "min">> \in stated
              THEN IF <<"length", "max">> \in stated
                   THEN [k \in {"rangelength"} |-> <<bound[<<"length", "min">>], bound[<<"length", "max">>]>>]
                   ELSE [k \in {"minlength"} |-> bound[<<"length", "min">>]]
              ELSE IF <<"length", "max">> \in stated
                   THEN [k \in {"maxlength"} |-> bound[<<"length", "max">>]] ELSE NoKeys
         /\ Visit(LengthElement(names, bound), <<>>, Adapters[11]) =
              IF <<"minlength", "min">> \in stated
              THEN [k \in {"minlength"} |-> bound[<<"minlength", "min">>]] ELSE NoKeys
         /\ Visit(LengthElement(names, bound), <<>>, Adapters[12]) =
              IF <<"maxlength", "max">> \in stated
              THEN [k \in {"maxlength"} |-> bound[<<"maxlength", "max">>]] ELSE NoKeys
         /\ Visit(LengthElement(names, bound), <<>>, Adapters[16]) =
              IF <<"password", "min">> \in stated
              THEN [k \in {"minlength"} |-> bound[<<"password", "min">>]] ELSE NoKeys
         /\ \A i \in 1..17 \ {9, 11, 12, 16} : Visit(LengthElement(names, bound), <<>>, Adapters[i]) = NoKeys
<1> DEFINE input == LengthElement(names, bound)
           attrs   == input.attrs
           stated  == Stated(names, bound)
<1>0. stated \subseteq names /\ \A k \in names : k \in stated <=> bound[k] # Empty
  BY DEF Stated
<1>1. /\ DOMAIN attrs = names \union {<<n[1]>> : n \in names}
      /\ \A k \in names \union {<<n[1]>> : n \in names} : Len(k) # 1 => attrs[k] = bound[k]
  BY DEF LengthElement
<1>2. \A k \in BoundNames : Len(k) = 2
  BY DEF BoundNames, LowerBoundNames, UpperBoundNames
<1>3. \A k : Len(k) = 2 => (k \in DOMAIN attrs <=> k \in names)
  <2>1. \A c : Len(<<c>>) = 1
    OBVIOUS
  <2>2. QED
    BY <1>1, <2>1
<1>4. \A k \in names : Lookup(attrs, k) = bound[k] /\ (Truthy(bound[k]) <=> k \in stated)
  <2>1. \A k \in names : Lookup(attrs, k) = bound[k]
    BY <1>1, <1>2 DEF Lookup
  <2>2. \A k \in names : bound[k] \in Nat \union {Empty}
    BY AdapterConstants DEF Bounds
  <2>3. QED
    BY <1>0, <2>1, <2>2, AdapterConstants DEF Truthy
<1>5. \A a : <<a>> \in DOMAIN attrs <=> \E n \in names : n[1] = a
  <2>1. \A a : <<a>> \notin names
    <3>1. \A a : Len(<<a>>) = 1
      OBVIOUS
    <3>2. QED
      BY <1>2, <3>1
  <2>2. \A a, b : <<a>> = <<b>> => a = b
    OBVIOUS
  <2>3. QED
    BY <1>1, <2>1, <2>2
<1>6. /\ <<"length">> \in DOMAIN attrs <=> <<"length", "min">> \in names \/ <<"length", "max">> \in names
      /\ <<"minlength">> \in DOMAIN attrs <=> <<"minlength", "min">> \in names
      /\ <<"maxlength">> \in DOMAIN attrs <=> <<"maxlength", "max">> \in names
      /\ <<"password">> \in DOMAIN attrs <=> <<"password", "min">> \in names
  <2>1. \A n \in BoundNames :
          /\ n[1] = "length" <=> n = <<"length", "min">> \/ n = <<"length", "max">>
          /\ n[1] = "minlength" <=> n = <<"minlength", "min">>
          /\ n[1] = "maxlength" <=> n = <<"maxlength", "max">>
          /\ n[1] = "password" <=> n = <<"password", "min">>
    BY DEF BoundNames, LowerBoundNames, UpperBoundNames
  <2> HIDE DEF attrs
  <2>2. \A n \in names : n \in BoundNames
    OBVIOUS
  <2>3. <<"length">> \in DOMAIN attrs <=> \E n \in names : n[1] = "length"
    BY <1>5
  <2>4. <<"minlength">> \in DOMAIN attrs <=> \E n \in names : n[1] = "minlength"
    BY <1>5
  <2>5. <<"maxlength">> \in DOMAIN attrs <=> \E n \in names : n[1] = "maxlength"
    BY <1>5
  <2>6. <<"password">> \in DOMAIN attrs <=> \E n \in names : n[1] = "password"
    BY <1>5
  <2>7. QED
    BY <2>1, <2>2, <2>3, <2>4, <2>5, <2>6, Zenon
<1>7. ~Truthy(Undefined)
  BY DEF Truthy
<1>8. /\ Lookup(attrs, <<"minlength", "max">>) = Undefined
      /\ Lookup(attrs, <<"maxlength", "min">>) = Undefined
      /\ Lookup(attrs, <<"password", "nonalphamin">>) = Undefined
      /\ Lookup(attrs, <<"password", "regex">>) = Undefined
  <2>1. \A k \in {<<"minlength", "max">>, <<"maxlength", "min">>, <<"password", "nonalphamin">>,
                   <<"password", "regex">>} : k \notin BoundNames
    BY DEF BoundNames, LowerBoundNames, UpperBoundNames
  <2>2. /\ Len(<<"minlength", "max">>) = 2 /\ Len(<<"maxlength", "min">>) = 2
        /\ Len(<<"password", "nonalphamin">>) = 2 /\ Len(<<"password", "regex">>) = 2
    OBVIOUS
  <2> HIDE DEF attrs
  <2>3. QED
    BY <1>3, <2>1, <2>2, Zenon DEF Lookup
<1>9. \A k \in BoundNames :
        /\ Truthy(Lookup(attrs, k)) <=> k \in stated
        /\ k \in stated => Lookup(attrs, k) = bound[k]
  <2> HIDE DEF attrs, stated
  <2>1. \A k \in BoundNames \ names : Lookup(attrs, k) = Undefined
    BY <1>2, <1>3 DEF Lookup
  <2>2. QED
    BY <1>0, <1>4, <1>7, <2>1
<1> HIDE DEF input, attrs, stated
<1>10. /\ Visit(input, <<>>, Adapters[9]) =
              IF <<"length", "min">> \in stated
              THEN IF <<"length", "max">> \in stated
                   THEN [k \in {"rangelength"} |-> <<bound[<<"length", "min">>], bound[<<"length", "max">>]>>]
                   ELSE [k \in {"minlength"} |-> bound[<<"length", "min">>]]
              ELSE IF <<"length", "max">> \in stated
                   THEN [k \in {"maxlength"} |-> bound[<<"length", "max">>]] ELSE NoKeys
  <2> DEFINE min == Lookup(attrs, <<"length", "min">>)
             max == Lookup(attrs, <<"length", "max">>)
  <2>1. /\ Truthy(min) <=> <<"length", "min">> \in stated
        /\ Truthy(max) <=> <<"length", "max">> \in stated
        /\ <<"length", "min">> \in stated => min = bound[<<"length", "min">>]
        /\ <<"length", "max">> \in stated => max = bound[<<"length", "max">>]
    BY <1>9 DEF BoundNames, LowerBoundNames, UpperBoundNames
  <2>2. Truthy(min) \/ Truthy(max) => <<"length">> \in DOMAIN attrs
    BY <1>0, <1>6, <2>1
  <2>3. MinMaxSets(Visit(input, <<>>, Adapters[9]), <<"length">> \in DOMAIN attrs,
                   <<"minlength", "maxlength", "rangelength">>, min, max)
    <3>1. /\ Adapters[9].name = "length" /\ Adapters[9].adapt = "minMax"
          /\ Adapters[9].params = <<"min", "max">>
          /\ Adapters[9].rules = <<"minlength", "maxlength", "rangelength">>
      BY AdapterTable
    <3>2. QED
      BY <3>1, VisitMinMax DEF attrs
  <2>4. QED
    BY <2>1, <2>2, <2>3 DEF MinMaxSets
<1>11. Visit(input, <<>>, Adapters[11]) =
              IF <<"minlength", "min">> \in stated
              THEN [k \in {"minlength"} |-> bound[<<"minlength", "min">>]] ELSE NoKeys
  <2> DEFINE min == Lookup(attrs, <<"minlength", "min">>)
             max == Lookup(attrs, <<"minlength", "max">>)
  <2>1. /\ Truthy(min) <=> <<"minlength", "min">> \in stated
        /\ ~Truthy(max)
        /\ <<"minlength", "min">> \in stated => min = bound[<<"minlength", "min">>]
    BY <1>7, <1>8, <1>9 DEF BoundNames, LowerBoundNames, UpperBoundNames
  <2>2. Truthy(min) => <<"minlength">> \in DOMAIN attrs
    BY <1>0, <1>6, <2>1
  <2>3. MinMaxSets(Visit(input, <<>>, Adapters[11]), <<"minlength">> \in DOMAIN attrs,
                   <<"minlength", Undefined, Undefined>>, min, max)
    <3>1. /\ Adapters[11].name = "minlength" /\ Adapters[11].adapt = "minMax"
          /\ Adapters[11].params = <<"min", "max">>
          /\ Adapters[11].rules = <<"minlength", Undefined, Undefined>>
      BY AdapterTable
    <3>2. QED
      BY <3>1, VisitMinMax DEF attrs
  <2>4. QED
    BY <2>1, <2>2, <2>3 DEF MinMaxSets
<1>12. Visit(input, <<>>, Adapters[12]) =
              IF <<"maxlength", "max">> \in stated
              THEN [k \in {"maxlength"} |-> bound[<<"maxlength", "max">>]] ELSE NoKeys
  <2> DEFINE min == Lookup(attrs, <<"maxlength", "min">>)
             max == Lookup(attrs, <<"maxlength", "max">>)
  <2>1. /\ Truthy(max) <=> <<"maxlength", "max">> \in stated
        /\ ~Truthy(min)
        /\ <<"maxlength", "max">> \in stated => max = bound[<<"maxlength", "max">>]
    BY <1>7, <1>8, <1>9 DEF BoundNames, LowerBoundNames, UpperBoundNames
  <2>2. Truthy(max) => <<"maxlength">> \in DOMAIN attrs
    BY <1>0, <1>6, <2>1
  <2>3. MinMaxSets(Visit(input, <<>>, Adapters[12]), <<"maxlength">> \in DOMAIN attrs,
                   <<"minlength", "maxlength", Undefined>>, min, max)
    <3>1. /\ Adapters[12].name = "maxlength" /\ Adapters[12].adapt = "minMax"
          /\ Adapters[12].params = <<"min", "max">>
          /\ Adapters[12].rules = <<"minlength", "maxlength", Undefined>>
      BY AdapterTable
    <3>2. QED
      BY <3>1, VisitMinMax DEF attrs
  <2>4. QED
    BY <2>1, <2>2, <2>3 DEF MinMaxSets
<1>13. Visit(input, <<>>, Adapters[16]) =
              IF <<"password", "min">> \in stated
              THEN [k \in {"minlength"} |-> bound[<<"password", "min">>]] ELSE NoKeys
  <2> DEFINE params  == [p \in ToSet(Adapters[16].params) |-> Lookup(attrs, <<"password", p>>)]
             given == [element |-> input, form |-> <<>>, params |-> params]
             min     == Lookup(attrs, <<"password", "min">>)
  <2>1. /\ Truthy(min) <=> <<"password", "min">> \in stated
        /\ <<"password", "min">> \in stated => min = bound[<<"password", "min">>]
    BY <1>9 DEF BoundNames, LowerBoundNames, UpperBoundNames
  <2>2. Truthy(min) => <<"password">> \in DOMAIN attrs
    BY <1>0, <1>6, <2>1
  <2>3. params["min"] = min /\ params["nonalphamin"] = Undefined /\ params["regex"] = Undefined
    <3>1. ToSet(Adapters[16].params) = {"min", "nonalphamin", "regex"}
      BY AdapterTable DEF ToSet
    <3>2. QED
      BY <1>8, <3>1
  <2>4. /\ Adapters[16].name = "password" /\ Adapters[16].adapt = "password"
    BY AdapterTable
  <2>5. /\ <<"password">> \notin DOMAIN attrs => Visit(input, <<>>, Adapters[16]) = NoKeys
        /\ <<"password">> \in DOMAIN attrs => Visit(input, <<>>, Adapters[16]) = adaptPassword(given)
    BY <2>4 DEF Visit, Adapt, attrs
  <2>6. adaptPassword(given) =
          IF Truthy(min) THEN [k \in {"minlength"} |-> min] ELSE NoKeys
    <3>1. \A m : extend(extend(m, NoKeys), NoKeys) = [k \in DOMAIN m |-> m[k]]
      BY DEF extend, NoKeys
    <3> HIDE DEF params, min
    <3>2. adaptPassword(given) =
            extend(extend(IF Truthy(min) THEN [k \in {"minlength"} |-> min] ELSE NoKeys, NoKeys), NoKeys)
      BY <1>7, <2>3 DEF adaptPassword, setValidationValues
    <3>3. QED
      BY <3>1, <3>2 DEF NoKeys
  <2>7. QED
    BY <2>1, <2>2, <2>5, <2>6
<1>14. ASSUME NEW i \in 1..17 \ {9, 11, 12, 16}
       PROVE  Visit(input, <<>>, Adapters[i]) = NoKeys
  <2>1. \A n \in names : n[1] \in {"length", "minlength", "maxlength", "password"}
    BY DEF BoundNames, LowerBoundNames, UpperBoundNames
  <2>2. <<Adapters[i].name>> \notin DOMAIN attrs
    <3>1. Adapters[i].name \notin {"length", "minlength", "maxlength", "password"}
      BY AdapterTable
    <3>2. \A a : <<a>> \notin names
      <4>1. \A a : Len(<<a>>) = 1
        OBVIOUS
      <4>2. QED
        BY <1>2, <4>1
    <3>3. \A a, b : <<a>> = <<b>> => a = b
      OBVIOUS
    <3>4. QED
      BY <1>1, <2>1, <3>1, <3>2, <3>3 DEF attrs
  <2>3. QED
    BY <2>2 DEF Visit, attrs
<1>15. QED
  BY <1>10, <1>11, <1>12, <1>13, <1>14 DEF input, stated

(* The three rules of a length that an element gets, and where from.       *)
LEMMA LengthRulesFrom ==
  ASSUME NEW names \in SUBSET BoundNames, NEW bound \in [BoundNames -> Bounds]
  PROVE  LET stated == Stated(names, bound) IN
         /\ Lookup(ApplyAdapters(LengthElement(names, bound), <<>>, Adapters).rules, "minlength") =
              IF <<"password", "min">> \in stated THEN bound[<<"password", "min">>]
              ELSE IF <<"minlength", "min">> \in stated THEN bound[<<"minlength", "min">>]
              ELSE IF <<"length", "min">> \in stated /\ <<"length", "max">> \notin stated
                   THEN bound[<<"length", "min">>] ELSE Undefined
         /\ Lookup(ApplyAdapters(LengthElement(names, bound), <<>>, Adapters).rules, "maxlength") =
              IF <<"maxlength", "max">> \in stated THEN bound[<<"maxlength", "max">>]
              ELSE IF <<"length", "max">> \in stated /\ <<"length", "min">> \notin stated
                   THEN bound[<<"length", "max">>] ELSE Undefined
         /\ Lookup(ApplyAdapters(LengthElement(names, bound), <<>>, Adapters).rules, "rangelength") =
              IF <<"length", "min">> \in stated /\ <<"length", "max">> \in stated
              THEN <<bound[<<"length", "min">>], bound[<<"length", "max">>]>> ELSE Undefined
<1> DEFINE input == LengthElement(names, bound)
           rules   == ApplyAdapters(input, <<>>, Adapters).rules
           set(i)  == Visit(input, <<>>, Adapters[i])
           stated  == Stated(names, bound)
<1>1. /\ set(9) = IF <<"length", "min">> \in stated
                  THEN IF <<"length", "max">> \in stated
                       THEN [k \in {"rangelength"} |-> <<bound[<<"length", "min">>], bound[<<"length", "max">>]>>]
                       ELSE [k \in {"minlength"} |-> bound[<<"length", "min">>]]
                  ELSE IF <<"length", "max">> \in stated
                       THEN [k \in {"maxlength"} |-> bound[<<"length", "max">>]] ELSE NoKeys
      /\ set(11) = IF <<"minlength", "min">> \in stated
                   THEN [k \in {"minlength"} |-> bound[<<"minlength", "min">>]] ELSE NoKeys
      /\ set(12) = IF <<"maxlength", "max">> \in stated
                   THEN [k \in {"maxlength"} |-> bound[<<"maxlength", "max">>]] ELSE NoKeys
      /\ set(16) = IF <<"password", "min">> \in stated
                   THEN [k \in {"minlength"} |-> bound[<<"password", "min">>]] ELSE NoKeys
      /\ \A i \in 1..17 \ {9, 11, 12, 16} : set(i) = NoKeys
  BY LengthRules
<1>2. DOMAIN NoKeys = {}
  BY DEF NoKeys
<1>3. ASSUME NEW key \in {"minlength", "maxlength", "rangelength"}, NEW m \in 1..17, key \in DOMAIN set(m),
             \A i \in 1..17 : key \in DOMAIN set(i) => i <= m
      PROVE  Lookup(rules, key) = set(m)[key]
  <2>1. key # "__dummy__"
    OBVIOUS
  <2>2. /\ key \in DOMAIN ApplyAdapters(input, <<>>, Adapters).rules
        /\ ApplyAdapters(input, <<>>, Adapters).rules[key] = set(m)[key]
    <3>1. LastSetter(input, <<>>, key, m)
      BY <1>3 DEF LastSetter
    <3> HIDE DEF input
    <3>2. QED
      BY <2>1, <3>1, RuleOf
  <2>3. QED
    BY <2>2 DEF Lookup
<1>4. ASSUME NEW key \in {"minlength", "maxlength", "rangelength"}, \A i \in 1..17 : key \notin DOMAIN set(i)
      PROVE  Lookup(rules, key) = Undefined
  <2>1. key # "__dummy__"
    OBVIOUS
  <2>2. key \notin DOMAIN ApplyAdapters(input, <<>>, Adapters).rules
    <3>1. NoSetter(input, <<>>, key)
      BY <1>4 DEF NoSetter
    <3> HIDE DEF input
    <3>2. QED
      BY <2>1, <3>1, NoRule
  <2>3. QED
    BY <2>2 DEF Lookup
<1> HIDE DEF set, rules, stated
<1>5. /\ \A i \in 1..17 : "minlength" \in DOMAIN set(i) <=>
              \/ i = 16 /\ <<"password", "min">> \in stated
              \/ i = 11 /\ <<"minlength", "min">> \in stated
              \/ i = 9 /\ <<"length", "min">> \in stated /\ <<"length", "max">> \notin stated
      /\ \A i \in 1..17 : "maxlength" \in DOMAIN set(i) <=>
              \/ i = 12 /\ <<"maxlength", "max">> \in stated
              \/ i = 9 /\ <<"length", "max">> \in stated /\ <<"length", "min">> \notin stated
      /\ \A i \in 1..17 : "rangelength" \in DOMAIN set(i) <=>
              i = 9 /\ <<"length", "min">> \in stated /\ <<"length", "max">> \in stated
  <2>1. /\ \A i \in 1..17 : i \in {9, 11, 12, 16} \/ i \in 1..17 \ {9, 11, 12, 16}
        /\ \A i \in 1..17 \ {9, 11, 12, 16} : DOMAIN set(i) = {}
    <3>1. \A i \in 1..17 : i \in {9, 11, 12, 16} \/ i \in 1..17 \ {9, 11, 12, 16}
      OBVIOUS
    <3>2. \A i \in 1..17 \ {9, 11, 12, 16} : DOMAIN set(i) = {}
      BY <1>1, <1>2
    <3>3. QED
      BY <3>1, <3>2
  <2>2. DOMAIN set(9) = IF <<"length", "min">> \in stated
                        THEN IF <<"length", "max">> \in stated THEN {"rangelength"} ELSE {"minlength"}
                        ELSE IF <<"length", "max">> \in stated THEN {"maxlength"} ELSE {}
    BY <1>1, <1>2
  <2>3. DOMAIN set(11) = IF <<"minlength", "min">> \in stated THEN {"minlength"} ELSE {}
    BY <1>1, <1>2
  <2>4. DOMAIN set(12) = IF <<"maxlength", "max">> \in stated THEN {"maxlength"} ELSE {}
    BY <1>1, <1>2
  <2>5. DOMAIN set(16) = IF <<"password", "min">> \in stated THEN {"minlength"} ELSE {}
    BY <1>1, <1>2
  <2>6. \A i \in 1..17 : "minlength" \in DOMAIN set(i) <=>
          \/ i = 16 /\ <<"password", "min">> \in stated
          \/ i = 11 /\ <<"minlength", "min">> \in stated
          \/ i = 9 /\ <<"length", "min">> \in stated /\ <<"length", "max">> \notin stated
    BY <2>1, <2>2, <2>3, <2>4, <2>5
  <2>7. \A i \in 1..17 : "maxlength" \in DOMAIN set(i) <=>
          \/ i = 12 /\ <<"maxlength", "max">> \in stated
          \/ i = 9 /\ <<"length", "max">> \in stated /\ <<"length", "min">> \notin stated
    BY <2>1, <2>2, <2>3, <2>4, <2>5
  <2>8. \A i \in 1..17 : "rangelength" \in DOMAIN set(i) <=>
          i = 9 /\ <<"length", "min">> \in stated /\ <<"length", "max">> \in stated
    BY <2>1, <2>2, <2>3, <2>4, <2>5
  <2>9. QED
    BY <2>6, <2>7, <2>8
<1>6. Lookup(rules, "minlength") =
        IF <<"password", "min">> \in stated THEN bound[<<"password", "min">>]
        ELSE IF <<"minlength", "min">> \in stated THEN bound[<<"minlength", "min">>]
        ELSE IF <<"length", "min">> \in stated /\ <<"length", "max">> \notin stated
             THEN bound[<<"length", "min">>] ELSE Undefined
  <2>1. CASE <<"password", "min">> \in stated
    <3>1. Lookup(rules, "minlength") = set(16)["minlength"]
      <4>1. "minlength" \in DOMAIN set(16) /\ \A i \in 1..17 : "minlength" \in DOMAIN set(i) => i <= 16
        BY <1>5, <2>1
      <4>2. QED
        BY <1>3, <4>1
    <3>2. QED
      BY <1>1, <2>1, <3>1
  <2>2. CASE <<"password", "min">> \notin stated /\ <<"minlength", "min">> \in stated
    <3>1. Lookup(rules, "minlength") = set(11)["minlength"]
      <4>1. "minlength" \in DOMAIN set(11) /\ \A i \in 1..17 : "minlength" \in DOMAIN set(i) => i <= 11
        BY <1>5, <2>2
      <4>2. QED
        BY <1>3, <4>1
    <3>2. QED
      BY <1>1, <2>2, <3>1
  <2>3. CASE /\ <<"password", "min">> \notin stated /\ <<"minlength", "min">> \notin stated
             /\ <<"length", "min">> \in stated /\ <<"length", "max">> \notin stated
    <3>1. Lookup(rules, "minlength") = set(9)["minlength"]
      <4>1. "minlength" \in DOMAIN set(9) /\ \A i \in 1..17 : "minlength" \in DOMAIN set(i) => i <= 9
        BY <1>5, <2>3
      <4>2. QED
        BY <1>3, <4>1
    <3>2. QED
      BY <1>1, <2>3, <3>1
  <2>4. CASE /\ <<"password", "min">> \notin stated /\ <<"minlength", "min">> \notin stated
             /\ ~(<<"length", "min">> \in stated /\ <<"length", "max">> \notin stated)
    <3>1. \A i \in 1..17 : "minlength" \notin DOMAIN set(i)
      BY <1>5, <2>4
    <3>2. Lookup(rules, "minlength") = Undefined
      BY <1>4, <3>1
    <3>3. QED
      BY <2>4, <3>2
  <2>5. QED
    BY <2>1, <2>2, <2>3, <2>4
<1>7. Lookup(rules, "maxlength") =
        IF <<"maxlength", "max">> \in stated THEN bound[<<"maxlength", "max">>]
        ELSE IF <<"length", "max">> \in stated /\ <<"length", "min">> \notin stated
             THEN bound[<<"length", "max">>] ELSE Undefined
  <2>1. CASE <<"maxlength", "max">> \in stated
    <3>1. Lookup(rules, "maxlength") = set(12)["maxlength"]
      <4>1. "maxlength" \in DOMAIN set(12) /\ \A i \in 1..17 : "maxlength" \in DOMAIN set(i) => i <= 12
        BY <1>5, <2>1
      <4>2. QED
        BY <1>3, <4>1
    <3>2. QED
      BY <1>1, <2>1, <3>1
  <2>2. CASE <<"maxlength", "max">> \notin stated /\ <<"length", "max">> \in stated /\ <<"length", "min">> \notin stated
    <3>1. Lookup(rules, "maxlength") = set(9)["maxlength"]
      <4>1. "maxlength" \in DOMAIN set(9) /\ \A i \in 1..17 : "maxlength" \in DOMAIN set(i) => i <= 9
        BY <1>5, <2>2
      <4>2. QED
        BY <1>3, <4>1
    <3>2. QED
      BY <1>1, <2>2, <3>1
  <2>3. CASE <<"maxlength", "max">> \notin stated /\ ~(<<"length", "max">> \in stated /\ <<"length", "min">> \notin stated)
    <3>1. \A i \in 1..17 : "maxlength" \notin DOMAIN set(i)
      BY <1>5, <2>3
    <3>2. Lookup(rules, "maxlength") = Undefined
      BY <1>4, <3>1
    <3>3. QED
      BY <2>3, <3>2
  <2>4. QED
    BY <2>1, <2>2, <2>3
<1>8. Lookup(rules, "rangelength") =
        IF <<"length", "min">> \in stated /\ <<"length", "max">> \in stated
        THEN <<bound[<<"length", "min">>], bound[<<"length", "max">>]>> ELSE Undefined
  <2>1. CASE <<"length", "min">> \in stated /\ <<"length", "max">> \in stated
    <3>1. Lookup(rules, "rangelength") = set(9)["rangelength"]
      <4>1. "rangelength" \in DOMAIN set(9) /\ \A i \in 1..17 : "rangelength" \in DOMAIN set(i) => i <= 9
        BY <1>5, <2>1
      <4>2. QED
        BY <1>3, <4>1
    <3>2. QED
      BY <1>1, <2>1, <3>1
  <2>2. CASE ~(<<"length", "min">> \in stated /\ <<"length", "max">> \in stated)
    <3>1. \A i \in 1..17 : "rangelength" \notin DOMAIN set(i)
      BY <1>5, <2>2
    <3>2. Lookup(rules, "rangelength") = Undefined
      BY <1>4, <3>1
    <3>3. QED
      BY <2>2, <3>2
  <2>3. QED
    BY <2>1, <2>2
<1>9. QED
  BY <1>6, <1>7, <1>8 DEF rules, stated

(* A set with at most one element has no two.                              *)
LEMMA OnlyOne ==
  ASSUME NEW S, IsFiniteSet(S), Cardinality(S) <= 1, NEW x \in S, NEW y \in S
  PROVE  x = y
<1> SUFFICES ASSUME x # y PROVE FALSE
  OBVIOUS
<1>1. IsFiniteSet({x}) /\ Cardinality({x}) = 1
  BY FS_Singleton
<1>2. IsFiniteSet({x} \union {y}) /\ Cardinality({x} \union {y}) = Cardinality({x}) + 1
  BY <1>1, FS_AddElement
<1>3. {x} \union {y} \subseteq S
  OBVIOUS
<1>4. Cardinality({x} \union {y}) <= Cardinality(S)
  BY <1>3, FS_Subset
<1>5. Cardinality(S) \in Nat
  BY FS_CardinalityType
<1>6. QED
  BY <1>1, <1>2, <1>4, <1>5

(* Each rule has one of the declared bounds; where they agree, one of them *)
(* is that of a rule.                                                      *)
LEMMA LengthsAgree == LengthRulesAgree
<1> SUFFICES ASSUME NEW names \in SUBSET BoundNames, NEW bound \in [BoundNames -> Bounds]
             PROVE  LengthAgrees(LengthElement(names, bound))
  BY DEF LengthRulesAgree, LengthElements, Bounds
<1> SUFFICES ASSUME NEW n \in 1..(MaxBound + 1)
             PROVE  LET rules   == ApplyAdapters(LengthElement(names, bound), <<>>, Adapters).rules
                        lower   == Declared(LengthElement(names, bound), LowerBoundNames)
                        upper   == Declared(LengthElement(names, bound), UpperBoundNames)
                        allowed == (\A b \in lower : n >= b) /\ (\A b \in upper : n <= b)
                    IN  /\ RefusesLength(rules, n) => ~allowed
                        /\ Cardinality(lower) <= 1 /\ Cardinality(upper) <= 1 =>
                             (RefusesLength(rules, n) <=> ~allowed)
  BY DEF LengthAgrees
<1> DEFINE input == LengthElement(names, bound)
           rules == ApplyAdapters(input, <<>>, Adapters).rules
           lower == Declared(input, LowerBoundNames)
           upper == Declared(input, UpperBoundNames)
           allowed == (\A b \in lower : n >= b) /\ (\A b \in upper : n <= b)
           lm == <<"length", "min">>
           lx == <<"length", "max">>
           mm == <<"minlength", "min">>
           xx == <<"maxlength", "max">>
           pm == <<"password", "min">>
           stated == Stated(names, bound)
<1>1. /\ Lookup(rules, "minlength") =
            IF pm \in stated THEN bound[pm] ELSE IF mm \in stated THEN bound[mm]
            ELSE IF lm \in stated /\ lx \notin stated THEN bound[lm] ELSE Undefined
      /\ Lookup(rules, "maxlength") =
            IF xx \in stated THEN bound[xx] ELSE IF lx \in stated /\ lm \notin stated THEN bound[lx] ELSE Undefined
      /\ Lookup(rules, "rangelength") =
            IF lm \in stated /\ lx \in stated THEN <<bound[lm], bound[lx]>> ELSE Undefined
  BY LengthRulesFrom
<1>2. \A k \in stated : /\ k \in BoundNames /\ bound[k] \in 0..MaxBound
                        /\ bound[k] \in Nat /\ bound[k] # Undefined
  <2>1. \A k \in stated : k \in BoundNames /\ bound[k] \in 0..MaxBound
    BY DEF Stated, Bounds
  <2>2. QED
    BY <2>1, AdapterConstants
<1>3. lower = {bound[k] : k \in stated \intersect {lm, mm, pm}} /\ upper = {bound[k] : k \in stated \intersect {lx, xx}}
  <2>1. \A k \in BoundNames : (k \in DOMAIN input.attrs <=> k \in names) /\ (k \in names => input.attrs[k] = bound[k])
    <3>1. \A k \in BoundNames : Len(k) = 2
      BY DEF BoundNames, LowerBoundNames, UpperBoundNames
    <3>2. \A c : Len(<<c>>) = 1
      OBVIOUS
    <3>3. /\ DOMAIN input.attrs = names \union {<<m[1]>> : m \in names}
          /\ \A k \in names \union {<<m[1]>> : m \in names} : Len(k) # 1 => input.attrs[k] = bound[k]
      BY DEF LengthElement
    <3> HIDE DEF input
    <3>4. \A k \in BoundNames : k \notin {<<m[1]>> : m \in names}
      BY <3>1, <3>2
    <3>5. QED
      BY <3>1, <3>3, <3>4
  <2>2. \A k \in {lm, mm, pm, lx, xx} : k \in BoundNames
    BY DEF BoundNames, LowerBoundNames, UpperBoundNames
  <2>3. LowerBoundNames = {lm, mm, pm} /\ UpperBoundNames = {lx, xx}
    BY DEF LowerBoundNames, UpperBoundNames
  <2>4. \A k \in BoundNames : k \in stated <=> k \in DOMAIN input.attrs /\ input.attrs[k] # Empty
    BY <2>1 DEF Stated
  <2> HIDE DEF lm, lx, mm, xx, pm, stated
  <2>5. QED
    BY <2>1, <2>2, <2>3, <2>4 DEF Declared
<1>4. {lm, lx, mm, xx, pm} \subseteq BoundNames
  BY DEF BoundNames, LowerBoundNames, UpperBoundNames
<1>5. n \in Nat \ {0}
  BY AdapterConstants
<1> HIDE DEF rules, lower, upper, lm, lx, mm, xx, pm, stated
<1>6. RefusesLength(rules, n) <=>
        \/ pm \in stated /\ n < bound[pm]
        \/ pm \notin stated /\ mm \in stated /\ n < bound[mm]
        \/ pm \notin stated /\ mm \notin stated /\ lm \in stated /\ lx \notin stated /\ n < bound[lm]
        \/ xx \in stated /\ n > bound[xx]
        \/ xx \notin stated /\ lx \in stated /\ lm \notin stated /\ n > bound[lx]
        \/ lm \in stated /\ lx \in stated /\ (n < bound[lm] \/ n > bound[lx])
  <2> DEFINE min == Lookup(rules, "minlength")
             max == Lookup(rules, "maxlength")
             range == Lookup(rules, "rangelength")
  <2>1. RefusesLength(rules, n) <=>
          \/ min # Undefined /\ n < min
          \/ max # Undefined /\ n > max
          \/ range # Undefined /\ (n < range[1] \/ n > range[2])
    BY <1>5 DEF RefusesLength
  <2> HIDE DEF min, max, range
  <2>2. min # Undefined /\ n < min <=>
          \/ pm \in stated /\ n < bound[pm]
          \/ pm \notin stated /\ mm \in stated /\ n < bound[mm]
          \/ pm \notin stated /\ mm \notin stated /\ lm \in stated /\ lx \notin stated /\ n < bound[lm]
    BY <1>1, <1>2, <1>4 DEF min
  <2>3. max # Undefined /\ n > max <=>
          \/ xx \in stated /\ n > bound[xx]
          \/ xx \notin stated /\ lx \in stated /\ lm \notin stated /\ n > bound[lx]
    BY <1>1, <1>2, <1>4 DEF max
  <2>4. range # Undefined /\ (n < range[1] \/ n > range[2]) <=>
          lm \in stated /\ lx \in stated /\ (n < bound[lm] \/ n > bound[lx])
    <3>1. lm \in stated /\ lx \in stated => <<bound[lm], bound[lx]>> # Undefined
      <4>1. lm \in stated /\ lx \in stated => <<bound[lm], bound[lx]>> \in Seq(Nat)
        BY <1>2
      <4>2. QED
        BY <4>1, AdapterConstants
    <3>2. QED
      BY <1>1, <3>1 DEF range
  <2>5. QED
    BY <2>1, <2>2, <2>3, <2>4
<1>7. RefusesLength(rules, n) => ~allowed
  <2>1. RefusesLength(rules, n) => \/ \E k \in stated \intersect {lm, mm, pm} : n < bound[k]
                                  \/ \E k \in stated \intersect {lx, xx} : n > bound[k]
    BY <1>6
  <2>2. \A k \in stated \intersect {lm, mm, pm} : bound[k] \in lower /\ ~(n < bound[k] /\ n >= bound[k])
    BY <1>2, <1>3, <1>5
  <2>3. \A k \in stated \intersect {lx, xx} : bound[k] \in upper /\ ~(n > bound[k] /\ n <= bound[k])
    BY <1>2, <1>3, <1>5
  <2>4. QED
    BY <2>1, <2>2, <2>3
<1>8. ASSUME Cardinality(lower) <= 1, Cardinality(upper) <= 1, ~allowed PROVE RefusesLength(rules, n)
  <2>1. IsFiniteSet(lower) /\ IsFiniteSet(upper)
    <3>1. lower \subseteq 0..MaxBound /\ upper \subseteq 0..MaxBound
      BY <1>2, <1>3
    <3>2. IsFiniteSet(0..MaxBound)
      BY FS_Interval, AdapterConstants
    <3>3. QED
      BY <3>1, <3>2, FS_Subset
  <2>2. \A k, l \in stated \intersect {lm, mm, pm} : bound[k] = bound[l]
    BY <1>3, <1>8, <2>1, OnlyOne
  <2>3. \A k, l \in stated \intersect {lx, xx} : bound[k] = bound[l]
    BY <1>3, <1>8, <2>1, OnlyOne
  <2>4. CASE \E k \in stated \intersect {lm, mm, pm} : n < bound[k]
    <3>1. PICK k \in stated \intersect {lm, mm, pm} : n < bound[k]
      BY <2>4
    <3>2. \A l \in stated \intersect {lm, mm, pm} : n < bound[l]
      BY <2>2, <3>1
    <3>3. QED
      BY <1>6, <3>1, <3>2
  <2>5. CASE \E k \in stated \intersect {lx, xx} : n > bound[k]
    <3>1. PICK k \in stated \intersect {lx, xx} : n > bound[k]
      BY <2>5
    <3>2. \A l \in stated \intersect {lx, xx} : n > bound[l]
      BY <2>3, <3>1
    <3>3. QED
      BY <1>6, <3>1, <3>2
  <2>6. QED
    BY <1>2, <1>3, <1>4, <1>5, <1>8, <2>4, <2>5
<1>9. QED
  BY <1>7, <1>8 DEF rules, lower, upper

(* A sequence with another last element.                                   *)
LEMMA AnotherLast ==
  ASSUME NEW S, NEW s \in Seq(S), s # <<>>, NEW e \in S
  PROVE  SubSeq(s, 1, Len(s) - 1) \o <<e>> = [s EXCEPT ![Len(s)] = e]
<1>1. PICK n \in Nat : Len(s) = n + 1
  <2>1. Len(s) \in Nat \ {0}
    BY EmptySeq
  <2>2. Len(s) - 1 \in Nat /\ Len(s) = (Len(s) - 1) + 1
    BY <2>1
  <2>3. QED
    BY <2>2
<1>2. \A i \in 1..(n + 1) : i \in 1..n \/ i = n + 1
  OBVIOUS
<1> DEFINE prefix == SubSeq(s, 1, n)
           joined == prefix \o <<e>>
           target == [s EXCEPT ![n + 1] = e]
<1>3. /\ prefix \in Seq(S) /\ Len(prefix) = n
      /\ \A i \in 1..n : prefix[i] = s[i]
  <2>1. \A i \in 1..n : s[i] \in S
    BY <1>1, ElementOfSeq
  <2>2. /\ prefix \in Seq(S) /\ Len(prefix) = IF 1 <= n THEN n - 1 + 1 ELSE 0
        /\ \A i \in 1..(n - 1 + 1) : prefix[i] = s[1 + i - 1]
    BY <2>1, SubSeqProperties
  <2> HIDE DEF prefix
  <2>3. QED
    BY <2>2
<1> HIDE DEF prefix
<1>4. /\ joined \in Seq(S) /\ Len(joined) = n + 1
      /\ \A i \in 1..n : joined[i] = s[i]
      /\ joined[n + 1] = e
  <2>1. <<e>> \in Seq(S) /\ Len(<<e>>) = 1 /\ <<e>>[1] = e
    OBVIOUS
  <2>2. /\ joined \in Seq(S) /\ Len(joined) = n + 1
        /\ \A i \in 1..(n + 1) : joined[i] = IF i <= n THEN prefix[i] ELSE <<e>>[i - n]
    BY <1>3, <2>1, ConcatProperties
  <2> HIDE DEF joined
  <2>3. \A i \in 1..n : joined[i] = s[i]
    BY <1>3, <2>2
  <2>4. n + 1 \in 1..(n + 1) /\ ~(n + 1 <= n) /\ (n + 1) - n = 1
    OBVIOUS
  <2>5. joined[n + 1] = e
    BY <2>1, <2>2, <2>4
  <2>6. QED
    BY <2>2, <2>3, <2>5
<1>5. /\ target \in Seq(S) /\ Len(target) = n + 1
      /\ \A i \in 1..n : target[i] = s[i]
      /\ target[n + 1] = e
  <2>1. n + 1 \in 1..Len(s)
    BY <1>1
  <2>2. /\ target \in Seq(S) /\ Len(target) = Len(s)
        /\ \A i \in 1..Len(s) : target[i] = IF i = n + 1 THEN e ELSE s[i]
    BY <2>1, ExceptSeq
  <2> HIDE DEF target
  <2>3. QED
    BY <1>1, <2>2
<1> HIDE DEF joined, target
<1>6. joined = target
  <2>1. \A i \in 1..(n + 1) : joined[i] = target[i]
    BY <1>2, <1>4, <1>5
  <2>2. QED
    BY <1>4, <1>5, <2>1, SeqEqual
<1>7. Len(s) - 1 = n
  BY <1>1
<1>8. QED
  BY <1>1, <1>6, <1>7 DEF prefix, joined, target

(* Sequences of two elements.                                              *)
LEMMA TailOfTwo ==
  ASSUME NEW a, NEW b
  PROVE  Len(<<a, b>>) = 2 /\ Head(<<a, b>>) = a /\ Tail(<<a, b>>) = <<b>>
  OBVIOUS

LEMMA TwoInSeq ==
  ASSUME NEW S, NEW a \in S, NEW b \in S
  PROVE  <<a, b>> \in Seq(S)
  OBVIOUS

(* The field of the same model with another last segment.                  *)
LEMMA RelativeTo ==
  ASSUME NEW name \in Seq(Segments), name # <<>>, NEW last \in Segments
  PROVE  appendModelPrefix(<<"*", last>>, getModelPrefix(name)) = [name EXCEPT ![Len(name)] = last]
<1> DEFINE prefix == SubSeq(name, 1, Len(name) - 1)
<1>1. Len(<<"*", last>>) = 2 /\ Head(<<"*", last>>) = "*" /\ Tail(<<"*", last>>) = <<last>>
  BY TailOfTwo, Zenon
<1>2. appendModelPrefix(<<"*", last>>, prefix) = prefix \o <<last>>
  BY <1>1 DEF appendModelPrefix
<1>3. getModelPrefix(name) = prefix
  BY DEF getModelPrefix, Front
<1>4. prefix \o <<last>> = [name EXCEPT ![Len(name)] = last]
  BY AnotherLast
<1>5. QED
  BY <1>2, <1>3, <1>4

(* equalto and remote look in the element's own model.                     *)
LEMMA NamesStayInModel ==
  ASSUME NEW name \in ToSet(InputNames), NEW other \in ToSet(InputNames)
  PROVE  RelativeNamesStayInModel(name, Last(other))
<1> DEFINE last    == Last(other)
           input == RelativeElement(name, last)
           target  == [name EXCEPT ![Len(name)] = last]
           set(i)  == Visit(input, InputNames, Adapters[i])
           rules   == ApplyAdapters(input, InputNames, Adapters).rules
<1>1. /\ name \in Seq(Segments) /\ name # <<>> /\ other \in Seq(Segments) /\ other # <<>>
      /\ name[1] # "*"
  BY AdapterConstants DEF ToSet
<1>2. last \in Segments
  BY <1>1 DEF Last
<1>3. appendModelPrefix(<<"*", last>>, getModelPrefix(name)) = target
  BY <1>1, <1>2, RelativeTo
<1>4. appendModelPrefix(name, getModelPrefix(name)) = name
  BY <1>1 DEF appendModelPrefix
<1> HIDE DEF last, target
<1>5. /\ input.name = name
      /\ DOMAIN input.attrs = {<<"equalto">>, <<"equalto", "other">>, <<"remote">>, <<"remote", "url">>,
                                 <<"remote", "additionalfields">>}
      /\ input.attrs[<<"equalto", "other">>] = <<"*", last>>
      /\ input.attrs[<<"remote", "url">>] = "url"
      /\ input.attrs[<<"remote", "additionalfields">>] = <<<<"*", last>>, name>>
  BY DEF RelativeElement
<1> HIDE DEF input
<1>6. set(13) = [key \in {"equalTo"} |-> FindInput(InputNames, target)]
  <2> DEFINE params  == [p \in ToSet(Adapters[13].params) |-> Lookup(input.attrs, <<"equalto", p>>)]
             given == [element |-> input, form |-> InputNames, params |-> params]
  <2>1. Adapters[13].name = "equalto" /\ Adapters[13].adapt = "equalto" /\ Adapters[13].params = <<"other">>
    BY AdapterTable
  <2>2. <<"equalto">> \in DOMAIN input.attrs
    BY <1>5
  <2>3. set(13) = adaptEqualTo(given)
    BY <2>1, <2>2 DEF Visit, Adapt
  <2>4. params["other"] = <<"*", last>>
    <3>1. ToSet(<<"other">>) = {"other"}
      BY DEF ToSet
    <3>2. Lookup(input.attrs, <<"equalto", "other">>) = <<"*", last>>
      BY <1>5 DEF Lookup
    <3>3. QED
      BY <2>1, <3>1, <3>2
  <2> HIDE DEF params
  <2>5. QED
    BY <1>3, <1>5, <2>3, <2>4 DEF adaptEqualTo, setValidationValues
<1>7. DOMAIN set(15) = {"remote"} /\ set(15)["remote"].data = {target, name}
  <2> DEFINE params  == [p \in ToSet(Adapters[15].params) |-> Lookup(input.attrs, <<"remote", p>>)]
             given == [element |-> input, form |-> InputNames, params |-> params]
             fields  == <<<<"*", last>>, name>>
  <2>1. /\ Adapters[15].name = "remote" /\ Adapters[15].adapt = "remote"
        /\ Adapters[15].params = <<"url", "type", "additionalfields">>
    BY AdapterTable
  <2>2. <<"remote">> \in DOMAIN input.attrs
    BY <1>5
  <2>3. set(15) = adaptRemote(given)
    BY <2>1, <2>2 DEF Visit, Adapt
  <2>4. Lookup(params, "additionalfields") = fields /\ params["additionalfields"] = fields
    <3>1. "additionalfields" \in ToSet(Adapters[15].params)
      BY <2>1 DEF ToSet
    <3>2. Lookup(input.attrs, <<"remote", "additionalfields">>) = fields
      BY <1>5 DEF Lookup
    <3>3. params["additionalfields"] = fields /\ "additionalfields" \in DOMAIN params
      BY <3>1, <3>2
    <3>4. QED
      BY <3>3 DEF Lookup
  <2>5. Truthy(fields)
    <3>1. fields \in Seq(Seq(Segments))
      <4>1. "*" \in Segments
        BY AdapterConstants
      <4>2. <<"*", last>> \in Seq(Segments)
        BY <1>2, <4>1, TwoInSeq, Zenon
      <4>3. name \in Seq(Segments)
        BY <1>1
      <4>4. QED
        BY <4>2, <4>3, TwoInSeq, Zenon
    <3>2. QED
      BY <3>1, AdapterConstants DEF Truthy
  <2>6. {appendModelPrefix(fields[i], getModelPrefix(name)) : i \in DOMAIN fields} = {target, name}
    <3>1. DOMAIN fields = {1, 2} /\ fields[1] = <<"*", last>> /\ fields[2] = name
      OBVIOUS
    <3> HIDE DEF fields
    <3>2. QED
      BY <1>3, <1>4, <3>1
  <2> HIDE DEF params, fields
  <2>7. /\ DOMAIN adaptRemote(given) = {"remote"}
        /\ adaptRemote(given)["remote"].data =
             {appendModelPrefix(fields[i], getModelPrefix(name)) : i \in DOMAIN fields}
    BY <1>5, <2>4, <2>5 DEF adaptRemote, setValidationValues
  <2>8. QED
    BY <2>3, <2>6, <2>7
<1>8. \A i \in 1..17 \ {13, 15} : set(i) = NoKeys
  <2>1. ASSUME NEW i \in 1..17 \ {13, 15} PROVE <<Adapters[i].name>> \notin DOMAIN input.attrs
    <3>1. Adapters[i].name \notin {"equalto", "remote"}
      BY AdapterTable
    <3>2. \A a : <<a>> # <<"equalto", "other">> /\ <<a>> # <<"remote", "url">> /\ <<a>> # <<"remote", "additionalfields">>
      <4>1. \A a, b, c : Len(<<a>>) = 1 /\ Len(<<b, c>>) = 2
        OBVIOUS
      <4>2. QED
        BY <4>1
    <3>3. \A a, b : <<a>> = <<b>> => a = b
      OBVIOUS
    <3>4. QED
      BY <1>5, <3>1, <3>2, <3>3
  <2>2. QED
    BY <2>1 DEF Visit
<1>9. DOMAIN NoKeys = {}
  BY DEF NoKeys
<1>10. rules["equalTo"] = FindInput(InputNames, target)
  <2>1. LastSetter(input, InputNames, "equalTo", 13)
    BY <1>6, <1>7, <1>8, <1>9 DEF LastSetter
  <2>2. rules["equalTo"] = set(13)["equalTo"]
    BY <2>1, RuleOf
  <2>3. QED
    BY <1>6, <2>2
<1>11. rules["remote"].data = {target, name}
  <2>1. LastSetter(input, InputNames, "remote", 15)
    BY <1>6, <1>7, <1>8, <1>9 DEF LastSetter
  <2>2. rules["remote"] = set(15)["remote"]
    BY <2>1, RuleOf
  <2>3. QED
    BY <1>7, <2>2
<1>12. IF target \in ToSet(InputNames) THEN InputNames[FindInput(InputNames, target)] = target
       ELSE FindInput(InputNames, target) = Undefined
  <2> DEFINE found == {i \in DOMAIN InputNames : InputNames[i] = target}
  <2>1. FindInput(InputNames, target) = IF found = {} THEN Undefined ELSE Min(found)
    BY DEF FindInput
  <2>2. found # {} <=> target \in ToSet(InputNames)
    BY DEF ToSet
  <2>3. found \in SUBSET Nat
    BY AdapterConstants
  <2> HIDE DEF found
  <2>4. found # {} => Min(found) \in found
    BY <2>3, MinOf
  <2>5. QED
    BY <2>1, <2>2, <2>4 DEF found
<1>13. QED
  BY <1>10, <1>11, <1>12 DEF RelativeNamesStayInModel, input, target, last

(* Of the inputs of a group, the remote rule reads the one that a post     *)
(* of the form would send.                                                 *)
LEMMA GroupRead ==
  ASSUME NEW g \in ShownGroups
  PROVE  RemoteSendsWhatTheFormSends(g)
<1> DEFINE All     == DOMAIN g
           checked == {i \in All : g[i].checked}
           hidden  == {i \in All : IsHidden(g[i])}
           posted  == {i \in All : g[i].checked \/ g[i].type \in {"hidden", "text"}}
           boxes   == \E i \in All : g[i].type = "checkbox"
           radios  == \E i \in All : g[i].type = "radio"
<1>1. PICK k \in 1..MaxGroup : g \in [1..k -> Inputs]
  BY DEF ShownGroups, FieldGroups
<1>2. k \in Nat \ {0} /\ All = 1..k /\ Len(g) = k /\ All # {}
  <2>1. k \in Nat \ {0} /\ 1..k # {}
    <3>1. MaxGroup \in Nat /\ k \in 1..MaxGroup
      BY AdapterConstants
    <3>2. QED
      BY <3>1
  <2>2. All = 1..k
    BY <1>1
  <2>3. g \in Seq(Inputs)
    BY <1>1, <2>1
  <2>4. Len(g) = k
    BY <2>1, <2>2, <2>3
  <2>5. QED
    BY <2>1, <2>2, <2>4
<1>3. \A i \in All :
        /\ g[i].type \in {"checkbox", "radio", "hidden", "text"}
        /\ g[i].value \in InputValues \union {Empty}
        /\ g[i].type \notin {"checkbox", "radio"} => ~g[i].checked
        /\ g[i].type = "checkbox" => g[i].value # Empty /\ ~IsHidden(g[i])
        /\ g[i].type = "hidden" => IsHidden(g[i])
  BY <1>1, <1>2 DEF ShownGroups, FieldGroups, Inputs, IsHidden
<1>4. \/ k = 1
      \/ \A i \in All : g[i].type = "radio"
      \/ /\ \A i \in 1..(k - 1) : g[i].type = "checkbox"
         /\ g[k].type \in {"checkbox", "hidden"}
  BY <1>2 DEF ShownGroups, FieldGroups
<1>5. /\ checked \subseteq All /\ hidden \subseteq All /\ posted \subseteq All
      /\ All \subseteq Nat
  BY <1>2
<1>6. \A v \in InputValues : Truthy(v)
  BY AdapterConstants DEF Truthy
<1>7. ~Truthy(Undefined) /\ ~Truthy(Empty)
  BY DEF Truthy
<1>8. \A i \in All : Truthy(g[i].value) \/ g[i].value = Empty
  BY <1>3, <1>6
<1>9. RemoteData(g) =
        CASE boxes /\ Truthy(FirstValue(g, checked))  -> FirstValue(g, checked)
          [] boxes /\ ~Truthy(FirstValue(g, checked)) ->
               IF Truthy(FirstValue(g, hidden)) THEN FirstValue(g, hidden) ELSE Empty
          [] ~boxes /\ radios -> IF Truthy(FirstValue(g, checked)) THEN FirstValue(g, checked) ELSE Empty
          [] OTHER -> FirstValue(g, All)
  BY DEF RemoteData
<1> HIDE DEF checked, hidden, posted, boxes, radios, All
<1>10. CASE boxes /\ checked # {}
  <2>1. \A i \in checked : g[i].type \in {"checkbox"}
    BY <1>2, <1>3, <1>4, <1>10 DEF boxes, checked, All
  <2>2. Min(checked) \in checked /\ \A i \in checked : Min(checked) <= i
    BY <1>5, <1>10, MinOf
  <2>3. \A i \in posted : Min(checked) <= i
    BY <1>2, <1>3, <1>4, <1>10, <2>1, <2>2 DEF boxes, checked, All, posted
  <2>4. Min(posted) = Min(checked)
    <3>1. posted # {} /\ Min(checked) \in posted
      BY <2>2 DEF checked, posted
    <3>2. Min(posted) \in posted /\ \A i \in posted : Min(posted) <= i
      BY <1>5, <3>1, MinOf
    <3>3. Min(posted) <= Min(checked) /\ Min(checked) <= Min(posted)
      BY <2>3, <3>1, <3>2
    <3>4. Min(posted) \in Nat /\ Min(checked) \in Nat
      BY <1>5, <2>2, <3>2
    <3>5. QED
      BY <3>3, <3>4
  <2>5. FirstValue(g, checked) = g[Min(checked)].value /\ FirstValue(g, posted) = g[Min(checked)].value
    BY <1>10, <2>2, <2>4 DEF FirstValue, checked, posted
  <2>6. Truthy(g[Min(checked)].value)
    BY <1>3, <1>6, <1>8, <2>1, <2>2 DEF checked
  <2>7. RemoteData(g) = g[Min(checked)].value
    BY <1>9, <1>10, <2>5, <2>6
  <2>8. posted # {}
    BY <2>2 DEF checked, posted
  <2>9. QED
    BY <2>5, <2>7, <2>8 DEF RemoteSendsWhatTheFormSends, posted, All
<1>11. CASE boxes /\ checked = {}
  <2>1. posted = hidden
    BY <1>2, <1>3, <1>4, <1>11 DEF boxes, checked, All, posted, hidden
  <2>2. RemoteData(g) = IF Truthy(FirstValue(g, hidden)) THEN FirstValue(g, hidden) ELSE Empty
    BY <1>7, <1>9, <1>11 DEF FirstValue
  <2>3. CASE hidden = {}
    BY <1>7, <2>1, <2>2, <2>3 DEF RemoteSendsWhatTheFormSends, posted, All, FirstValue
  <2>4. CASE hidden # {}
    <3>1. Min(hidden) \in All
      BY <1>5, <2>4, MinOf
    <3>2. Truthy(FirstValue(g, hidden)) \/ FirstValue(g, hidden) = Empty
      BY <1>8, <2>4, <3>1 DEF FirstValue
    <3>3. QED
      BY <2>1, <2>2, <2>4, <3>2 DEF RemoteSendsWhatTheFormSends, posted, All
  <2>5. QED
    BY <2>3, <2>4
<1>12. CASE ~boxes /\ radios
  <2>1. posted = checked
    BY <1>2, <1>3, <1>4, <1>12 DEF boxes, radios, checked, All, posted
  <2>2. RemoteData(g) = IF Truthy(FirstValue(g, checked)) THEN FirstValue(g, checked) ELSE Empty
    BY <1>9, <1>12
  <2>3. CASE checked = {}
    BY <1>7, <2>1, <2>2, <2>3 DEF RemoteSendsWhatTheFormSends, posted, All, FirstValue
  <2>4. CASE checked # {}
    <3>1. Min(checked) \in All
      BY <1>5, <2>4, MinOf
    <3>2. Truthy(FirstValue(g, checked)) \/ FirstValue(g, checked) = Empty
      BY <1>8, <2>4, <3>1 DEF FirstValue
    <3>3. QED
      BY <2>1, <2>2, <2>4, <3>2 DEF RemoteSendsWhatTheFormSends, posted, All
  <2>5. QED
    BY <2>3, <2>4
<1>13. CASE ~boxes /\ ~radios
  <2>1. posted = All
    BY <1>2, <1>3, <1>4, <1>13 DEF boxes, radios, All, posted
  <2>2. RemoteData(g) = FirstValue(g, All)
    BY <1>9, <1>13
  <2>3. QED
    BY <1>2, <2>1, <2>2 DEF RemoteSendsWhatTheFormSends, posted, All
<1>14. QED
  BY <1>10, <1>11, <1>12, <1>13

(* Whatever bounds on its length an element declares, its rules refuse no   *)
(* length that all of them allow and, unless two adapters disagree about a  *)
(* bound, every other length.                                              *)
THEOREM RulesFollowMarkup == Spec => []RulesAgreeWithMarkup
<1>1. RulesAgreeWithMarkup
  BY LengthsAgree DEF RulesAgreeWithMarkup
<1>2. QED
  BY <1>1, PTL

(* In a form of any inputs, nested in models to any depth, a relative name  *)
(* refers to the field of the element's own model; and of a group of any   *)
(* number of inputs, whose check boxes are displayed, the remote rule sends *)
(* what a post would.                                                      *)
THEOREM ReferencesHold == Spec => []RulesReadTheRightFields
<1>1. ReferencesAreRight
  BY NamesStayInModel, GroupRead DEF ReferencesAreRight
<1>2. RulesReadTheRightFields
  BY <1>1 DEF RulesReadTheRightFields
<1>3. QED
  BY <1>2, PTL
=============================================================================
