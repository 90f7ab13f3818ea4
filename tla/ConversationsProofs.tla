-------------------------- MODULE ConversationsProofs --------------------------
(***************************************************************************)
(* What Conversations promises, for any number of handlers at a time, any  *)
(* number of subjects and any number of updates.                           *)
(*                                                                         *)
(* Every step of every family does one of four things to what the promises *)
(* are about: it gives the context a subject (Asks), takes a subject from  *)
(* the context and clears it (Takes), applies an answer (Acts), or none of *)
(* these (Calm).  That is shown action by action; that the four keep the   *)
(* invariants is then shown once.                                          *)
(***************************************************************************)
EXTENDS Conversations, FiniteSetTheorems, TLAPS

\* What data and handlers may hold.
Values == Subjects \cup {Given, "legacy", "v3"}
IsHandler(r) == r \in [at : {r.at}, step : {r.step}, about : Values]
AreHandlers(f) == f = [s \in Slots |-> f[s]] /\ \A s \in Slots : IsHandler(f[s])

Typed == /\ data \in [DOMAIN data -> Values]
         /\ AreHandlers(running)
         /\ asked \in [Subjects -> Nat]
         /\ acted \in [Subjects -> Nat]

\* The keys under which a handler finds the subject it takes from the context.
TakenKeys == {"edit", "client_manage", "bulk_panel", "create_target", "panel_name",
              "client_email", "finance_wallet_target", "finance_pricing_target"}

\* The keys that the invariants are about.
KeptKeys == TakenKeys \cup {"delegated_panel_price", "finex_delegate"}

\* An answer for t is still possible: it is in the context, or handlers left with it.
Held(t) == \E k \in TakenKeys : k \in DOMAIN data /\ data[k] = t
Acting(t) == {s \in Slots : running[s].step = "acting" /\ running[s].about = t}

\* Every answer applied, under way or still in the context was asked for by itself.
Accounted ==
    \A t \in Subjects : acted[t] + Cardinality(Acting(t)) + (IF Held(t) THEN 1 ELSE 0) <= asked[t]

\* The families with questions that are answered once.
AskingFamilies == {"edit", "manage", "panelwide", "limits", "finex"}
OnlyThere == waiting \in DOMAIN SubjectKey => family \in AskingFamilies

\* In "access" the ticks and whose they are are stored together.
TicksOfTarget ==
    family = "access" /\ "access_target" \in DOMAIN data =>
        "access_ticks" \in DOMAIN data /\ data["access_ticks"] = data["access_target"]

ConversationsInv == /\ Typed
                    /\ Accounted
                    /\ OnlyThere
                    /\ QuestionHasItsSubject
                    /\ TicksOfTarget
                    /\ SavedForItsTarget
-------------------------------------------------------------------------------
LEMMA Stored ==
  ASSUME NEW k, NEW v, NEW d
  PROVE  /\ DOMAIN With(k, v, d) = {k} \cup DOMAIN d
         /\ With(k, v, d)[k] = v
         /\ \A x \in DOMAIN d : x # k => With(k, v, d)[x] = d[x]
         /\ d \in [DOMAIN d -> Values] /\ v \in Values =>
               With(k, v, d) \in [DOMAIN With(k, v, d) -> Values]
  BY DEF With

\* The open questions, and where their subjects are.
LEMMA Questions ==
  /\ DOMAIN SubjectKey = EditQuestions \cup ManageQuestions \cup BulkQuestions
                         \cup {"waiting_panel_pricing_field", "waiting_finex_remain_bulk_tokens"}
  /\ \A q \in EditQuestions : SubjectKey[q] = "edit"
  /\ \A q \in ManageQuestions : SubjectKey[q] = "client_manage"
  /\ \A q \in BulkQuestions : SubjectKey[q] = "bulk_panel"
  /\ SubjectKey["waiting_panel_pricing_field"] = "delegated_panel_price"
  /\ SubjectKey["waiting_finex_remain_bulk_tokens"] = "finex_delegate"
  /\ \A q \in DOMAIN SubjectKey : SubjectKey[q] \in KeptKeys
  /\ "none" \notin DOMAIN SubjectKey
<1> DEFINE Others == {"waiting_panel_pricing_field", "waiting_finex_remain_bulk_tokens"}
<1>1. DOMAIN SubjectKey = EditQuestions \cup ManageQuestions \cup BulkQuestions \cup Others
  BY DEF SubjectKey
<1>2. \A q \in EditQuestions : SubjectKey[q] = "edit"
  BY DEF SubjectKey
<1>3. \A q \in ManageQuestions : SubjectKey[q] = "client_manage"
  BY DEF SubjectKey, ManageQuestions, EditQuestions
<1>4. \A q \in BulkQuestions : SubjectKey[q] = "bulk_panel"
  BY DEF SubjectKey, BulkQuestions, ManageQuestions, EditQuestions
<1>5. SubjectKey["waiting_panel_pricing_field"] = "delegated_panel_price"
  BY DEF SubjectKey, BulkQuestions, ManageQuestions, EditQuestions
<1>6. SubjectKey["waiting_finex_remain_bulk_tokens"] = "finex_delegate"
  BY DEF SubjectKey, BulkQuestions, ManageQuestions, EditQuestions
<1>7. \A q \in DOMAIN SubjectKey : SubjectKey[q] \in KeptKeys
  BY <1>1, <1>2, <1>3, <1>4, <1>5, <1>6 DEF KeptKeys, TakenKeys
<1>8. "none" \notin DOMAIN SubjectKey
  BY <1>1 DEF BulkQuestions, ManageQuestions, EditQuestions
<1> QED
  BY <1>1, <1>2, <1>3, <1>4, <1>5, <1>6, <1>7, <1>8
-------------------------------------------------------------------------------
\* What a step does to the handlers, the data and the question, when it does nothing that the
\* promises are about.
HandlersCalm == /\ AreHandlers(running')
                /\ \A t \in Subjects : Acting(t)' \subseteq Acting(t)
DataTyped == data' \in [DOMAIN data' -> Values]
NothingGiven == \A k \in KeptKeys : k \in DOMAIN data' => k \in DOMAIN data /\ data'[k] = data[k]
SameQuestion == /\ waiting' = waiting
                /\ \A k \in KeptKeys : k \in DOMAIN data => k \in DOMAIN data' /\ data'[k] = data[k]

Calm == /\ UNCHANGED <<family, asked, acted, last>>
        /\ HandlersCalm
        /\ DataTyped
        /\ NothingGiven
        /\ waiting' \notin DOMAIN SubjectKey \/ SameQuestion

\* The context is given t under k; an open question that is answered once is about it.
Asks(k, t) ==
    /\ t \in Subjects
    /\ UNCHANGED <<family, acted>>
    /\ asked' = [asked EXCEPT ![t] = @ + 1]
    /\ last' = t
    /\ HandlersCalm
    /\ DataTyped
    /\ k \in DOMAIN data' /\ data'[k] = t
    /\ \A x \in KeptKeys \ {k} : x \in DOMAIN data' => x \in DOMAIN data /\ data'[x] = data[x]
    /\ waiting' \in DOMAIN SubjectKey =>
          \/ SubjectKey[waiting'] = k /\ family \in AskingFamilies
          \/ waiting' = waiting /\ family \notin AskingFamilies

\* A handler leaves with the subject that is under k, and the context is cleared.
Takes(s, k) ==
    /\ s \in Slots /\ k \in TakenKeys /\ k \in DOMAIN data
    /\ UNCHANGED <<family, asked, acted, last>>
    /\ Clear
    /\ running[s].step = "begun"
    /\ running' = [running EXCEPT ![s].step = "acting", ![s].about = data[k]]

\* An answer is applied.
Acts(s) ==
    /\ s \in Slots
    /\ running[s].step = "acting"
    /\ running' = [running EXCEPT ![s] = Free]
    /\ acted' = [acted EXCEPT ![running[s].about] = @ + 1]
    /\ UNCHANGED <<family, context, asked, last>>

\* A step of any kind.
Known == \/ Calm
         \/ \E k : \E t \in Subjects : Asks(k, t)
         \/ \E s \in Slots, k \in TakenKeys : Takes(s, k)
         \/ \E s \in Slots : Acts(s)
-------------------------------------------------------------------------------
LEMMA OneMoves ==
  ASSUME NEW s \in Slots, NEW r, IsHandler(r), AreHandlers(running),
         running' = [running EXCEPT ![s] = r]
  PROVE  /\ AreHandlers(running')
         /\ running'[s] = r
         /\ \A u \in Slots \ {s} : running'[u] = running[u]
  BY DEF AreHandlers

LEMMA Moves ==
  ASSUME NEW s \in Slots, NEW step, NEW t \in Values, AreHandlers(running), Goes(s, step, t)
  PROVE  /\ AreHandlers(running')
         /\ running'[s].step = step /\ running'[s].about = t
         /\ \A u \in Slots \ {s} : running'[u] = running[u]
<1>1. PICK q : q = [running[s] EXCEPT !.step = step, !.about = t]
  OBVIOUS
<1>2. running' = [running EXCEPT ![s] = q]
  BY <1>1 DEF Goes
<1>3. PICK r : r = running[s]
  OBVIOUS
<1>4. IsHandler(r)
  BY <1>3 DEF AreHandlers
<1>5. PICK A, B : A = {r.at} /\ B = {r.step, step}
  OBVIOUS
<1>6. r \in [at : A, step : B, about : Values] /\ step \in B
  BY <1>4, <1>5 DEF IsHandler
<1>7. q \in [at : A, step : B, about : Values] /\ q.step = step /\ q.about = t
  BY <1>1, <1>3, <1>6
<1>8. IsHandler(q)
  BY <1>5, <1>7 DEF IsHandler
<1> QED
  BY <1>2, <1>7, <1>8, OneMoves

LEMMA NewHandler ==
  ASSUME NEW h, NEW step, NEW t \in Values
  PROVE  /\ IsHandler([at |-> h, step |-> step, about |-> t])
         /\ [at |-> h, step |-> step, about |-> t].step = step
  BY DEF IsHandler

LEMMA FreeHandler == IsHandler(Free) /\ Free.step = "free"
  BY NewHandler DEF Free, Values

\* Handlers that come, go on or leave without taking a subject.
LEMMA HandlersStayCalm ==
  ASSUME Typed, NEW s \in Slots, NEW h, NEW step, NEW t \in Values
  PROVE  /\ UNCHANGED running => HandlersCalm
         /\ Begin(s, h, t) => HandlersCalm
         /\ Ends(s) => HandlersCalm
         /\ step # "acting" /\ Goes(s, step, t) => HandlersCalm
<1> USE DEF Typed, HandlersCalm, Acting
<1>1. UNCHANGED running => HandlersCalm
  OBVIOUS
<1>2. ASSUME Begin(s, h, t) PROVE HandlersCalm
  <2> DEFINE r == [at |-> h, step |-> "begun", about |-> t]
  <2>1. IsHandler(r) /\ r.step = "begun"
    BY NewHandler
  <2>2. running' = [running EXCEPT ![s] = r]
    BY <1>2 DEF Begin
  <2> HIDE DEF r
  <2> QED
    BY <2>1, <2>2, OneMoves
<1>3. ASSUME Ends(s) PROVE HandlersCalm
  <2>1. running' = [running EXCEPT ![s] = Free]
    BY <1>3 DEF Ends
  <2> QED
    BY <2>1, FreeHandler, OneMoves
<1>4. ASSUME step # "acting", Goes(s, step, t) PROVE HandlersCalm
  BY <1>4, Moves
<1> QED
  BY <1>1, <1>2, <1>3, <1>4
-------------------------------------------------------------------------------
\* The context left alone, cleared, or given something else.
LEMMA ContextStays ==
  ASSUME Typed, UNCHANGED context
  PROVE  DataTyped /\ NothingGiven /\ SameQuestion
  BY DEF Typed, context, DataTyped, NothingGiven, SameQuestion

LEMMA ContextCleared ==
  ASSUME Clear
  PROVE  DataTyped /\ NothingGiven /\ waiting' \notin DOMAIN SubjectKey
<1>1. data' = Empty /\ DOMAIN data' = {}
  BY DEF Clear, Empty
<1>2. DataTyped
  BY <1>1 DEF DataTyped, Empty
<1> QED
  BY <1>1, <1>2, Questions DEF Clear, NothingGiven

LEMMA OtherStored ==
  ASSUME Typed, NEW k, NEW v \in Values, k \notin KeptKeys, Store(k, v)
  PROVE  /\ DataTyped /\ NothingGiven
         /\ \A x \in KeptKeys : x \in DOMAIN data => x \in DOMAIN data' /\ data'[x] = data[x]
<1>1. data' = With(k, v, data) /\ data \in [DOMAIN data -> Values]
  BY DEF Store, Typed
<1>2. DataTyped
  BY <1>1, Stored DEF DataTyped
<1>3. \A x \in KeptKeys : x # k
  OBVIOUS
<1>4. DOMAIN data' = {k} \cup DOMAIN data
  BY <1>1, Stored
<1>5. \A x \in DOMAIN data : x # k => data'[x] = data[x]
  BY <1>1 DEF With
<1> QED
  BY <1>2, <1>3, <1>4, <1>5 DEF NothingGiven
LEMMA OthersStored ==
  ASSUME Typed, NEW k, NEW v \in Values, NEW l, NEW w \in Values, k \notin KeptKeys, l \notin KeptKeys,
         data' = With(k, v, With(l, w, data))
  PROVE  /\ DataTyped /\ NothingGiven
         /\ \A x \in KeptKeys : x \in DOMAIN data => x \in DOMAIN data' /\ data'[x] = data[x]
<1>1. PICK d : d = With(l, w, data)
  OBVIOUS
<1>2. d \in [DOMAIN d -> Values] /\ DOMAIN d = {l} \cup DOMAIN data
  BY <1>1, Stored DEF Typed
<1>3. \A x \in DOMAIN data : x # l => d[x] = data[x]
  BY <1>1 DEF With
<1>4. data' = With(k, v, d)
  BY <1>1
<1>5. DataTyped /\ DOMAIN data' = {k} \cup DOMAIN d
  <2>1. PICK e : e = With(k, v, d)
    OBVIOUS
  <2>2. DOMAIN e = {k} \cup DOMAIN d
    BY <2>1 DEF With
  <2>3. e \in [DOMAIN e -> Values]
    BY <1>2, <2>1 DEF With
  <2> QED
    BY <1>4, <2>1, <2>2, <2>3 DEF DataTyped
<1>6. \A x \in DOMAIN d : x # k => data'[x] = d[x]
  BY <1>4 DEF With
<1>7. \A x \in KeptKeys : x # k /\ x # l
  OBVIOUS
<1> QED
  BY <1>2, <1>3, <1>5, <1>6, <1>7 DEF NothingGiven
-------------------------------------------------------------------------------
\* The steps that handlers are made of: those that give and take nothing.
LEMMA HandlersLeftAlone == ASSUME Typed, UNCHANGED running PROVE HandlersCalm
  BY DEF Typed, HandlersCalm, Acting

LEMMA CancelIsCalm == ASSUME Typed, Cancel PROVE Calm
  BY HandlersLeftAlone, ContextCleared DEF Cancel, Update, Silent, Calm

LEMMA CalmArrivals ==
  ASSUME Typed, NEW s \in Slots, NEW h, NEW p, NEW t \in Values
  PROVE  /\ Answer(s) => Calm
         /\ AnswerWithLabel(s) => Calm
         /\ LabelClears(s) => Calm
         /\ Label(s, h) => Calm
         /\ Press(s, h, t) => Calm
         /\ PressIn(s, p, h, t) => Calm
<1> USE DEF Update, Silent
<1>0. Given \in Values
  BY DEF Values
<1>1. ASSUME Answer(s) PROVE Calm
  <2>1. HandlersCalm
    BY <1>0, <1>1, HandlersStayCalm DEF Answer
  <2>2. UNCHANGED context
    BY <1>1 DEF Answer
  <2> QED
    BY <1>1, <2>1, <2>2, ContextStays DEF Answer, Calm
<1>2. ASSUME AnswerWithLabel(s) PROVE Calm
  <2>1. PICK r : r = [at |-> waiting, step |-> "labelled", about |-> Given]
    OBVIOUS
  <2>2. IsHandler(r) /\ r.step = "labelled" /\ running' = [running EXCEPT ![s] = r]
    BY <1>0, <1>2, <2>1, NewHandler DEF AnswerWithLabel
  <2>3. HandlersCalm
    BY <2>2, OneMoves DEF HandlersCalm, Acting, Typed
  <2> QED
    BY <1>2, <2>3, ContextStays DEF AnswerWithLabel, Calm
<1>3. ASSUME Label(s, h) PROVE Calm
  BY <1>0, <1>3, HandlersStayCalm, ContextCleared DEF Label, Calm
<1>4. ASSUME Press(s, h, t) PROVE Calm
  <2>1. HandlersCalm
    BY <1>4, HandlersStayCalm DEF Press
  <2>2. UNCHANGED context
    BY <1>4 DEF Press
  <2> QED
    BY <1>4, <2>1, <2>2, ContextStays DEF Press, Calm
<1>5. ASSUME PressIn(s, p, h, t) PROVE Calm
  BY <1>4, <1>5 DEF PressIn
<1>6. ASSUME LabelClears(s) PROVE Calm
  <2>1. HandlersCalm
    BY <1>0, <1>6, HandlersStayCalm DEF LabelClears
  <2> QED
    BY <1>6, <2>1, ContextCleared DEF LabelClears, Later, Calm
<1> QED
  BY <1>1, <1>2, <1>3, <1>4, <1>5, <1>6

\* A handler that changes no context, one that clears it, and one that asks something else.
LEMMA CalmWithin ==
  ASSUME Typed, NEW p, NEW k, NEW v \in Values, HandlersCalm,
         UNCHANGED <<family, asked, acted, last>>
  PROVE  /\ UNCHANGED context => Calm
         /\ Clear => Calm
         /\ UNCHANGED data /\ p \notin DOMAIN SubjectKey /\ waiting' = p => Calm
         /\ k \notin KeptKeys /\ Store(k, v) /\ p \notin DOMAIN SubjectKey /\ waiting' = p => Calm
         /\ k \notin KeptKeys /\ Store(k, v) /\ UNCHANGED waiting => Calm
<1>1. UNCHANGED context => Calm
  BY ContextStays DEF Calm
<1>2. Clear => Calm
  BY ContextCleared DEF Calm
<1>3. ASSUME UNCHANGED data, p \notin DOMAIN SubjectKey, waiting' = p PROVE Calm
  BY <1>3 DEF Typed, Calm, DataTyped, NothingGiven
<1>4. ASSUME k \notin KeptKeys, Store(k, v) PROVE UNCHANGED waiting => Calm
  BY <1>4, OtherStored DEF Calm, SameQuestion
<1>5. ASSUME k \notin KeptKeys, Store(k, v), p \notin DOMAIN SubjectKey, waiting' = p PROVE Calm
  BY <1>5, OtherStored DEF Calm
<1> QED
  BY <1>1, <1>2, <1>3, <1>4, <1>5

LEMMA CalmPairs ==
  ASSUME Typed, NEW k, NEW v \in Values, NEW l, NEW w \in Values, k \notin KeptKeys, l \notin KeptKeys,
         data' = With(k, v, With(l, w, data)), HandlersCalm,
         UNCHANGED <<family, asked, acted, last>>,
         waiting' \notin DOMAIN SubjectKey \/ UNCHANGED waiting
  PROVE  Calm
  BY OthersStored DEF Calm, SameQuestion

LEMMA CalmHandlers ==
  ASSUME Typed, NEW s \in Slots, NEW h, NEW p, NEW k, NEW step, NEW v \in Values
  PROVE  /\ Refuse(s) => Calm
         /\ SetsState(s, h, p) /\ p \notin DOMAIN SubjectKey => Calm
         /\ Clears(s, h) => Calm
         /\ Note(s, h, k, v, p) /\ k \notin KeptKeys /\ p \notin DOMAIN SubjectKey => Calm
         /\ Keep(s, h, step, v) /\ step # "acting" => Calm
         /\ Save(s) => Calm
         /\ Close(s) => Calm
<1> USE DEF Later, Silent
<1>1. ASSUME Refuse(s) PROVE Calm
  BY <1>1, HandlersStayCalm, CalmWithin DEF Refuse
<1>2. ASSUME SetsState(s, h, p), p \notin DOMAIN SubjectKey PROVE Calm
  BY <1>2, HandlersStayCalm, CalmWithin DEF SetsState
<1>3. ASSUME Clears(s, h) PROVE Calm
  BY <1>3, HandlersStayCalm, CalmWithin DEF Clears
<1>4. ASSUME Note(s, h, k, v, p), k \notin KeptKeys, p \notin DOMAIN SubjectKey PROVE Calm
  BY <1>4, HandlersStayCalm, CalmWithin DEF Note
<1>5. ASSUME Keep(s, h, step, v), step # "acting" PROVE Calm
  BY <1>5, HandlersStayCalm, CalmWithin DEF Keep
<1>6. ASSUME Save(s) PROVE Calm
  <2>1. running[s].about \in Values
    BY DEF Typed, AreHandlers, IsHandler
  <2>2. HandlersCalm
    BY <1>6, <2>1, HandlersStayCalm DEF Save
  <2> QED
    BY <1>6, <2>2, CalmWithin DEF Save
<1>7. ASSUME Close(s) PROVE Calm
  BY <1>7, HandlersStayCalm, CalmWithin DEF Close
<1> QED
  BY <1>1, <1>2, <1>3, <1>4, <1>5, <1>6, <1>7
-------------------------------------------------------------------------------
\* Those that give the context a subject.
LEMMA PutGives ==
  ASSUME Typed, NEW k, NEW t \in Subjects, Put(k, t)
  PROVE  /\ UNCHANGED acted
         /\ asked' = [asked EXCEPT ![t] = @ + 1]
         /\ last' = t
         /\ DataTyped
         /\ k \in DOMAIN data' /\ data'[k] = t
         /\ \A x \in KeptKeys \ {k} : x \in DOMAIN data' => x \in DOMAIN data /\ data'[x] = data[x]
<1>1. data' = With(k, t, data) /\ data \in [DOMAIN data -> Values] /\ t \in Values
  BY DEF Put, Store, Typed, Values
<1>2. DataTyped
  BY <1>1, Stored DEF DataTyped
<1>3. DOMAIN data' = {k} \cup DOMAIN data
  BY <1>1, Stored
<1>4. data'[k] = t /\ \A x \in DOMAIN data : x # k => data'[x] = data[x]
  BY <1>1 DEF With
<1> QED
  BY <1>2, <1>3, <1>4 DEF Put

LEMMA AskAsks ==
  ASSUME Typed, NEW p \in DOMAIN SubjectKey, family \in AskingFamilies,
         NEW s \in Slots, NEW h, NEW t \in Subjects, NEW k, k = SubjectKey[p], Ask(s, h, t, p, k)
  PROVE  Known
<1>1. HandlersCalm
  BY HandlersStayCalm DEF Ask, Values
<1>2. Asks(k, t)
  BY <1>1, PutGives DEF Ask, Later, Asks
<1> QED
  BY <1>2 DEF Known

\* A subject given where no question is answered once.
LEMMA GivenElsewhere ==
  ASSUME Typed, NEW k, NEW t \in Subjects, Put(k, t), HandlersCalm, UNCHANGED family,
         \/ waiting' \notin DOMAIN SubjectKey
         \/ UNCHANGED waiting /\ family \notin AskingFamilies
  PROVE  Known
<1>1. Asks(k, t)
  BY PutGives DEF Asks
<1> QED
  BY <1>1 DEF Known

LEMMA NoteSubjectAsks ==
  ASSUME Typed, NEW s \in Slots, NEW h, NEW k, NEW next, next \notin DOMAIN SubjectKey,
         NoteSubject(s, h, k, next)
  PROVE  Known
<1>1. HandlersCalm
  BY HandlersStayCalm DEF NoteSubject, Values
<1>2. PICK t \in Subjects : Put(k, t)
  BY DEF NoteSubject
<1> QED
  BY <1>1, <1>2, GivenElsewhere DEF NoteSubject, Later

\* The step that takes one, and the one that applies the answer.
LEMMA TakeTakes ==
  ASSUME Typed, NEW s \in Slots, NEW h, NEW keys, NEW k \in keys, k \in TakenKeys,
         Take(s, h, keys, k)
  PROVE  Known
<1>1. CASE keys \subseteq DOMAIN data
  <2>1. PICK v : v = data[k]
    OBVIOUS
  <2>2. Goes(s, "acting", v) /\ Begun(s, h) /\ Clear /\ UNCHANGED <<family, asked, acted, last>>
    BY <1>1, <2>1 DEF Take, Later, Silent
  <2>3. Takes(s, k)
    BY <1>1, <2>1, <2>2 DEF Takes, Goes, Begun, Is
  <2> QED
    BY <2>3 DEF Known
<1>2. CASE ~ (keys \subseteq DOMAIN data)
  <2>1. HandlersCalm
    BY <1>2, HandlersStayCalm DEF Take, Values
  <2>2. Calm
    BY <1>2, <2>1, CalmWithin DEF Take, Later, Silent, Values
  <2> QED
    BY <2>2 DEF Known
<1> QED
  BY <1>1, <1>2

LEMMA ActActs ==
  ASSUME Typed, NEW s \in Slots, Act(s)
  PROVE  Known
<1>1. UNCHANGED <<family, context, asked, last>> /\ running[s].step = "acting" /\ Ends(s)
  BY DEF Act, Later
<1>2. CASE acted' = acted
  <2>1. HandlersCalm
    BY <1>1, HandlersStayCalm DEF Values
  <2>2. Calm
    BY <1>1, <1>2, <2>1, CalmWithin DEF Values
  <2> QED
    BY <2>2 DEF Known
<1>3. CASE acted' = [acted EXCEPT ![running[s].about] = @ + 1]
  BY <1>1, <1>3 DEF Acts, Ends, Known
<1> QED
  BY <1>2, <1>3 DEF Act

LEMMA DialogSteps == ASSUME Typed, DialogNext PROVE Known
<1>1. CASE Cancel
  BY <1>1, CancelIsCalm DEF Known
<1>2. ASSUME NEW s \in Slots, Answer(s) \/ AnswerWithLabel(s) \/ LabelClears(s) PROVE Known
  BY <1>2, CalmArrivals DEF Known, Values
<1>3. ASSUME NEW s \in Slots, Refuse(s) \/ Save(s) \/ Close(s) PROVE Known
  BY <1>3, CalmHandlers DEF Known, Values
<1>4. ASSUME NEW s \in Slots, Act(s) PROVE Known
  BY <1>4, ActActs
<1> QED
  BY <1>1, <1>2, <1>3, <1>4 DEF DialogNext
-------------------------------------------------------------------------------
\* What the steps of the families are, action by action.
LEMMA ValuesThere == Given \in Values /\ "legacy" \in Values /\ "v3" \in Values /\ Subjects \subseteq Values
  BY DEF Values

LEMMA EditSteps == ASSUME Typed, EditNext PROVE Known
<1> USE ValuesThere
<1>0. family = "edit" /\ family \in AskingFamilies
  BY DEF EditNext, AskingFamilies
<1>1. ASSUME NEW s \in Slots, NEW t \in Subjects,
             AskEditTg(s, t) \/ AskEditTraffic(s, t) \/ AskEditReset(s, t) \/ AskEditDays(s, t)
      PROVE  Known
  <2>1. PICK p, h : p \in EditQuestions /\ Ask(s, h, t, p, "edit")
    BY <1>1 DEF AskEditTg, AskEditTraffic, AskEditReset, AskEditDays, EditQuestions
  <2> QED
    BY <1>0, <2>1, AskAsks, Questions
<1>2. ASSUME NEW s \in Slots, NEW t \in Subjects, PickOwner(s, t) PROVE Known
  <2>1. "owner_pick" \notin KeptKeys
    BY DEF KeptKeys, TakenKeys
  <2>2. HandlersCalm
    BY <1>2, HandlersStayCalm DEF PickOwner, Note
  <2> QED
    BY <1>2, <2>1, <2>2, CalmWithin DEF PickOwner, Note, Later, Silent, Known
<1>3. ASSUME NEW s \in Slots, EditTg(s) \/ EditTraffic(s) \/ EditReset(s) \/ EditDays(s) PROVE Known
  <2>1. PICK h : Take(s, h, {"edit"}, "edit")
    BY <1>3 DEF EditTg, EditTraffic, EditReset, EditDays, TakeEdited
  <2> QED
    BY <2>1, TakeTakes DEF TakenKeys
<1>4. ASSUME NEW s \in Slots, Press(s, "owner_set", Given) \/ Label(s, "btn_edit_config") PROVE Known
  BY <1>4, CalmArrivals DEF Known
<1>5. ASSUME NEW s \in Slots, SetOwner(s) PROVE Known
  <2>1. data["owner_pick"] \in Values
    BY <1>5 DEF SetOwner, Typed
  <2> QED
    BY <1>5, <2>1, CalmHandlers DEF SetOwner, Known
<1>6. ASSUME NEW s \in Slots, OwnerSet(s) PROVE Known
  <2>1. HandlersCalm
    BY <1>6, HandlersStayCalm DEF OwnerSet
  <2> QED
    BY <1>6, <2>1, CalmWithin DEF OwnerSet, Later, Silent, Known
<1>7. ASSUME NEW s \in Slots, StartEditConfig(s) PROVE Known
  <2>1. "waiting_vless_config" \notin DOMAIN SubjectKey
    BY Questions DEF EditQuestions, ManageQuestions, BulkQuestions
  <2>2. Calm
    BY <1>7, <2>1, CalmHandlers DEF StartEditConfig
  <2> QED
    BY <2>2 DEF Known
<1>8. ASSUME NEW s \in Slots, SearchConfig(s) PROVE Known
  <2>1. "edit_search_query" \notin KeptKeys
    BY DEF KeptKeys, TakenKeys
  <2> QED
    BY <1>8, <2>1, HandlersStayCalm, CalmWithin DEF SearchConfig, Note, Later, Silent, Known
<1>9. ASSUME NEW s \in Slots, ResolveConfig(s) PROVE Known
  BY <1>9, CalmHandlers DEF ResolveConfig, Known
<1>10. ASSUME NEW s \in Slots, NEW t \in Subjects, NEW h, Press(s, h, t) PROVE Known
  BY <1>10, CalmArrivals DEF Known
<1> QED
  BY <1>1, <1>2, <1>3, <1>4, <1>5, <1>6, <1>7, <1>8, <1>9, <1>10 DEF EditNext

LEMMA ManageSteps == ASSUME Typed, ManageNext PROVE Known
<1>0. family = "manage" /\ family \in AskingFamilies
  BY DEF ManageNext, AskingFamilies
<1>1. ASSUME NEW s \in Slots, NEW t \in Subjects,
             \/ AskCustomTraffic(s, t) \/ AskCustomExpiry(s, t)
             \/ AskCustomIpLimit(s, t) \/ AskTgId(s, t)
      PROVE  Known
  <2>1. PICK p, h : p \in ManageQuestions /\ Ask(s, h, t, p, "client_manage")
    BY <1>1 DEF AskCustomTraffic, AskCustomExpiry, AskCustomIpLimit, AskTgId, AskManaged, ManageQuestions
  <2> QED
    BY <1>0, <2>1, AskAsks, Questions
<1>2. ASSUME NEW s \in Slots, CustomTraffic(s) \/ CustomExpiry(s) \/ CustomIpLimit(s) \/ SetTgId(s)
      PROVE  Known
  <2>1. PICK h : Take(s, h, {"client_manage"}, "client_manage")
    BY <1>2 DEF CustomTraffic, CustomExpiry, CustomIpLimit, SetTgId, TakeManaged
  <2> QED
    BY <2>1, TakeTakes DEF TakenKeys
<1>3. ASSUME NEW s \in Slots, NEW t \in Subjects, NEW h, Press(s, h, t) PROVE Known
  BY <1>3, ValuesThere, CalmArrivals DEF Known
<1> QED
  BY <1>1, <1>2, <1>3 DEF ManageNext

\* The search stores its panel, which is nothing that is taken.
LEMMA PanelwideSteps == ASSUME Typed, PanelwideNext PROVE Known
<1> USE ValuesThere
<1>0. family = "panelwide" /\ family \in AskingFamilies
  BY DEF PanelwideNext, AskingFamilies
<1>1. "online_search_panel" \notin KeptKeys /\ "waiting_online_search_query" \notin DOMAIN SubjectKey
  BY Questions DEF KeptKeys, TakenKeys, EditQuestions, ManageQuestions, BulkQuestions
<1>2. ASSUME NEW s \in Slots, NEW t \in Subjects, AskBulkTraffic(s, t) \/ AskBulkDays(s, t)
      PROVE  Known
  <2>1. PICK p, h : p \in BulkQuestions /\ Ask(s, h, t, p, "bulk_panel")
    BY <1>2 DEF AskBulkTraffic, AskBulkDays, BulkQuestions
  <2> QED
    BY <1>0, <2>1, AskAsks, Questions
<1>3. ASSUME NEW s \in Slots, NEW t \in Subjects, PickPanelForSearch(s, t) \/ SearchPrompt(s, t)
      PROVE  Known
  <2>1. PICK h : Note(s, h, "online_search_panel", t, "waiting_online_search_query")
    BY <1>3 DEF PickPanelForSearch, SearchPrompt, AskSearch
  <2> QED
    BY <1>1, <2>1, CalmHandlers DEF Known
<1>4. ASSUME NEW s \in Slots, BulkTraffic(s) \/ BulkDays(s) PROVE Known
  <2>1. PICK h : Take(s, h, {"bulk_panel"}, "bulk_panel")
    BY <1>4 DEF BulkTraffic, BulkDays
  <2> QED
    BY <2>1, TakeTakes DEF TakenKeys
<1>5. ASSUME NEW s \in Slots, Search(s) PROVE Known
  <2>1. HandlersCalm
    BY <1>5, HandlersStayCalm DEF Search
  <2> QED
    BY <1>5, <2>1, CalmWithin DEF Search, Later, Silent, Known
<1>6. ASSUME NEW s \in Slots, Label(s, "btn_search_user") PROVE Known
  BY <1>6, CalmArrivals DEF Known
<1>7. ASSUME NEW s \in Slots, StartSearch(s) PROVE Known
  <2>1. HandlersCalm
    BY <1>7, HandlersStayCalm DEF StartSearch
  <2> QED
    BY <1>1, <1>7, <2>1, CalmWithin DEF StartSearch, Later, Silent, Known
<1>8. ASSUME NEW s \in Slots, NEW t \in Subjects, NEW h, Press(s, h, t) PROVE Known
  BY <1>8, CalmArrivals DEF Known
<1> QED
  BY <1>2, <1>3, <1>4, <1>5, <1>6, <1>7, <1>8 DEF PanelwideNext
-------------------------------------------------------------------------------
LEMMA CreateSteps == ASSUME Typed, CreateNext PROVE Known
<1> USE ValuesThere
<1> USE DEF Later, Silent
<1>1. \A q \in {"waiting_create_email", "waiting_create_panel_select", "waiting_create_traffic_gb",
                "waiting_create_expiry_days", "waiting_create_tg_id_choice",
                "waiting_create_tg_id"} : q \notin DOMAIN SubjectKey
  BY Questions DEF EditQuestions, ManageQuestions, BulkQuestions
<1>2. /\ "create_target" \in KeptKeys /\ "create_target" \in TakenKeys
      /\ \A k \in {"create_email", "create_total_gb", "create_expiry_days"} : k \notin KeptKeys
  BY DEF KeptKeys, TakenKeys
<1>3. ASSUME NEW s \in Slots, NEW t \in Subjects, PickCreateTarget(s, t) PROVE Known
  <2>1. HandlersCalm
    BY <1>3, HandlersStayCalm DEF PickCreateTarget
  <2> QED
    BY <1>1, <1>2, <1>3, <2>1, GivenElsewhere DEF PickCreateTarget, AskEmail
<1>4. ASSUME NEW s \in Slots,
             \/ Label(s, "btn_create_user")
             \/ PressIn(s, "waiting_create_panel_select", "pcu:pick_panel", Given)
             \/ \E h \in {"pcu:tg_choice:no", "pcu:tg_choice:yes"} :
                   PressIn(s, "waiting_create_tg_id_choice", h, Given)
      PROVE  Known
  BY <1>4, CalmArrivals DEF Known
<1>5. ASSUME NEW s \in Slots, Ends(s), Later, NEW t \in Subjects, AskEmail(t) PROVE Known
  <2>1. HandlersCalm
    BY <1>5, HandlersStayCalm
  <2> QED
    BY <1>1, <1>2, <1>5, <2>1, GivenElsewhere DEF AskEmail
<1>6. ASSUME NEW s \in Slots, StartCreate(s) PROVE Known
  <2>1. HandlersCalm
    BY <1>6, HandlersStayCalm DEF StartCreate
  <2>2. CASE waiting' = "waiting_create_panel_select" /\ UNCHANGED data /\ Silent
    BY <1>1, <1>6, <2>1, <2>2, CalmWithin DEF StartCreate, Known
  <2>3. CASE UNCHANGED context /\ Silent
    BY <1>6, <2>1, <2>3, CalmWithin DEF StartCreate, Known
  <2>4. CASE \E t \in Subjects : AskEmail(t)
    BY <1>5, <1>6, <2>4 DEF StartCreate
  <2> QED
    BY <1>6, <2>2, <2>3, <2>4 DEF StartCreate
<1>7. ASSUME NEW s \in Slots, PickCreatePanel(s) PROVE Known
  <2>1. HandlersCalm
    BY <1>7, HandlersStayCalm DEF PickCreatePanel
  <2>2. CASE UNCHANGED context /\ Silent
    BY <1>7, <2>1, <2>2, CalmWithin DEF PickCreatePanel, Known
  <2>3. CASE \E t \in Subjects : AskEmail(t)
    BY <1>5, <1>7, <2>3 DEF PickCreatePanel
  <2> QED
    BY <1>7, <2>2, <2>3 DEF PickCreatePanel
<1>8. ASSUME NEW s \in Slots, CreateEmail(s) \/ CreateTraffic(s) \/ CreateDays(s) PROVE Known
  BY <1>1, <1>2, <1>8, CalmHandlers DEF CreateEmail, CreateTraffic, CreateDays, Known
<1>9. ASSUME NEW s \in Slots, CreateTgNo(s) \/ CreateTgValue(s) PROVE Known
  <2>1. PICK h : Take(s, h, CreateKeys, "create_target")
    BY <1>9 DEF CreateTgNo, CreateTgValue, FinishCreate
  <2>2. "create_target" \in CreateKeys
    BY DEF CreateKeys
  <2> QED
    BY <1>2, <2>1, <2>2, TakeTakes
<1>10. ASSUME NEW s \in Slots, CreateTgYes(s) PROVE Known
  BY <1>1, <1>10, CalmHandlers DEF CreateTgYes, Known
<1>11. ASSUME NEW s \in Slots, NEW t \in Subjects, NEW h, Press(s, h, t) PROVE Known
  BY <1>11, CalmArrivals DEF Known
<1> QED
  BY <1>3, <1>4, <1>6, <1>7, <1>8, <1>9, <1>10, <1>11 DEF CreateNext

LEMMA PanelSteps == ASSUME Typed, PanelNext PROVE Known
<1> USE ValuesThere
<1>1. \A q \in {"waiting_name", "waiting_api_version", "waiting_login_url", "waiting_api_token",
                "waiting_username", "waiting_password", "waiting_two_factor_choice",
                "waiting_two_factor_code", "waiting_depleted_cleanup_hours",
                "waiting_panel_select", "waiting_overview_panel_select"} : q \notin DOMAIN SubjectKey
  BY Questions DEF EditQuestions, ManageQuestions, BulkQuestions
<1>2. /\ "panel_name" \in KeptKeys /\ "panel_name" \in TakenKeys
      /\ \A k \in {"api_version", "login_url", "username", "password"} : k \notin KeptKeys
  BY DEF KeptKeys, TakenKeys
<1>3. ASSUME NEW s \in Slots,
             \/ \E h \in {"btn_add_panel", "btn_cleanup_settings", "btn_list_inbounds",
                          "btn_inbounds_overview"} : Label(s, h)
             \/ PressIn(s, "waiting_api_version", "panel_api_version", Given)
             \/ \E h \in {"twofa_no", "twofa_yes"} :
                   PressIn(s, "waiting_two_factor_choice", h, Given)
             \/ PressIn(s, "waiting_panel_select", "inbounds_panel_pick", Given)
             \/ PressIn(s, "waiting_overview_panel_select", "overview_panel_pick", Given)
      PROVE  Known
  BY <1>3, CalmArrivals DEF Known
<1>4. ASSUME NEW s \in Slots,
             \/ StartAddPanel(s) \/ PanelTwoFactorYes(s) \/ StartCleanupSettings(s)
             \/ StartInboundsList(s) \/ StartInboundsOverview(s)
      PROVE  Known
  BY <1>1, <1>4, CalmHandlers
     DEF StartAddPanel, PanelTwoFactorYes, StartCleanupSettings, StartInboundsList,
         StartInboundsOverview, Known
<1>5. ASSUME NEW s \in Slots, PanelName(s) PROVE Known
  BY <1>1, <1>2, <1>5, NoteSubjectAsks DEF PanelName
<1>6. ASSUME NEW s \in Slots, PanelApiVersion(s) PROVE Known
  BY <1>1, <1>2, <1>6, CalmHandlers DEF PanelApiVersion, Known
<1>7. ASSUME NEW s \in Slots, PanelUrl(s) PROVE Known
  <2>1. PICK next : next = IF IsV3 THEN "waiting_api_token" ELSE "waiting_username"
    OBVIOUS
  <2>2. next \notin DOMAIN SubjectKey
    BY <1>1, <2>1
  <2>3. Note(s, "waiting_login_url", "login_url", Given, next)
    BY <1>7, <2>1 DEF PanelUrl, Note
  <2> QED
    BY <1>2, <2>2, <2>3, CalmHandlers DEF Known
<1>8. ASSUME NEW s \in Slots, PanelUsername(s) \/ PanelPassword(s) PROVE Known
  BY <1>1, <1>2, <1>8, CalmHandlers DEF PanelUsername, PanelPassword, Known
<1>9. ASSUME NEW s \in Slots, PanelApiToken(s) \/ PanelTwoFactorNo(s) \/ PanelTwoFactorCode(s)
      PROVE  Known
  <2>1. PICK h : Take(s, h, {"panel_name", "login_url"}, "panel_name")
    BY <1>9 DEF PanelApiToken, PanelTwoFactorNo, PanelTwoFactorCode, FinishPanel
  <2> QED
    BY <1>2, <2>1, TakeTakes
<1>10. ASSUME NEW s \in Slots, SaveCleanupHours(s) PROVE Known
  BY <1>10, CalmHandlers DEF SaveCleanupHours, Known
<1>11. ASSUME NEW s \in Slots, InboundsPickPanel(s) \/ InboundsOverviewPickPanel(s) PROVE Known
  BY <1>11, CalmHandlers DEF InboundsPickPanel, InboundsOverviewPickPanel, Known
<1> QED
  BY <1>3, <1>4, <1>5, <1>6, <1>7, <1>8, <1>9, <1>10, <1>11 DEF PanelNext

LEMMA BindSteps == ASSUME Typed, BindNext PROVE Known
<1> USE ValuesThere
<1>1. \A q \in {"waiting_telegram_user_id", "waiting_bind_panel", "waiting_client_email",
                "waiting_service_name", "waiting_status_missing_link"} : q \notin DOMAIN SubjectKey
  BY Questions DEF EditQuestions, ManageQuestions, BulkQuestions
<1>2. /\ "client_email" \in KeptKeys /\ "client_email" \in TakenKeys
      /\ \A k \in {"panel_id", "telegram_user_id"} : k \notin KeptKeys
  BY DEF KeptKeys, TakenKeys
<1>3. ASSUME NEW s \in Slots, StatusMissingPrompt(s) PROVE Known
  BY <1>1, <1>3, CalmHandlers DEF StatusMissingPrompt, Known
<1>4. ASSUME NEW s \in Slots,
             \/ Label(s, "btn_bind_service")
             \/ PressIn(s, "waiting_bind_panel", "bind_panel_pick", Given)
             \/ Press(s, "status_missing_prompt", Given)
      PROVE  Known
  BY <1>4, CalmArrivals DEF Known
<1>5. ASSUME NEW s \in Slots, StartBind(s) PROVE Known
  BY <1>1, <1>2, <1>5, CalmHandlers DEF StartBind, Known
<1>6. ASSUME NEW s \in Slots, BindPickPanel(s) \/ BindUserId(s) PROVE Known
  BY <1>1, <1>2, <1>6, CalmHandlers DEF BindPickPanel, BindUserId, Known
<1>7. ASSUME NEW s \in Slots, BindEmail(s) PROVE Known
  BY <1>1, <1>2, <1>7, NoteSubjectAsks DEF BindEmail
<1>8. ASSUME NEW s \in Slots, BindFinalize(s) PROVE Known
  BY <1>2, <1>8, TakeTakes DEF BindFinalize
<1>9. ASSUME NEW s \in Slots, StatusMissingLink(s) PROVE Known
  BY <1>9, CalmHandlers DEF StatusMissingLink, Known
<1> QED
  BY <1>3, <1>4, <1>5, <1>6, <1>7, <1>8, <1>9 DEF BindNext
-------------------------------------------------------------------------------
LEMMA DelegatesSteps == ASSUME Typed, DelegatesNext PROVE Known
<1> USE ValuesThere
<1>1. \A q \in {"waiting_target", "waiting_title", "waiting_inbound_selection"} :
         q \notin DOMAIN SubjectKey
  BY Questions DEF EditQuestions, ManageQuestions, BulkQuestions
<1>2. "delegated_target" \notin KeptKeys /\ "delegated_selected" \notin KeptKeys
  BY DEF KeptKeys, TakenKeys
<1>3. ASSUME NEW s \in Slots, DelegateAdd(s) PROVE Known
  BY <1>1, <1>3, CalmHandlers DEF DelegateAdd, Known
\* Whether the inbounds could be listed or not, nothing is given.
<1>4. ASSUME NEW t \in Values, ShowsSelection(t), HandlersCalm,
             UNCHANGED <<family, asked, acted, last>>
      PROVE  Known
  <2>1. CASE Clear
    BY <1>4, <2>1, CalmWithin DEF Known
  <2>2. CASE /\ data' = With("delegated_target", t, With("delegated_selected", t, data))
             /\ waiting' = "waiting_inbound_selection"
    <3>1. Calm
      BY <1>1, <1>2, <1>4, <2>2, CalmPairs
    <3> QED
      BY <3>1 DEF Known
  <2> QED
    BY <1>4, <2>1, <2>2 DEF ShowsSelection
<1>5. ASSUME NEW s \in Slots, NEW t \in Subjects, DelegateEdit(s, t) PROVE Known
  <2>1. HandlersCalm
    BY <1>5, HandlersStayCalm DEF DelegateEdit
  <2> QED
    BY <1>4, <1>5, <2>1 DEF DelegateEdit, Later, Silent
<1>6. ASSUME NEW s \in Slots,
             \E h \in {"dag:toggle", "dag:cancel", "dag:confirm"} :
                PressIn(s, "waiting_inbound_selection", h, Given)
      PROVE  Known
  BY <1>6, CalmArrivals DEF Known
<1>7. ASSUME NEW s \in Slots, DelegateTarget(s) PROVE Known
  BY <1>1, <1>7, NoteSubjectAsks DEF DelegateTarget
<1>8. ASSUME NEW s \in Slots, DelegateTitle(s) PROVE Known
  <2>1. PICK t : t = data["delegated_target"]
    OBVIOUS
  <2>2. t \in Values /\ Keep(s, "waiting_title", "reading", t)
    BY <1>8, <2>1 DEF DelegateTitle, Typed, Keep
  <2>3. Calm
    BY <2>2, CalmHandlers
  <2> QED
    BY <2>3 DEF Known
<1>9. ASSUME NEW s \in Slots, DelegateTitled(s) PROVE Known
  <2>1. HandlersCalm
    BY <1>9, HandlersStayCalm DEF DelegateTitled
  <2>2. PICK t : t = running[s].about
    OBVIOUS
  <2>3. t \in Values
    BY <2>2 DEF Typed, AreHandlers, IsHandler
  <2>4. ShowsSelection(t)
    BY <1>9, <2>2 DEF DelegateTitled, ShowsSelection
  <2> QED
    BY <1>4, <1>9, <2>1, <2>3, <2>4 DEF DelegateTitled, Later, Silent
<1>10. ASSUME NEW s \in Slots, DelegateToggle(s) PROVE Known
  <2>1. HandlersCalm
    BY <1>10, HandlersStayCalm DEF DelegateToggle
  <2> QED
    BY <1>10, <2>1, CalmWithin DEF DelegateToggle, Later, Silent, Known
<1>11. ASSUME NEW s \in Slots, DelegateCancel(s) PROVE Known
  BY <1>11, CalmHandlers DEF DelegateCancel, Known
<1>12. ASSUME NEW s \in Slots, DelegateConfirm(s) PROVE Known
  <2>1. data["delegated_target"] \in Values
    BY <1>12 DEF DelegateConfirm, Typed
  <2>2. HandlersCalm
    BY <1>12, <2>1, HandlersStayCalm DEF DelegateConfirm
  <2> QED
    BY <1>12, <2>2, CalmWithin DEF DelegateConfirm, Later, Known
<1>13. ASSUME NEW s \in Slots, NEW t \in Values, NEW h, Press(s, h, t) PROVE Known
  BY <1>13, CalmArrivals DEF Known
<1> QED
  BY <1>3, <1>5, <1>6, <1>7, <1>8, <1>9, <1>10, <1>11, <1>12, <1>13 DEF DelegatesNext

LEMMA LimitsSteps == ASSUME Typed, LimitsNext PROVE Known
<1> USE ValuesThere
<1>0. family = "limits" /\ family \in AskingFamilies
  BY DEF LimitsNext, AskingFamilies
<1>1. ASSUME NEW s \in Slots, NEW t \in Subjects, AskPanelLimit(s, t) PROVE Known
  BY <1>0, <1>1, AskAsks, Questions DEF AskPanelLimit
<1>2. ASSUME NEW s \in Slots, PanelLimit(s) PROVE Known
  <2>1. "delegated_panel_price" \in DOMAIN data => data["delegated_panel_price"] \in Values
    BY DEF Typed
  <2>2. HandlersCalm
    BY <1>2, <2>1, HandlersStayCalm DEF PanelLimit
  <2> QED
    BY <1>2, <2>2, CalmWithin DEF PanelLimit, Later, Silent, Known
<1>3. ASSUME NEW s \in Slots, PanelLimitSaved(s) PROVE Known
  <2>1. HandlersCalm
    BY <1>3, HandlersStayCalm DEF PanelLimitSaved
  <2> QED
    BY <1>3, <2>1, CalmWithin DEF PanelLimitSaved, Later, Silent, Known
<1>4. ASSUME NEW s \in Slots, NEW t \in Subjects, NEW h, Press(s, h, t) PROVE Known
  BY <1>4, CalmArrivals DEF Known
<1> QED
  BY <1>1, <1>2, <1>3, <1>4 DEF LimitsNext

LEMMA FinexSteps == ASSUME Typed, FinexNext PROVE Known
<1> USE ValuesThere
<1>0. family = "finex" /\ family \in AskingFamilies
  BY DEF FinexNext, AskingFamilies
<1>1. /\ "finex_hits" \notin KeptKeys
      /\ "waiting_finex_remain_bulk_confirm" \notin DOMAIN SubjectKey
  BY Questions DEF KeptKeys, TakenKeys, EditQuestions, ManageQuestions, BulkQuestions
<1>2. ASSUME NEW s \in Slots, NEW t \in Subjects, AskFinexNames(s, t) PROVE Known
  BY <1>0, <1>2, AskAsks, Questions DEF AskFinexNames
<1>3. ASSUME NEW s \in Slots, FinexNames(s) PROVE Known
  <2>1. "finex_delegate" \in DOMAIN data => data["finex_delegate"] \in Values
    BY DEF Typed
  <2>2. HandlersCalm
    BY <1>3, <2>1, HandlersStayCalm DEF FinexNames
  <2> QED
    BY <1>3, <2>2, CalmWithin DEF FinexNames, Later, Silent, Known
<1>4. ASSUME NEW s \in Slots, FinexFound(s) PROVE Known
  <2>1. PICK t : t = running[s].about
    OBVIOUS
  <2>2. t \in Values
    BY <2>1 DEF Typed, AreHandlers, IsHandler
  <2>3. HandlersCalm
    BY <1>4, HandlersStayCalm DEF FinexFound
  <2>4. CASE UNCHANGED context
    BY <1>4, <2>3, <2>4, CalmWithin DEF FinexFound, Later, Silent, Known
  <2>5. CASE Store("finex_hits", t) /\ waiting' = "waiting_finex_remain_bulk_confirm"
    BY <1>1, <1>4, <2>2, <2>3, <2>5, CalmWithin DEF FinexFound, Later, Silent, Known
  <2> QED
    BY <1>4, <2>1, <2>4, <2>5 DEF FinexFound, Store
<1>5. ASSUME NEW s \in Slots, FinexYes(s) PROVE Known
  <2>1. running[s].about \in Values
    BY DEF Typed, AreHandlers, IsHandler
  <2>2. HandlersCalm
    BY <1>5, <2>1, HandlersStayCalm DEF FinexYes
  <2> QED
    BY <1>5, <2>2, CalmWithin DEF FinexYes, Later, Silent, Known
<1>6. ASSUME NEW s \in Slots, FinexNo(s) PROVE Known
  BY <1>6, CalmHandlers DEF FinexNo, Known
<1>7. ASSUME NEW s \in Slots, NEW t \in Subjects, NEW h,
             PressIn(s, "waiting_finex_remain_bulk_confirm", h, t)
      PROVE  Known
  BY <1>7, CalmArrivals DEF Known
<1>8. ASSUME NEW s \in Slots, NEW t \in Subjects, NEW h, Press(s, h, t) PROVE Known
  BY <1>8, CalmArrivals DEF Known
<1> QED
  BY <1>2, <1>3, <1>4, <1>5, <1>6, <1>7, <1>8 DEF FinexNext
-------------------------------------------------------------------------------
LEMMA WalletSteps == ASSUME Typed, WalletNext PROVE Known
<1> USE ValuesThere
<1>0. family = "wallet" /\ family \notin AskingFamilies
  BY DEF WalletNext, AskingFamilies
<1>1. \A q \in {"waiting_wallet_target", "waiting_wallet_amount"} : q \notin DOMAIN SubjectKey
  BY Questions DEF EditQuestions, ManageQuestions, BulkQuestions
<1>2. /\ "finance_wallet_target" \in TakenKeys
      /\ \A k \in {"finance_mode", "finance_wallet_action"} : k \notin KeptKeys
  BY DEF KeptKeys, TakenKeys
<1>3. ASSUME NEW s \in Slots, AskWalletTarget(s) PROVE Known
  BY <1>1, <1>2, <1>3, CalmHandlers DEF AskWalletTarget, Known
\* The amount is asked for with what will be done to the wallet.
<1>4. ASSUME NEW s \in Slots, NEW t \in Subjects, AskWalletAmount(s, t) PROVE Known
  <2>1. HandlersCalm
    BY <1>4, HandlersStayCalm DEF AskWalletAmount
  <2>2. PICK d : d = With("finance_wallet_target", t, data)
    OBVIOUS
  <2>3. d \in [DOMAIN d -> Values] /\ DOMAIN d = {"finance_wallet_target"} \cup DOMAIN data
    BY <2>2, Stored DEF Typed
  <2>4. /\ d["finance_wallet_target"] = t
        /\ \A x \in DOMAIN data : x # "finance_wallet_target" => d[x] = data[x]
    BY <2>2 DEF With
  <2>5. PICK e : e = With("finance_wallet_action", Given, d)
    OBVIOUS
  <2>6. data' = e
    BY <1>4, <2>2, <2>5 DEF AskWalletAmount
  <2>7. e \in [DOMAIN e -> Values] /\ DOMAIN e = {"finance_wallet_action"} \cup DOMAIN d
    BY <2>3, <2>5, Stored
  <2>8. \A x \in DOMAIN d : x # "finance_wallet_action" => e[x] = d[x]
    BY <2>5 DEF With
  <2>9. DataTyped
    BY <2>6, <2>7 DEF DataTyped
  <2>10. "finance_wallet_target" \in DOMAIN e /\ e["finance_wallet_target"] = t
    BY <2>3, <2>4, <2>7, <2>8
  <2>11. \A x \in KeptKeys \ {"finance_wallet_target"} :
            x \in DOMAIN e => x \in DOMAIN data /\ e[x] = data[x]
    BY <1>2, <2>3, <2>4, <2>7, <2>8
  <2>12. Asks("finance_wallet_target", t)
    BY <1>1, <1>4, <2>1, <2>6, <2>9, <2>10, <2>11 DEF AskWalletAmount, Later, Asks
  <2> QED
    BY <2>12 DEF Known
\* The wallet is shown while the question stands, and it is none that is answered once.
<1>5. ASSUME NEW s \in Slots, WalletTarget(s) PROVE Known
  <2>1. HandlersCalm
    BY <1>5, HandlersStayCalm DEF WalletTarget
  <2>2. PICK t \in Subjects : Put("finance_wallet_target", t)
    BY <1>5 DEF WalletTarget
  <2> QED
    BY <1>0, <1>5, <2>1, <2>2, GivenElsewhere DEF WalletTarget, Later
<1>6. ASSUME NEW s \in Slots, WalletAmount(s) PROVE Known
  BY <1>2, <1>6, TakeTakes DEF WalletAmount
<1>7. ASSUME NEW s \in Slots, NEW t \in Values, NEW h, Press(s, h, t) PROVE Known
  BY <1>7, CalmArrivals DEF Known
<1> QED
  BY <1>3, <1>4, <1>5, <1>6, <1>7 DEF WalletNext

LEMMA PricingSteps == ASSUME Typed, PricingNext PROVE Known
<1> USE ValuesThere
<1>1. \A q \in {"waiting_pricing_target", "waiting_pricing_gb", "waiting_pricing_day",
                "waiting_pricing_history_choice"} : q \notin DOMAIN SubjectKey
  BY Questions DEF EditQuestions, ManageQuestions, BulkQuestions
<1>2. /\ "finance_pricing_target" \in TakenKeys
      /\ \A k \in {"finance_price_per_gb", "finance_price_per_day"} : k \notin KeptKeys
  BY DEF KeptKeys, TakenKeys
<1>3. ASSUME NEW s \in Slots, AskPricingTarget(s) PROVE Known
  BY <1>1, <1>3, CalmHandlers DEF AskPricingTarget, Known
<1>4. ASSUME NEW s \in Slots, PricingTarget(s) PROVE Known
  BY <1>1, <1>4, NoteSubjectAsks DEF PricingTarget
<1>5. ASSUME NEW s \in Slots, PricingGb(s) PROVE Known
  BY <1>1, <1>2, <1>5, CalmHandlers DEF PricingGb, Known
<1>6. ASSUME NEW s \in Slots, PricingDay(s) PROVE Known
  <2>1. PICK t : t = data["finance_pricing_target"]
    OBVIOUS
  <2>2. t \in Values /\ Keep(s, "waiting_pricing_day", "reading", t)
    BY <1>6, <2>1 DEF PricingDay, Typed, Keep
  <2>3. Calm
    BY <2>2, CalmHandlers
  <2> QED
    BY <2>3 DEF Known
<1>7. ASSUME NEW s \in Slots, PricingDayRead(s) PROVE Known
  <2>1. HandlersCalm
    BY <1>7, HandlersStayCalm DEF PricingDayRead
  <2>2. CASE Store("finance_price_per_day", Given) /\ waiting' = "waiting_pricing_history_choice"
    BY <1>1, <1>2, <1>7, <2>1, <2>2, CalmWithin DEF PricingDayRead, Later, Silent, Known
  <2>3. CASE Clear
    BY <1>7, <2>1, <2>3, CalmWithin DEF PricingDayRead, Later, Silent, Known
  <2> QED
    BY <1>7, <2>2, <2>3 DEF PricingDayRead
<1>8. ASSUME NEW s \in Slots, NEW h,
             \/ PressIn(s, "waiting_pricing_history_choice", h, Given)
             \/ Press(s, "fin:pricing", Given)
      PROVE  Known
  BY <1>8, CalmArrivals DEF Known
<1>9. ASSUME NEW s \in Slots, PricingHistoryApply(s) \/ PricingHistoryKeep(s) PROVE Known
  <2>1. PICK h : Take(s, h, {"finance_pricing_target", "finance_price_per_gb",
                             "finance_price_per_day"}, "finance_pricing_target")
    BY <1>9 DEF PricingHistoryApply, PricingHistoryKeep, TakePricing
  <2> QED
    BY <1>2, <2>1, TakeTakes
<1> QED
  BY <1>3, <1>4, <1>5, <1>6, <1>7, <1>8, <1>9 DEF PricingNext
-------------------------------------------------------------------------------
\* The keyboards neither give nor take: what is ticked is set, and saved as it is.
LEMMA AboutTyped == ASSUME Typed, NEW s \in Slots PROVE running[s].about \in Values
  BY DEF Typed, AreHandlers, IsHandler

LEMMA ReadsIsCalm == ASSUME Typed, NEW s \in Slots, Reads(s) PROVE Calm
<1>1. PICK t : t = running[s].about
  OBVIOUS
<1>2. t \in Values /\ Goes(s, "reading", t)
  BY <1>1, AboutTyped DEF Reads, Goes
<1>3. HandlersCalm
  BY <1>2, HandlersStayCalm
<1> QED
  BY <1>2, <1>3, CalmWithin DEF Reads, Later, Silent

LEMMA SavesIsCalm ==
  ASSUME Typed, NEW s \in Slots, NEW target \in Values, NEW ticks, Saves(s, target, ticks)
  PROVE  Calm
<1>1. HandlersCalm
  BY HandlersStayCalm DEF Saves
<1> QED
  BY <1>1, CalmWithin DEF Saves, Later

LEMMA LoadIsCalm ==
  ASSUME Typed, NEW p, NEW target, NEW ticks, NEW t \in Values, Load(p, target, ticks, t),
         p \notin DOMAIN SubjectKey, target \notin KeptKeys, ticks \notin KeptKeys, HandlersCalm,
         UNCHANGED <<family, asked, acted, last>>
  PROVE  Calm
  BY CalmPairs DEF Load

LEMMA OpensIsCalm ==
  ASSUME Typed, NEW s \in Slots, NEW h, NEW t \in Subjects, NEW p, NEW target, NEW ticks,
         Opens(s, h, t, p, target, ticks), p \notin DOMAIN SubjectKey,
         target \notin KeptKeys, ticks \notin KeptKeys
  PROVE  Calm
<1>1. HandlersCalm
  BY HandlersStayCalm, ValuesThere DEF Opens
<1> QED
  BY <1>1, LoadIsCalm, ValuesThere DEF Opens, Later, Silent

\* The two that tick one more.
LEMMA WritesIsCalm ==
  ASSUME Typed, NEW s \in Slots, NEW k, NEW v \in Values, k \notin KeptKeys,
         Writes(s, With(k, v, data))
  PROVE  Calm
<1>1. HandlersCalm
  BY HandlersStayCalm DEF Writes
<1>2. Store(k, v) /\ UNCHANGED waiting
  BY DEF Writes, Store
<1> QED
  BY <1>1, <1>2, CalmWithin DEF Writes, Later, Silent

LEMMA OtherQuestions ==
  /\ \A q \in {"waiting_inbound_selection", "waiting_group_name", "waiting_share_link",
               "waiting_display_label", "picking", "choosing_inbounds", "choosing_panel",
               "choosing_outbound"} : q \notin DOMAIN SubjectKey
  /\ \A k \in {"access_target", "access_ticks", "panel_group_panel_id", "panel_group_ticks", "panel_ob_panel_id", "panel_ob_tag", "obg_delegate",
               "obg_selected", "ib_panel_id", "ib_selected"} : k \notin KeptKeys
  BY Questions DEF KeptKeys, TakenKeys, EditQuestions, ManageQuestions, BulkQuestions

LEMMA AccessSteps == ASSUME Typed, AccessNext PROVE Known
<1> USE ValuesThere, OtherQuestions
<1>1. ASSUME NEW s \in Slots, NEW t \in Subjects, PanelAccessPick(s, t) PROVE Known
  <2>1. Calm
    BY <1>1, OpensIsCalm DEF PanelAccessPick
  <2> QED
    BY <2>1 DEF Known
<1>2. ASSUME NEW s \in Slots, PanelAccessToggle(s) PROVE Known
  BY <1>2, ReadsIsCalm DEF PanelAccessToggle, Known
<1>3. ASSUME NEW s \in Slots, PanelAccessToggled(s) PROVE Known
  <2>1. PICK t : t = running[s].about
    OBVIOUS
  <2>2. t \in Values
    BY <2>1, AboutTyped
  <2>3. HandlersCalm
    BY <1>3, HandlersStayCalm DEF PanelAccessToggled, Writes
  <2>4. data' = With("access_target", t, With("access_ticks", t, data)) /\ UNCHANGED waiting
    BY <1>3, <2>1 DEF PanelAccessToggled, Writes, AccessKeys
  <2>5. Calm
    BY <1>3, <2>2, <2>3, <2>4, CalmPairs DEF PanelAccessToggled, Writes, Later, Silent
  <2> QED
    BY <2>5 DEF Known
<1>4. ASSUME NEW s \in Slots, PanelAccessSave(s) PROVE Known
  <2>1. PICK t : t = running[s].about
    OBVIOUS
  <2>2. t \in Values /\ Saves(s, t, "access_ticks")
    BY <1>4, <2>1, AboutTyped DEF PanelAccessSave, Saves, Goes
  <2> QED
    BY <2>2, SavesIsCalm DEF Known
<1>5. ASSUME NEW s \in Slots, NEW t \in Subjects, NEW h,
             PressIn(s, "waiting_inbound_selection", h, t)
      PROVE  Known
  BY <1>5, CalmArrivals DEF Known
<1>6. ASSUME NEW s \in Slots, NEW t \in Subjects, NEW h, Press(s, h, t) PROVE Known
  BY <1>6, CalmArrivals DEF Known
<1> QED
  BY <1>1, <1>2, <1>3, <1>4, <1>5, <1>6 DEF AccessNext

LEMMA GroupsSteps == ASSUME Typed, GroupsNext PROVE Known
<1> USE ValuesThere, OtherQuestions
<1>1. ASSUME NEW s \in Slots, NEW t \in Subjects, GroupAdd(s, t) PROVE Known
  <2>1. Calm
    BY <1>1, CalmHandlers DEF GroupAdd
  <2> QED
    BY <2>1 DEF Known
<1>2. ASSUME NEW s \in Slots, NEW t \in Subjects, GroupDetail(s, t) PROVE Known
  <2>1. Calm
    BY <1>2, OpensIsCalm DEF GroupDetail
  <2> QED
    BY <2>1 DEF Known
<1>3. ASSUME NEW s \in Slots, GroupAddSubmit(s) PROVE Known
  <2>1. PICK t : t = data["panel_group_panel_id"]
    OBVIOUS
  <2>2. t \in Values /\ Keep(s, "waiting_group_name", "saving", t)
    BY <1>3, <2>1 DEF GroupAddSubmit, Typed, Keep
  <2>3. Calm
    BY <2>2, CalmHandlers
  <2> QED
    BY <2>3 DEF Known
<1>4. ASSUME NEW s \in Slots, GroupToggle(s) PROVE Known
  <2>1. HandlersCalm
    BY <1>4, HandlersStayCalm DEF GroupToggle
  <2>2. Calm
    BY <1>4, <2>1, CalmWithin DEF GroupToggle, Later, Silent
  <2> QED
    BY <2>2 DEF Known
<1>5. ASSUME NEW s \in Slots, GroupSave(s) PROVE Known
  <2>1. PICK t : t = running[s].about
    OBVIOUS
  <2>2. t \in Values /\ Saves(s, t, "panel_group_ticks")
    BY <1>5, <2>1, AboutTyped DEF GroupSave, Saves, Goes
  <2> QED
    BY <2>2, SavesIsCalm DEF Known
<1>6. ASSUME NEW s \in Slots, NEW t \in Subjects, NEW h,
             PressIn(s, "waiting_inbound_selection", h, t)
      PROVE  Known
  BY <1>6, CalmArrivals DEF Known
<1>7. ASSUME NEW s \in Slots, NEW t \in Subjects, NEW h, Press(s, h, t) PROVE Known
  BY <1>7, CalmArrivals DEF Known
<1> QED
  BY <1>1, <1>2, <1>3, <1>4, <1>5, <1>6, <1>7 DEF GroupsNext

LEMMA GrantsSteps == ASSUME Typed, GrantsNext PROVE Known
<1> USE ValuesThere, OtherQuestions
<1>1. ASSUME NEW s \in Slots, NEW t \in Subjects, AskLink(s, t) PROVE Known
  <2>1. Calm
    BY <1>1, CalmHandlers DEF AskLink
  <2> QED
    BY <2>1 DEF Known
<1>2. ASSUME NEW s \in Slots, NEW t \in Subjects, AskLabel(s, t) PROVE Known
  <2>1. Calm
    BY <1>2, OpensIsCalm DEF AskLabel
  <2> QED
    BY <2>1 DEF Known
<1>3. ASSUME NEW s \in Slots, NEW t \in Subjects, GrantPick(s, t) PROVE Known
  <2>1. Calm
    BY <1>3, OpensIsCalm DEF GrantPick
  <2> QED
    BY <2>1 DEF Known
<1>4. ASSUME NEW s \in Slots, ReceiveLink(s) PROVE Known
  <2>1. PICK t : t = data["panel_ob_panel_id"]
    OBVIOUS
  <2>2. HandlersCalm
    <3>1. CASE "panel_ob_panel_id" \in DOMAIN data
      <4>1. t \in Values /\ Goes(s, "reading", t)
        BY <1>4, <2>1, <3>1 DEF Typed, ReceiveLink, Goes
      <4> QED
        BY <4>1, HandlersStayCalm
    <3>2. CASE "panel_ob_panel_id" \notin DOMAIN data
      BY <1>4, <3>2, HandlersStayCalm DEF ReceiveLink
    <3> QED
      BY <3>1, <3>2
  <2>3. Calm
    BY <1>4, <2>2, CalmWithin DEF ReceiveLink, Later, Silent
  <2> QED
    BY <2>3 DEF Known
<1>5. ASSUME NEW s \in Slots, LinkAppended(s) PROVE Known
  <2>1. PICK t : t = running[s].about
    OBVIOUS
  <2>2. t \in Values
    BY <2>1, AboutTyped
  <2>3. HandlersCalm
    BY <1>5, HandlersStayCalm DEF LinkAppended
  <2>4. Clear \/ UNCHANGED context
          \/ Load("waiting_display_label", "panel_ob_panel_id", "panel_ob_tag", t)
    BY <1>5, <2>1 DEF LinkAppended, Load
  <2>5. Calm
    BY <1>5, <2>2, <2>3, <2>4, LoadIsCalm, CalmWithin DEF LinkAppended, Later, Silent
  <2> QED
    BY <2>5 DEF Known
<1>6. ASSUME NEW s \in Slots, DisplayLabel(s) PROVE Known
  <2>1. CASE {"panel_ob_panel_id", "panel_ob_tag"} \subseteq DOMAIN data
    <3>1. PICK t : t = data["panel_ob_panel_id"]
      OBVIOUS
    <3>2. t \in Values /\ Saves(s, t, "panel_ob_tag")
      BY <1>6, <2>1, <3>1 DEF DisplayLabel, Typed, Saves, Goes
    <3> QED
      BY <3>2, SavesIsCalm DEF Known
  <2>2. CASE ~ ({"panel_ob_panel_id", "panel_ob_tag"} \subseteq DOMAIN data)
    <3>1. Clear /\ Ends(s) /\ Later /\ Silent
      BY <1>6, <2>2 DEF DisplayLabel
    <3>2. HandlersCalm
      BY <3>1, HandlersStayCalm
    <3>3. Calm
      BY <3>1, <3>2, CalmWithin DEF Later, Silent
    <3> QED
      BY <3>3 DEF Known
  <2> QED
    BY <2>1, <2>2
<1>7. ASSUME NEW s \in Slots, GrantToggle(s) PROVE Known
  BY <1>7, ReadsIsCalm DEF GrantToggle, Known
<1>8. ASSUME NEW s \in Slots, GrantToggled(s) PROVE Known
  <2>1. PICK t : t = running[s].about
    OBVIOUS
  <2>2. t \in Values /\ Writes(s, With("obg_selected", t, data))
    BY <1>8, <2>1, AboutTyped DEF GrantToggled, Writes
  <2>3. Calm
    BY <2>2, WritesIsCalm
  <2> QED
    BY <2>3 DEF Known
<1>9. ASSUME NEW s \in Slots, GrantConfirm(s) PROVE Known
  <2>1. PICK t : t = running[s].about
    OBVIOUS
  <2>2. t \in Values /\ Saves(s, t, "obg_selected")
    BY <1>9, <2>1, AboutTyped DEF GrantConfirm, Saves, Goes
  <2> QED
    BY <2>2, SavesIsCalm DEF Known
<1>10. ASSUME NEW s \in Slots, GrantBack(s) PROVE Known
  BY <1>10, CalmHandlers DEF GrantBack, Known
<1>11. ASSUME NEW s \in Slots, NEW t \in Subjects, NEW h, Press(s, h, t) PROVE Known
  BY <1>11, CalmArrivals DEF Known
<1> QED
  BY <1>1, <1>2, <1>3, <1>4, <1>5, <1>6, <1>7, <1>8, <1>9, <1>10, <1>11 DEF GrantsNext

LEMMA LocationSteps == ASSUME Typed, LocationNext PROVE Known
<1> USE ValuesThere, OtherQuestions
<1>1. ASSUME NEW t \in Subjects, ShowInbounds(t), HandlersCalm,
             UNCHANGED <<family, asked, acted, last>>
      PROVE  Known
  <2>1. Calm
    BY <1>1, LoadIsCalm DEF ShowInbounds
  <2> QED
    BY <2>1 DEF Known
<1>2. ASSUME NEW s \in Slots, NEW t \in Subjects, LocationPanel(s, t) PROVE Known
  <2>1. HandlersCalm
    BY <1>2, HandlersStayCalm DEF LocationPanel
  <2> QED
    BY <1>1, <1>2, <2>1 DEF LocationPanel, Later, Silent
<1>3. ASSUME NEW s \in Slots, Label(s, "btn_change_inbound_location") PROVE Known
  BY <1>3, CalmArrivals DEF Known
<1>4. ASSUME NEW s \in Slots, LocationStart(s) PROVE Known
  <2>1. HandlersCalm
    BY <1>4, HandlersStayCalm DEF LocationStart
  <2>2. CASE waiting' = "choosing_panel" /\ data' = Empty
    <3>1. DOMAIN data' = {} /\ DataTyped /\ NothingGiven
      BY <2>2 DEF DataTyped, NothingGiven, Empty
    <3>2. Calm
      BY <1>4, <2>1, <2>2, <3>1 DEF LocationStart, Later, Silent, Calm
    <3> QED
      BY <3>2 DEF Known
  <2>3. CASE Clear
    <3>1. Calm
      BY <1>4, <2>1, <2>3, CalmWithin DEF LocationStart, Later, Silent
    <3> QED
      BY <3>1 DEF Known
  <2>4. CASE \E t \in Subjects : ShowInbounds(t)
    BY <1>1, <1>4, <2>1, <2>4 DEF LocationStart, Later, Silent
  <2> QED
    BY <1>4, <2>2, <2>3, <2>4 DEF LocationStart
<1>5. ASSUME NEW s \in Slots, LocationToggle(s) PROVE Known
  BY <1>5, ReadsIsCalm DEF LocationToggle, Known
<1>6. ASSUME NEW s \in Slots, LocationToggled(s) PROVE Known
  <2>1. PICK t : t = running[s].about
    OBVIOUS
  <2>2. t \in Values /\ Writes(s, With("ib_selected", t, data))
    BY <1>6, <2>1, AboutTyped DEF LocationToggled, Writes
  <2>3. Calm
    BY <2>2, WritesIsCalm
  <2> QED
    BY <2>3 DEF Known
<1>7. ASSUME NEW s \in Slots, LocationConfirm(s) PROVE Known
  <2>1. PICK t : t = data["ib_panel_id"]
    OBVIOUS
  <2>2. t \in Values /\ Keep(s, "ibloc:confirm", "reading", t)
    BY <1>7, <2>1 DEF LocationConfirm, Typed, Keep
  <2>3. Calm
    BY <2>2, CalmHandlers
  <2> QED
    BY <2>3 DEF Known
<1>8. ASSUME NEW s \in Slots, LocationConfirmed(s) PROVE Known
  <2>1. HandlersCalm
    BY <1>8, HandlersStayCalm DEF LocationConfirmed
  <2>2. Calm
    BY <1>8, <2>1, CalmWithin DEF LocationConfirmed, Later, Silent
  <2> QED
    BY <2>2 DEF Known
<1>9. ASSUME NEW s \in Slots, LocationOutbound(s) PROVE Known
  <2>1. PICK t : t = running[s].about
    OBVIOUS
  <2>2. t \in Values /\ Saves(s, t, "ib_selected")
    BY <1>9, <2>1, AboutTyped DEF LocationOutbound, Saves, Goes
  <2> QED
    BY <2>2, SavesIsCalm DEF Known
<1>10. ASSUME NEW s \in Slots, LocationCancel(s) PROVE Known
  BY <1>10, CalmHandlers DEF LocationCancel, Known
<1>11. ASSUME NEW s \in Slots, NEW t \in Subjects, NEW h, Press(s, h, t) PROVE Known
  BY <1>11, CalmArrivals DEF Known
<1> QED
  BY <1>2, <1>3, <1>4, <1>5, <1>6, <1>7, <1>8, <1>9, <1>10, <1>11 DEF LocationNext

LEMMA EveryStepIsKnown == ASSUME Typed, ConversationsNext PROVE Known
  BY DialogSteps, EditSteps, ManageSteps, PanelwideSteps, CreateSteps, PanelSteps, BindSteps,
     DelegatesSteps, LimitsSteps, FinexSteps, WalletSteps, PricingSteps,
     AccessSteps, GroupsSteps, GrantsSteps, LocationSteps
  DEF ConversationsNext
-------------------------------------------------------------------------------
\* What the four kinds of steps keep.
LEMMA ActingFinite ==
  ASSUME NEW t
  PROVE  IsFiniteSet(Acting(t)) /\ Cardinality(Acting(t)) \in Nat
<1>1. Acting(t) \subseteq Slots /\ IsFiniteSet(Slots)
  BY DialogAssumption DEF Acting
<1>2. IsFiniteSet(Acting(t))
  BY <1>1, FS_Subset
<1> QED
  BY <1>2, FS_CardinalityType

LEMMA FewerActing ==
  ASSUME NEW t, Acting(t)' \subseteq Acting(t)
  PROVE  Cardinality(Acting(t)') \in Nat /\ Cardinality(Acting(t)') <= Cardinality(Acting(t))
<1>1. PICK A : A = Acting(t)'
  OBVIOUS
<1>2. IsFiniteSet(A) /\ Cardinality(A) <= Cardinality(Acting(t))
  BY <1>1, ActingFinite, FS_Subset
<1> QED
  BY <1>1, <1>2, FS_CardinalityType

LEMMA CalmKeeps ==
  ASSUME Typed, Accounted, OnlyThere, QuestionHasItsSubject, Calm
  PROVE  Typed' /\ Accounted' /\ OnlyThere' /\ QuestionHasItsSubject'
<1>1. Typed'
  BY DEF Typed, Calm, HandlersCalm, DataTyped
<1>2. Accounted'
  <2> SUFFICES ASSUME NEW t \in Subjects
               PROVE  acted'[t] + Cardinality(Acting(t)') + (IF Held(t)' THEN 1 ELSE 0) <= asked'[t]
    BY DEF Accounted
  <2>1. acted[t] + Cardinality(Acting(t)) + (IF Held(t) THEN 1 ELSE 0) <= asked[t]
    BY DEF Accounted
  <2>2. Cardinality(Acting(t)') \in Nat /\ Cardinality(Acting(t)') <= Cardinality(Acting(t))
    BY FewerActing DEF Calm, HandlersCalm
  <2>3. Held(t)' => Held(t)
    BY DEF Held, Calm, NothingGiven, KeptKeys
  <2>4. acted[t] \in Nat /\ asked[t] \in Nat /\ acted' = acted /\ asked' = asked
        /\ Cardinality(Acting(t)) \in Nat
    BY ActingFinite DEF Typed, Calm
  <2> QED
    BY <2>1, <2>2, <2>3, <2>4
<1>3. OnlyThere'
  BY DEF OnlyThere, Calm, SameQuestion
<1>4. QuestionHasItsSubject'
  <2> SUFFICES ASSUME waiting' \in DOMAIN SubjectKey
               PROVE  /\ SubjectKey[waiting'] \in DOMAIN data' /\ data'[SubjectKey[waiting']] = last'
    BY DEF QuestionHasItsSubject
  <2>1. SameQuestion /\ last' = last
    BY DEF Calm
  <2>2. SubjectKey[waiting] \in KeptKeys
    BY <2>1, Questions DEF SameQuestion
  <2> QED
    BY <2>1, <2>2 DEF SameQuestion, QuestionHasItsSubject
<1> QED
  BY <1>1, <1>2, <1>3, <1>4

LEMMA AsksKeeps ==
  ASSUME Typed, Accounted, OnlyThere, QuestionHasItsSubject, NEW k, NEW u \in Subjects, Asks(k, u)
  PROVE  Typed' /\ Accounted' /\ OnlyThere' /\ QuestionHasItsSubject'
<1>1. Typed'
  BY DEF Typed, Asks, HandlersCalm, DataTyped
<1>2. Accounted'
  <2> SUFFICES ASSUME NEW t \in Subjects
               PROVE  acted'[t] + Cardinality(Acting(t)') + (IF Held(t)' THEN 1 ELSE 0) <= asked'[t]
    BY DEF Accounted
  <2>1. acted[t] + Cardinality(Acting(t)) + (IF Held(t) THEN 1 ELSE 0) <= asked[t]
    BY DEF Accounted
  <2>2. Cardinality(Acting(t)') \in Nat /\ Cardinality(Acting(t)') <= Cardinality(Acting(t))
    BY FewerActing DEF Asks, HandlersCalm
  <2>3. acted[t] \in Nat /\ asked[t] \in Nat /\ acted' = acted /\ Cardinality(Acting(t)) \in Nat
    BY ActingFinite DEF Typed, Asks
  <2>4. CASE t = u
    <3>1. asked'[t] = asked[t] + 1
      BY <2>4 DEF Typed, Asks
    <3> QED
      BY <2>1, <2>2, <2>3, <3>1
  <2>5. CASE t # u
    <3>1. asked'[t] = asked[t]
      BY <2>5 DEF Typed, Asks
    <3>2. Held(t)' => Held(t)
      BY <2>5 DEF Held, Asks, KeptKeys
    <3> QED
      BY <2>1, <2>2, <2>3, <3>1, <3>2
  <2> QED
    BY <2>4, <2>5
<1>3. OnlyThere'
  BY DEF OnlyThere, Asks
<1>4. QuestionHasItsSubject'
  BY DEF QuestionHasItsSubject, OnlyThere, Asks
<1> QED
  BY <1>1, <1>2, <1>3, <1>4

\* The subject leaves the context with the handler.
LEMMA TakesKeeps ==
  ASSUME Typed, Accounted, OnlyThere, QuestionHasItsSubject, NEW s, NEW k, Takes(s, k)
  PROVE  Typed' /\ Accounted' /\ OnlyThere' /\ QuestionHasItsSubject'
<1>1. PICK u : u = data[k]
  OBVIOUS
<1>2. /\ s \in Slots /\ k \in TakenKeys /\ k \in DOMAIN data /\ u \in Values
      /\ Goes(s, "acting", u) /\ running[s].step = "begun"
      /\ DOMAIN data' = {} /\ DataTyped /\ waiting' = "none"
      /\ asked' = asked /\ acted' = acted
  <2>1. data' = Empty /\ DOMAIN data' = {}
    BY DEF Takes, Clear, Empty
  <2>2. DataTyped
    BY <2>1 DEF DataTyped, Empty
  <2> QED
    BY <1>1, <2>1, <2>2 DEF Takes, Clear, Goes, Typed
<1>3. /\ AreHandlers(running')
      /\ running'[s].step = "acting" /\ running'[s].about = u
      /\ \A v \in Slots \ {s} : running'[v] = running[v]
  BY <1>2, Moves DEF Typed
<1>4. Typed'
  BY <1>2, <1>3 DEF Typed, DataTyped
<1>5. Accounted'
  <2> SUFFICES ASSUME NEW t \in Subjects
               PROVE  acted'[t] + Cardinality(Acting(t)') + (IF Held(t)' THEN 1 ELSE 0) <= asked'[t]
    BY DEF Accounted
  <2>1. acted[t] + Cardinality(Acting(t)) + (IF Held(t) THEN 1 ELSE 0) <= asked[t]
    BY DEF Accounted
  <2>2. ~ Held(t)'
    BY <1>2 DEF Held
  <2>3. acted[t] \in Nat /\ asked[t] \in Nat /\ Cardinality(Acting(t)) \in Nat
    BY ActingFinite DEF Typed
  <2>4. CASE t = u
    <3>1. Held(t) /\ s \notin Acting(t) /\ Acting(t)' = Acting(t) \cup {s}
      BY <1>1, <1>2, <1>3, <2>4 DEF Held, Acting
    <3>2. Cardinality(Acting(t)') = Cardinality(Acting(t)) + 1
      BY <3>1, ActingFinite, FS_AddElement
    <3> QED
      BY <1>2, <2>1, <2>2, <2>3, <3>1, <3>2
  <2>5. CASE t # u
    <3>1. Acting(t)' \subseteq Acting(t)
      BY <1>3, <2>5 DEF Acting
    <3>2. Cardinality(Acting(t)') \in Nat /\ Cardinality(Acting(t)') <= Cardinality(Acting(t))
      BY <3>1, FewerActing
    <3> QED
      BY <1>2, <2>1, <2>2, <2>3, <3>2
  <2> QED
    BY <2>4, <2>5
<1> QED
  BY <1>2, <1>4, <1>5, Questions DEF OnlyThere, QuestionHasItsSubject

\* The handler is gone when the answer is applied.
LEMMA ActsKeeps ==
  ASSUME Typed, Accounted, OnlyThere, QuestionHasItsSubject, NEW s, Acts(s)
  PROVE  Typed' /\ Accounted' /\ OnlyThere' /\ QuestionHasItsSubject'
<1>1. PICK u : u = running[s].about
  OBVIOUS
<1>2. /\ s \in Slots /\ running[s].step = "acting" /\ running[s].about = u
      /\ running' = [running EXCEPT ![s] = Free]
      /\ acted' = [acted EXCEPT ![u] = @ + 1]
      /\ family' = family /\ waiting' = waiting /\ data' = data /\ asked' = asked /\ last' = last
  BY <1>1 DEF Acts, context
<1>3. /\ AreHandlers(running')
      /\ running'[s].step = "free"
      /\ \A v \in Slots \ {s} : running'[v] = running[v]
  BY <1>2, FreeHandler, OneMoves DEF Typed
<1>4. Typed'
  <2>1. acted' \in [Subjects -> Nat]
    <3>1. acted \in [Subjects -> Nat]
      BY DEF Typed
    <3>2. CASE u \in Subjects
      <4>1. acted[u] + 1 \in Nat
        BY <3>1, <3>2
      <4> QED
        BY <1>2, <3>1, <4>1
    <3>3. CASE u \notin Subjects
      BY <1>2, <3>1, <3>3
    <3> QED
      BY <3>2, <3>3
  <2>2. data' \in [DOMAIN data' -> Values] /\ asked' \in [Subjects -> Nat]
    BY <1>2 DEF Typed
  <2> QED
    BY <1>3, <2>1, <2>2 DEF Typed
<1>5. Accounted'
  <2> SUFFICES ASSUME NEW t \in Subjects
               PROVE  acted'[t] + Cardinality(Acting(t)') + (IF Held(t)' THEN 1 ELSE 0) <= asked'[t]
    BY DEF Accounted
  <2>1. acted[t] + Cardinality(Acting(t)) + (IF Held(t) THEN 1 ELSE 0) <= asked[t]
    BY DEF Accounted
  <2>2. Held(t)' <=> Held(t)
    BY <1>2 DEF Held
  <2>3. acted[t] \in Nat /\ asked[t] \in Nat /\ Cardinality(Acting(t)) \in Nat
    BY ActingFinite DEF Typed
  <2>4. CASE t = u
    <3>1. s \in Acting(t) /\ Acting(t)' = Acting(t) \ {s}
      BY <1>2, <1>3, <2>4 DEF Acting
    <3>2. Cardinality(Acting(t)') = Cardinality(Acting(t)) - 1
      BY <3>1, ActingFinite, FS_RemoveElement
    <3>3. acted'[t] = acted[t] + 1
      BY <1>2, <2>4 DEF Typed
    <3> QED
      BY <1>2, <2>1, <2>2, <2>3, <3>2, <3>3
  <2>5. CASE t # u
    <3>1. Acting(t)' \subseteq Acting(t)
      BY <1>3, <2>5 DEF Acting
    <3>2. Cardinality(Acting(t)') \in Nat /\ Cardinality(Acting(t)') <= Cardinality(Acting(t))
      BY <3>1, FewerActing
    <3>3. acted'[t] = acted[t]
      BY <1>2, <2>5 DEF Typed
    <3> QED
      BY <1>2, <2>1, <2>2, <2>3, <3>2, <3>3
  <2> QED
    BY <2>4, <2>5
<1> QED
  BY <1>2, <1>4, <1>5 DEF OnlyThere, QuestionHasItsSubject

LEMMA KnownKeeps ==
  ASSUME Typed, Accounted, OnlyThere, QuestionHasItsSubject, Known
  PROVE  Typed' /\ Accounted' /\ OnlyThere' /\ QuestionHasItsSubject'
  BY CalmKeeps, AsksKeeps, TakesKeeps, ActsKeeps DEF Known
-------------------------------------------------------------------------------
\* In "access" only its own handlers store ticks, and whose they are with them.
LEMMA DialogKeepsTicks ==
  ASSUME DialogNext
  PROVE  (UNCHANGED data \/ data' = Empty) /\ saved' = saved
  BY DEF DialogNext, Cancel, Answer, AnswerWithLabel, LabelClears, Refuse, Act, Save, Close, Clear, Silent,
         Later, context

LEMMA FamilyStays == ASSUME Typed, ConversationsNext PROVE family' = family
  BY EveryStepIsKnown DEF Known, Calm, Asks, Takes, Acts

LEMMA PairStored ==
  ASSUME NEW t, data' = With("access_target", t, With("access_ticks", t, data))
  PROVE  TicksOfTarget'
<1>1. PICK d : d = With("access_ticks", t, data)
  OBVIOUS
<1>2. "access_ticks" \in DOMAIN d /\ d["access_ticks"] = t
  BY <1>1 DEF With
<1>3. data' = With("access_target", t, d)
  BY <1>1
<1>4. /\ "access_ticks" \in DOMAIN data' /\ data'["access_ticks"] = t
      /\ data'["access_target"] = t
  BY <1>2, <1>3 DEF With
<1> QED
  BY <1>4 DEF TicksOfTarget

LEMMA TicksStay ==
  ASSUME Typed, TicksOfTarget, SavedForItsTarget, ConversationsNext
  PROVE  TicksOfTarget' /\ SavedForItsTarget'
<1>0. family' = family
  BY FamilyStays
<1>1. CASE family # "access"
  BY <1>0, <1>1 DEF TicksOfTarget, SavedForItsTarget
<1>2. CASE family = "access"
  <2>1. DialogNext \/ AccessNext
    BY <1>2 DEF ConversationsNext, EditNext, ManageNext, PanelwideNext, CreateNext, PanelNext,
                BindNext, DelegatesNext, LimitsNext, FinexNext, WalletNext, PricingNext,
                GroupsNext, GrantsNext, LocationNext
  <2>2. ASSUME UNCHANGED data \/ data' = Empty, saved' = saved
        PROVE  TicksOfTarget' /\ SavedForItsTarget'
    <3>1. DOMAIN Empty = {}
      BY DEF Empty
    <3>2. TicksOfTarget'
      BY <1>0, <2>2, <3>1 DEF TicksOfTarget
    <3> QED
      BY <1>0, <2>2, <3>2 DEF SavedForItsTarget
  <2>3. CASE DialogNext
    BY <2>2, <2>3, DialogKeepsTicks
  <2>4. ASSUME NEW s \in Slots, NEW t \in Subjects, PanelAccessPick(s, t)
        PROVE  TicksOfTarget' /\ SavedForItsTarget'
    <3>1. data' = With("access_target", t, With("access_ticks", t, data)) /\ saved' = saved
      BY <2>4 DEF PanelAccessPick, Opens, Load, Silent
    <3> QED
      BY <1>0, <3>1, PairStored DEF SavedForItsTarget
  <2>5. ASSUME NEW s \in Slots, PanelAccessToggle(s) PROVE TicksOfTarget' /\ SavedForItsTarget'
    BY <2>2, <2>5 DEF PanelAccessToggle, Reads, context, Silent
  <2>6. ASSUME NEW s \in Slots, PanelAccessToggled(s) PROVE TicksOfTarget' /\ SavedForItsTarget'
    <3>1. PICK t : t = running[s].about
      OBVIOUS
    <3>2. data' = With("access_target", t, With("access_ticks", t, data)) /\ saved' = saved
      BY <2>6, <3>1 DEF PanelAccessToggled, Writes, AccessKeys, Silent
    <3> QED
      BY <1>0, <3>2, PairStored DEF SavedForItsTarget
\* What is saved are the ticks of the target that is stored.
  <2>7. ASSUME NEW s \in Slots, PanelAccessSave(s) PROVE TicksOfTarget' /\ SavedForItsTarget'
    <3>1. /\ "access_target" \in DOMAIN data /\ data["access_target"] = running[s].about
          /\ saved' = saved \cup {<<running[s].about, data["access_ticks"]>>}
          /\ data' = data
      BY <2>7 DEF PanelAccessSave, Shown, Saves, context
    <3>2. TicksOfTarget'
      BY <1>0, <3>1 DEF TicksOfTarget
    <3>3. data["access_ticks"] = running[s].about
      BY <1>2, <3>1 DEF TicksOfTarget
    <3>4. SavedForItsTarget'
      BY <1>2, <3>1, <3>3 DEF SavedForItsTarget
    <3> QED
      BY <3>2, <3>4
  <2>8. ASSUME NEW s \in Slots, NEW t \in Subjects, NEW h,
               PressIn(s, "waiting_inbound_selection", h, t) \/ Press(s, h, t)
        PROVE  TicksOfTarget' /\ SavedForItsTarget'
    BY <2>2, <2>8 DEF PressIn, Press, context, Silent
  <2> QED
    BY <2>1, <2>3, <2>4, <2>5, <2>6, <2>7, <2>8 DEF AccessNext
<1> QED
  BY <1>1, <1>2
-------------------------------------------------------------------------------
LEMMA ConversationsStart == DialogInit => ConversationsInv
<1> SUFFICES ASSUME DialogInit PROVE ConversationsInv
  OBVIOUS
<1>1. data = Empty /\ DOMAIN data = {}
  BY DEF DialogInit, Empty
<1>2. data \in [DOMAIN data -> Values]
  BY <1>1 DEF Empty
<1>3. AreHandlers(running) /\ \A s \in Slots : running[s].step = "free"
  BY FreeHandler DEF DialogInit, AreHandlers
<1>4. Typed
  BY <1>2, <1>3 DEF DialogInit, Typed
<1>5. \A t \in Subjects : Acting(t) = {} /\ ~ Held(t) /\ asked[t] = 0 /\ acted[t] = 0
  BY <1>1, <1>3 DEF Acting, Held, DialogInit
<1>6. Accounted
  BY <1>5, FS_EmptySet DEF Accounted
<1>7. OnlyThere /\ QuestionHasItsSubject
  BY Questions DEF DialogInit, OnlyThere, QuestionHasItsSubject
<1>8. TicksOfTarget /\ SavedForItsTarget
  BY <1>1 DEF DialogInit, TicksOfTarget, SavedForItsTarget
<1> QED
  BY <1>4, <1>6, <1>7, <1>8 DEF ConversationsInv

LEMMA ConversationsStep ==
  ConversationsInv /\ [ConversationsNext]_dialogVars => ConversationsInv'
<1> SUFFICES ASSUME ConversationsInv, [ConversationsNext]_dialogVars PROVE ConversationsInv'
  OBVIOUS
<1> USE DEF ConversationsInv
<1>1. CASE ConversationsNext
  <2>1. Known
    BY <1>1, EveryStepIsKnown
  <2> QED
    BY <1>1, <2>1, KnownKeeps, TicksStay
<1>2. CASE UNCHANGED dialogVars
  <2>1. Calm
    BY <1>2, HandlersLeftAlone, ContextStays DEF dialogVars, Calm
  <2>2. TicksOfTarget' /\ SavedForItsTarget'
    BY <1>2 DEF dialogVars, context, TicksOfTarget, SavedForItsTarget
  <2> QED
    BY <2>1, <2>2, CalmKeeps
<1> QED
  BY <1>1, <1>2

LEMMA ConversationsAlways == ConversationsSpec => []ConversationsInv
  BY ConversationsStart, ConversationsStep, PTL DEF ConversationsSpec

\* However many texts the administrator sends, and however their handlers overlap, what is done
\* to a client, panel or wallet is done no more often than it was asked: every answer applied
\* was taken out of the context, together with its subject, by the handler that applies it.
THEOREM ConversationsAnswer == ConversationsSpec => []AnsweredAsAsked
<1>1. ConversationsInv => AnsweredAsAsked
  <2> SUFFICES ASSUME ConversationsInv, NEW t \in Subjects PROVE acted[t] <= asked[t]
    BY DEF AnsweredAsAsked
  <2>1. /\ acted[t] \in Nat /\ asked[t] \in Nat /\ Cardinality(Acting(t)) \in Nat
        /\ acted[t] + Cardinality(Acting(t)) + (IF Held(t) THEN 1 ELSE 0) <= asked[t]
    BY ActingFinite DEF ConversationsInv, Typed, Accounted
  <2> QED
    BY <2>1
<1> QED
  BY <1>1, ConversationsAlways, PTL

\* An open question of those that are answered once is about the subject that the question opened
\* last is about, however late its button's handler opened it: the subject and the state are
\* stored together, and nothing but a question or an empty context takes their place.
THEOREM ConversationsAbout == ConversationsSpec => []QuestionHasItsSubject
<1>1. ConversationsInv => QuestionHasItsSubject
  BY DEF ConversationsInv
<1> QED
  BY <1>1, ConversationsAlways, PTL

\* The inbounds saved for a reseller are those ticked for that reseller: the ticks and whose
\* they are never come from two keyboards.
THEOREM ConversationsSave == ConversationsSpec => []SavedForItsTarget
<1>1. ConversationsInv => SavedForItsTarget
  BY DEF ConversationsInv
<1> QED
  BY <1>1, ConversationsAlways, PTL
===============================================================================
