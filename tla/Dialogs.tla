-------------------------------- MODULE Dialogs --------------------------------
(***************************************************************************)
(* The conversation of the bot with one administrator: aiogram's context   *)
(* of the chat (the state it waits in and the data collected so far, both  *)
(* in MemoryStorage) and the updates that are being handled.  aiogram runs *)
(* every update in a task of its own, so handlers overlap: the handler of  *)
(* an update is chosen by the state at its arrival, and middlewares and    *)
(* access checks are awaited before the handler touches the context.  So   *)
(* the arrival of a text or a button is one step and what its handler does *)
(* to the context a later one: whatever comes in between, a Cancel as      *)
(* well, finds the context as it was, and the handler what is left of it.  *)
(* A call of MemoryStorage does not suspend, hence what a handler does to  *)
(* the context between two awaits is one step.                             *)
(*                                                                         *)
(* The data that names one subject (the three keys of a client, say) is    *)
(* always written together and is one key here.  A subject is the client,  *)
(* panel, wallet or delegate that the answer will change.                  *)
(*                                                                         *)
(* The handlers are in ClientDialogs, SetupDialogs, AdminDialogs and       *)
(* Pickers; a behaviour runs the handlers of one family, chosen at the     *)
(* start, because families share nothing but what is modelled here.        *)
(***************************************************************************)
EXTENDS Integers, FiniteSets, TLC

CONSTANTS Slots,        \* updates handled at the same time
          Subjects,     \* what questions are about
          Families,     \* the families of handlers to run
          MaxUpdates    \* bound: updates the administrator sends

\* No more than finitely many updates are handled at a time.
ASSUME DialogAssumption == IsFiniteSet(Slots) /\ MaxUpdates \in Nat

VARIABLES family,    \* the family of handlers that runs
          waiting,   \* the state of the context, or "none"
          data,      \* the data of the context: a function from the keys that are set
          running,   \* the handlers in progress
          asked,     \* how often the context was given this subject
          acted,     \* how often an answer was applied to this subject
          last,      \* the last subject the context was given
          saved,     \* selections saved: pairs of where and what it was loaded for
          updates    \* how many updates there were

context == <<waiting, data>>
dialogVars == <<family, context, running, asked, acted, last, saved, updates>>

Given == "given"       \* an answer whose value does not matter
Empty == [k \in {} |-> Given]
Free == [at |-> "nothing", step |-> "free", about |-> Given]

DialogInit ==
    /\ family \in Families
    /\ waiting = "none"
    /\ data = Empty
    /\ running = [s \in Slots |-> Free]
    /\ asked = [t \in Subjects |-> 0]
    /\ acted = [t \in Subjects |-> 0]
    /\ last = Given
    /\ saved = {}
    /\ updates = 0
-------------------------------------------------------------------------------
Update == updates < MaxUpdates /\ updates' = updates + 1 /\ UNCHANGED family
Later == UNCHANGED <<family, updates>>
Silent == UNCHANGED <<asked, acted, last, saved>>

Begin(s, h, t) == /\ running[s] = Free
                  /\ running' = [running EXCEPT ![s] = [at |-> h, step |-> "begun", about |-> t]]
Is(s, h, step) == running[s].at = h /\ running[s].step = step
Begun(s, h) == Is(s, h, "begun")
BegunAbout(s, h, t) == Begun(s, h) /\ running[s].about = t
Goes(s, step, t) == running' = [running EXCEPT ![s].step = step, ![s].about = t]
Ends(s) == running' = [running EXCEPT ![s] = Free]

\* state.clear()
Clear == waiting' = "none" /\ data' = Empty

\* A dictionary after a key is set.
With(k, v, d) == [x \in {k} \cup DOMAIN d |-> IF x = k THEN v ELSE d[x]]

\* state.update_data(...): of a plain answer, and of a subject.
Store(k, v) == data' = With(k, v, data)
Put(k, t) == /\ Store(k, t)
             /\ asked' = [asked EXCEPT ![t] = @ + 1]
             /\ last' = t
             /\ UNCHANGED <<acted, saved>>
-------------------------------------------------------------------------------
\* A text arrives while the context waits for one.
Answer(s) == /\ waiting # "none"
             /\ Update
             /\ Begin(s, waiting, Given)
             /\ UNCHANGED context
             /\ Silent

\* The label of a menu button sent as an answer: the handler of the state is chosen, the
\* language is read, the middleware clears whatever the context is by then, and the handler
\* is called with the label as its text.
AnswerWithLabel(s) == /\ waiting # "none"
                      /\ Update
                      /\ running[s] = Free
                      /\ running' = [running EXCEPT ![s] = [at |-> waiting, step |-> "labelled",
                                                           about |-> Given]]
                      /\ UNCHANGED context
                      /\ Silent
LabelClears(s) ==
    running[s].step = "labelled" /\ Goes(s, "begun", Given) /\ Clear /\ Later /\ Silent

\* The label of the menu button whose handler is h, whatever the state: the middleware clears
\* the context before the handler is called.
Label(s, h) == Update /\ Begin(s, h, Given) /\ Clear /\ Silent

\* A button of any message still in the chat, and one that only a certain state accepts.
Press(s, h, t) == Update /\ Begin(s, h, t) /\ UNCHANGED context /\ Silent
PressIn(s, p, h, t) == waiting = p /\ Press(s, h, t)

\* Cancel, in any state: the middleware and the handler clear the context, then "Operation
\* cancelled" is the reply.
Cancel == Update /\ Clear /\ UNCHANGED running /\ Silent
-------------------------------------------------------------------------------
\* Not an administrator, not a number, empty: the handler replies and the question stands.
Refuse(s) == running[s].step = "begun" /\ Ends(s) /\ Later /\ UNCHANGED context /\ Silent

\* The handler of a question's button h, of the message about t: the guards have been awaited,
\* then the subject is stored and the state set, with no await between them.
Ask(s, h, t, p, k) == BegunAbout(s, h, t) /\ Put(k, t) /\ waiting' = p /\ Ends(s) /\ Later

\* What a handler does to the context on the way, or at its end.
SetsState(s, h, p) ==
    Begun(s, h) /\ waiting' = p /\ UNCHANGED data /\ Ends(s) /\ Later /\ Silent
Clears(s, h) == Begun(s, h) /\ Clear /\ Ends(s) /\ Later /\ Silent

\* An answer of a longer dialog is stored and the next question asked.
Note(s, p, k, v, next) ==
    Begun(s, p) /\ Store(k, v) /\ waiting' = next /\ Ends(s) /\ Later /\ Silent

\* The same, for an answer that is the subject of what will be done.
NoteSubject(s, p, k, next) ==
    Begun(s, p) /\ (\E t \in Subjects : Put(k, t)) /\ waiting' = next /\ Ends(s) /\ Later

\* get_data() and clear(): the handler leaves with everything it needs, or with nothing.
Take(s, h, keys, k) ==
    /\ Begun(s, h)
    /\ Clear
    /\ IF keys \subseteq DOMAIN data THEN Goes(s, "acting", data[k]) ELSE Ends(s)
    /\ Later
    /\ Silent

\* The service is called for what was taken; access may be denied or the service fail.
Act(s) == /\ running[s].step = "acting"
          /\ Ends(s)
          /\ acted' \in {acted, [acted EXCEPT ![running[s].about] = @ + 1]}
          /\ Later
          /\ UNCHANGED <<context, asked, last, saved>>

\* A handler that leaves the context alone until it has called a service: one that sets
\* something, so that twice is as good as once.  An exception leaves the context as it is.
Keep(s, h, step, t) == Begun(s, h) /\ Goes(s, step, t) /\ Later /\ UNCHANGED context /\ Silent
Save(s) == /\ running[s].step = "saving"
           /\ Goes(s, "closing", running[s].about) \/ Ends(s)
           /\ Later
           /\ UNCHANGED context
           /\ Silent
Close(s) == running[s].step = "closing" /\ Clear /\ Ends(s) /\ Later /\ Silent

DialogNext ==
    \/ Cancel
    \/ \E s \in Slots : \/ Answer(s) \/ AnswerWithLabel(s) \/ LabelClears(s)
                        \/ Refuse(s) \/ Act(s) \/ Save(s) \/ Close(s)
===============================================================================
