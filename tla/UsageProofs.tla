------------------------------ MODULE UsageProofs ------------------------------
(***************************************************************************)
(* What is kept of a client's usage and what people are told, for any      *)
(* number of rounds, changes, notices and crashes.  The argument is about  *)
(* the calls that a round has left: what it says goes by the row it read   *)
(* before it stored another, and what it sends was in the queue and is     *)
(* sent by nobody else.  Two rounds at once disturb the first, and two     *)
(* flushes the second.                                                     *)
(***************************************************************************)
EXTENDS Usage, SequenceTheorems, WellFoundedInduction, TLAPS

UsageSteps == {"row", "row_again", "fetch", "store", "say", "search", "list", "old", "alert", "keep",
               "spent", "mark_gone", "report", "due", "send", "mark", "usage", "bind", "delete"}

\* What must have come right before a call.
MayFollow(before, call) ==
    /\ call = "fetch" => before \in {"row", "row_again"}
    /\ call = "store" => before = "fetch"
    /\ call = "say" => before = "store"
    /\ call = "alert" => before = "old"
    /\ call = "keep" => before = "alert"
    /\ call = "send" => before \in {"due", "mark"}

\* How the calls of a round follow each other: what was stored is said, and nothing comes after
\* the notices that are due.
Follows(todo) ==
    \A k \in 1..Len(todo) :
        /\ k > 1 => MayFollow(todo[k - 1], todo[k])
        /\ todo[k] = "store" => k < Len(todo) /\ todo[k + 1] = "say"
        /\ todo[k] = "due" => k + 1 = Len(todo) /\ todo[k + 1] = "send"
        /\ todo[k] = "send" => k = Len(todo)
        /\ todo[k] = "mark" => k = 1 /\ Len(todo) = 2 /\ todo[2] = "send"

\* Calls that go by what came before them.
Dependent == {"fetch", "store", "say", "alert", "keep", "send", "mark"}

\* A round from its first call on.
Begins(plan) ==
    /\ plan \in Seq(UsageSteps) /\ plan # <<>> /\ Follows(plan)
    /\ plan[1] \notin Dependent

Sending(todo) == \E k \in 1..Len(todo) : todo[k] = "send"
-------------------------------------------------------------------------------
(* The invariant.                                                                *)

IsRound(w) == w \in [todo : Seq(UsageSteps), prev : {w.prev}, saw : {w.saw}, old : {w.old}, due : SUBSET Nat]
Notice == [is : {"held", "failed", "queued", "sent", "lost"}, got : Nat, refused : BOOLEAN]

RoundsTyped ==
    /\ notices \in Seq(Notice)
    /\ round = [q \in Rounds |-> round[q]]
    /\ \A q \in Rounds : IsRound(round[q]) /\ Follows(round[q].todo)
    /\ service = [status |-> service.status, left |-> service.left]
    /\ service.status \in {"active", "suspended", "expired", "depleted", "deleted"}
    /\ service.status = "active" => service.left # 0

\* How often a notice was delivered tells where it is.
Delivered ==
    \A n \in 1..Len(notices) :
        /\ notices[n].is \in {"held", "failed", "lost"} => notices[n].got = 0
        /\ notices[n].is = "sent" => notices[n].got > 0 \/ notices[n].refused
        /\ notices[n].got > 1 => doubled
        /\ notices[n].is = "queued" /\ notices[n].got > 0 =>
              doubled \/ \E q \in Rounds : AtStep(q, "mark") /\ FirstDue(q) = n

\* Notices that are in hand were taken from the queue, by one flush.
InHand(w) ==
    /\ w.due # {} => w.todo # <<>> /\ w.todo[1] \in {"send", "mark"}
    /\ w.todo # <<>> /\ w.todo[1] = "mark" => w.due # {}
    /\ \A n \in w.due : n \in 1..Len(notices) /\ notices[n].is \in {"queued", "sent"}

FlushesApart ==
    /\ \A q \in Rounds : InHand(round[q])
    /\ \A q \in Rounds : AtStep(q, "mark") => notices[FirstDue(q)].got > 0
    /\ ~doubled =>
          /\ \A p, q \in Rounds : Sending(round[p].todo) /\ Sending(round[q].todo) => p = q
          /\ \A q \in Rounds : \A n \in round[q].due :
                /\ notices[n].is = "queued"
                /\ notices[n].got = 0 \/ (AtStep(q, "mark") /\ FirstDue(q) = n)

\* The user is to be told of what the row says: of a service that is suspended with nothing
\* left too, which will be depleted when it goes on.
ToBeTold(row) == row.status \in {"expired", "depleted"} \/ (row.status = "suspended" /\ row.left = 0)
Told == ToBeTold(service) => said # {}
Reported(states) == {states.traffic, states.expiry} \subseteq heard \cup {"normal"}

\* What the only round under way knows.
Knows(w) ==
    /\ w.todo[1] \in {"fetch", "store"} => w.prev = service /\ service.status # "deleted"
    /\ w.todo[1] = "say" => service = RowOf(w.saw) /\ (ToBeTold(service) => said # {} \/ Ends(w.prev, w.saw) # {})
    /\ w.todo[1] # "say" => Told
    /\ w.todo[1] = "alert" => w.old = alerts
    /\ w.todo[1] = "keep" => Reported(AlertsOf(w.saw))

Informed ==
    ~muddled =>
        /\ \A p, q \in Rounds : Busy(p) /\ Busy(q) => p = q
        /\ \A q \in Rounds : Busy(q) => Knows(round[q])
        /\ (\A q \in Rounds : ~Busy(q)) => Told
        /\ Reported(alerts)

UsageInv == RoundsTyped /\ Delivered /\ FlushesApart /\ Informed
-------------------------------------------------------------------------------
(* Rounds as sequences of calls.                                                 *)

\* Some number of a set is the least.
LEMMA LeastOf ==
  ASSUME NEW S, S \subseteq Nat, S # {}
  PROVE  \E n \in S : \A k \in S : n <= k
  <1>1. PICK n \in S : \A k \in S : ~(<<k, n>> \in OpToRel(<, Nat))
    BY NatLessThanWellFounded, WFMin
  <1>2. \A k \in S : ~(k < n)
    BY <1>1 DEF OpToRel
  <1>3. QED
    BY <1>2

\* What is left of a round after some of its calls.
Suffix(rest, todo, d) ==
    /\ rest \in Seq(UsageSteps) /\ d \in Nat /\ Len(rest) = Len(todo) - d
    /\ \A i \in 1..Len(rest) : rest[i] = todo[i + d]

LEMMA SuffixFollows ==
  ASSUME NEW todo \in Seq(UsageSteps), Follows(todo), NEW rest, NEW d \in Nat, Suffix(rest, todo, d)
  PROVE  Follows(rest) /\ (Sending(rest) => Sending(todo))
  <1>1. /\ rest \in Seq(UsageSteps) /\ Len(rest) = Len(todo) - d /\ Len(rest) \in Nat /\ Len(todo) \in Nat
        /\ \A i \in 1..Len(rest) : rest[i] = todo[i + d] /\ i + d \in 1..Len(todo)
    BY DEF Suffix
  <1>1a. Len(rest) = Len(todo) - d /\ Len(rest) \in Nat /\ Len(todo) \in Nat
    BY <1>1
  <1>2. ASSUME NEW i \in 1..Len(rest)
        PROVE  /\ i > 1 => MayFollow(rest[i - 1], rest[i])
               /\ rest[i] = "store" => i < Len(rest) /\ rest[i + 1] = "say"
               /\ rest[i] = "due" => i + 1 = Len(rest) /\ rest[i + 1] = "send"
               /\ rest[i] = "send" => i = Len(rest)
               /\ rest[i] = "mark" => i = 1 /\ Len(rest) = 2 /\ rest[2] = "send"
    <2>1. PICK k \in 1..Len(todo) : k = i + d /\ rest[i] = todo[k]
      BY <1>1
    <2>2. /\ k > 1 => MayFollow(todo[k - 1], todo[k])
          /\ todo[k] = "store" => k < Len(todo) /\ todo[k + 1] = "say"
          /\ todo[k] = "due" => k + 1 = Len(todo) /\ todo[k + 1] = "send"
          /\ todo[k] = "send" => k = Len(todo)
          /\ todo[k] = "mark" => k = 1 /\ Len(todo) = 2 /\ todo[2] = "send"
      BY DEF Follows
    <2>3. ASSUME i > 1 PROVE MayFollow(rest[i - 1], rest[i])
      <3>1. i - 1 \in 1..Len(rest) /\ (i - 1) + d = k - 1 /\ k > 1
        BY <1>1, <2>1, <2>3
      <3>2. rest[i - 1] = todo[k - 1]
        BY <1>1, <3>1
      <3>3. QED
        BY <2>1, <2>2, <3>1, <3>2
    <2>4. ASSUME rest[i] = "due" PROVE i + 1 = Len(rest) /\ rest[i + 1] = "send"
      <3>1. i + 1 = Len(rest) /\ i + 1 \in 1..Len(rest) /\ (i + 1) + d = k + 1
        <4>1. k + 1 = Len(todo)
          BY <2>1, <2>2, <2>4
        <4>2. QED
          BY <1>1a, <2>1, <4>1
      <3>2. rest[i + 1] = todo[k + 1]
        BY <1>1, <3>1
      <3>3. QED
        BY <2>1, <2>2, <2>4, <3>1, <3>2
    <2>5. rest[i] = "send" => i = Len(rest)
      <3>1. rest[i] = "send" => k = Len(todo)
        BY <2>1, <2>2
      <3>2. QED
        BY <1>1a, <2>1, <3>1
    <2>6. ASSUME rest[i] = "mark" PROVE i = 1 /\ Len(rest) = 2 /\ rest[2] = "send"
      <3>1. i = 1 /\ d = 0 /\ Len(rest) = 2 /\ todo[2] = "send" /\ 2 \in 1..Len(rest) /\ 2 + d = 2
        BY <1>1, <2>1, <2>2, <2>6
      <3>2. rest[2] = todo[2]
        BY <1>1, <3>1
      <3>3. QED
        BY <3>1, <3>2
    <2>6a. ASSUME rest[i] = "store" PROVE i < Len(rest) /\ rest[i + 1] = "say"
      <3>1. i < Len(rest) /\ i + 1 \in 1..Len(rest) /\ (i + 1) + d = k + 1
        <4>1. k < Len(todo)
          BY <2>1, <2>2, <2>6a
        <4>2. QED
          BY <1>1a, <2>1, <4>1
      <3>2. rest[i + 1] = todo[(i + 1) + d]
        BY <1>1, <3>1
      <3>3. QED
        BY <2>1, <2>2, <2>6a, <3>1, <3>2
    <2>7. QED
      BY <2>3, <2>4, <2>5, <2>6, <2>6a
  <1>3. Follows(rest)
    BY <1>2 DEF Follows
  <1>4. Sending(rest) => Sending(todo)
    BY <1>1 DEF Sending
  <1>5. QED
    BY <1>3, <1>4

\* The next call.
LEMMA TailFollows ==
  ASSUME NEW todo \in Seq(UsageSteps), todo # <<>>, Follows(todo), NEW rest, rest = Tail(todo)
  PROVE  /\ rest \in Seq(UsageSteps) /\ Follows(rest)
         /\ Sending(rest) => Sending(todo)
         /\ rest # <<>> => rest[1] # "mark" /\ MayFollow(todo[1], rest[1])
         /\ todo[1] = "store" => rest # <<>> /\ rest[1] = "say"
         /\ todo[1] \in {"due", "mark"} => rest # <<>> /\ rest[1] = "send" /\ Sending(todo)
         /\ todo[1] = "send" => rest = <<>> /\ Sending(todo) /\ Len(todo) = 1
  <1>1. /\ rest \in Seq(UsageSteps) /\ Len(rest) = Len(todo) - 1 /\ Len(todo) \in Nat \ {0}
        /\ \A k \in 1..Len(rest) : rest[k] = todo[k + 1]
        /\ 1 \in 1..Len(todo)
    OBVIOUS
  <1>2. Suffix(rest, todo, 1)
    BY <1>1 DEF Suffix
  <1>3. Follows(rest) /\ (Sending(rest) => Sending(todo))
    BY <1>2, SuffixFollows
  <1>4. ASSUME rest # <<>> PROVE rest[1] # "mark" /\ MayFollow(todo[1], rest[1])
    <2>1. 2 \in 1..Len(todo) /\ rest[1] = todo[2]
      BY <1>1, <1>4
    <2>2. MayFollow(todo[1], todo[2]) /\ todo[2] # "mark"
      BY <2>1 DEF Follows
    <2>3. QED
      BY <2>1, <2>2
  <1>5. ASSUME todo[1] \in {"due", "mark"} PROVE rest # <<>> /\ rest[1] = "send" /\ Sending(todo)
    <2>1. 1 \in 1..Len(todo) /\ Len(todo) \in Nat /\ Len(rest) = Len(todo) - 1
      BY <1>1
    <2>2. todo[1] = "due" => Len(todo) = 2 /\ todo[2] = "send"
      <3>1. todo[1] = "due" => 1 + 1 = Len(todo) /\ todo[1 + 1] = "send"
        BY <2>1 DEF Follows
      <3>2. QED
        BY <2>1, <3>1
    <2>3. todo[1] = "mark" => Len(todo) = 2 /\ todo[2] = "send"
      BY <2>1 DEF Follows
    <2>4. Len(todo) = 2 /\ todo[2] = "send"
      BY <1>5, <2>2, <2>3
    <2>5. rest # <<>> /\ rest[1] = todo[2] /\ 2 \in 1..Len(todo)
      <3>1. 1 \in 1..Len(rest)
        <4>1. PICK n : n = Len(rest) /\ n = Len(todo) - 1
          BY <2>1
        <4>2. n = 1
          BY <2>4, <4>1
        <4>3. 1 \in 1..n
          BY <4>2
        <4>4. QED
          BY <4>1, <4>3
      <3>2. rest[1] = todo[1 + 1]
        BY <1>1, <3>1
      <3>3. QED
        BY <2>1, <2>4, <3>1, <3>2
    <2>6. QED
      BY <2>4, <2>5 DEF Sending
  <1>6. ASSUME todo[1] = "send" PROVE rest = <<>> /\ Sending(todo) /\ Len(todo) = 1
    <2>1. Len(todo) = 1
      BY <1>1, <1>6 DEF Follows
    <2>2. QED
      BY <1>1, <1>6, <2>1 DEF Sending
  <1>7. ASSUME todo[1] = "store" PROVE rest # <<>> /\ rest[1] = "say"
    <2>1. 1 < Len(todo) /\ todo[2] = "say"
      <3>1. 1 < Len(todo) /\ todo[1 + 1] = "say"
        BY <1>1, <1>7 DEF Follows
      <3>2. QED
        BY <3>1
    <2>2. 1 \in 1..Len(rest)
      <3>1. PICK n : n = Len(rest) /\ n = Len(todo) - 1
        BY <1>1
      <3>2. Len(todo) \in Nat
        BY <1>1
      <3>3. 1 \in 1..n
        BY <2>1, <3>1, <3>2
      <3>4. QED
        BY <3>1, <3>3
    <2>3. rest[1] = todo[1 + 1]
      BY <1>1, <2>2
    <2>4. rest # <<>>
      <3>1. Len(rest) # 0
        BY <2>2
      <3>2. QED
        BY <3>1
    <2>5. QED
      BY <2>1, <2>3, <2>4
  <1>8. QED
    BY <1>1, <1>3, <1>4, <1>5, <1>6, <1>7

\* The next part.
LEMMA NextPartFollows ==
  ASSUME NEW todo \in Seq(UsageSteps), todo # <<>>, Follows(todo), NEW rest, rest = NextPart(todo)
  PROVE  /\ rest \in Seq(UsageSteps) /\ Follows(rest)
         /\ Sending(rest) => Sending(todo)
         /\ rest # <<>> => rest[1] \in Parts
         /\ todo[1] \in {"send", "mark"} => rest = <<>>
  <1>1. PICK starts : starts = {k \in 2..Len(todo) : todo[k] \in Parts}
    OBVIOUS
  <1>2. CASE starts = {}
    <2>1. rest = <<>>
      BY <1>1, <1>2 DEF NextPart
    <2>2. <<>> \in Seq(UsageSteps) /\ Follows(<<>>) /\ ~Sending(<<>>)
      BY DEF Follows, Sending
    <2>3. QED
      BY <2>1, <2>2
  <1>3. CASE starts # {}
    <2>1. PICK k : k = CHOOSE i \in starts : \A j \in starts : i <= j
      OBVIOUS
    <2>2. starts \subseteq Nat
      BY <1>1
    <2>3. k \in starts
      BY <1>3, <2>1, <2>2, LeastOf
    <2>4. rest = SubSeq(todo, k, Len(todo))
      BY <1>1, <1>3, <2>1 DEF NextPart
    <2>5. k \in 2..Len(todo) /\ todo[k] \in Parts
      BY <1>1, <2>3
    <2>6. PICK d \in Nat : k = d + 1 /\ d > 0
      BY <2>5
    <2>7. /\ rest \in Seq(UsageSteps) /\ Len(rest) = Len(todo) - d /\ Len(rest) > 0
          /\ \A i \in 1..Len(rest) : rest[i] = todo[i + d]
      BY <2>4, <2>5, <2>6
    <2>8. Suffix(rest, todo, d)
      BY <2>7 DEF Suffix
    <2>9. Follows(rest) /\ (Sending(rest) => Sending(todo))
      BY <2>8, SuffixFollows
    <2>10. rest[1] \in Parts
      <3>1. 1 \in 1..Len(rest) /\ 1 + d = k
        BY <2>6, <2>7
      <3>2. QED
        BY <2>5, <2>7, <3>1
    <2>11. todo[1] \notin {"send", "mark"}
      <3>1. 1 \in 1..Len(todo) /\ Len(todo) \in Nat
        BY <2>5
      <3>2. ASSUME todo[1] = "send" PROVE FALSE
        BY <2>5, <3>1, <3>2 DEF Follows
      <3>3. ASSUME todo[1] = "mark" PROVE FALSE
        BY <2>5, <3>1, <3>3 DEF Follows, Parts
      <3>4. QED
        BY <3>2, <3>3
    <2>12. QED
      BY <2>7, <2>9, <2>10, <2>11
  <1>4. QED
    BY <1>2, <1>3

\* Parts follow each other, as long as nothing is sent before the last.
Unsent(todo) == \A k \in 1..Len(todo) : todo[k] \notin {"due", "send", "mark"}

LEMMA JoinFollows ==
  ASSUME NEW some \in Seq(UsageSteps), Follows(some), Unsent(some),
         NEW rest \in Seq(UsageSteps), Follows(rest), rest # <<>> => rest[1] \notin Dependent,
         NEW todo, todo = some \o rest
  PROVE  /\ todo \in Seq(UsageSteps) /\ Follows(todo)
         /\ Sending(todo) => Sending(rest)
         /\ Unsent(rest) => Unsent(todo)
         /\ some # <<>> => todo # <<>> /\ todo[1] = some[1]
  <1>1. PICK d \in Nat, e \in Nat : d = Len(some) /\ e = Len(rest)
    OBVIOUS
  <1>2. /\ todo \in Seq(UsageSteps) /\ Len(todo) = d + e
        /\ \A k \in 1..Len(todo) : k <= d => todo[k] = some[k]
        /\ \A k \in 1..Len(todo) : k > d => todo[k] = rest[k - d]
        /\ some # <<>> => todo # <<>> /\ todo[1] = some[1]
    BY <1>1
  <1>2a. Len(todo) = d + e /\ Len(some) = d /\ Len(rest) = e
    BY <1>1, <1>2
  <1>3. ASSUME NEW k \in 1..Len(todo)
        PROVE  /\ k > 1 => MayFollow(todo[k - 1], todo[k])
               /\ todo[k] = "store" => k < Len(todo) /\ todo[k + 1] = "say"
               /\ todo[k] = "due" => k + 1 = Len(todo) /\ todo[k + 1] = "send"
               /\ todo[k] = "send" => k = Len(todo)
               /\ todo[k] = "mark" => k = 1 /\ Len(todo) = 2 /\ todo[2] = "send"
    <2>1. CASE k <= d
      <3>1. k \in 1..Len(some) /\ todo[k] = some[k] /\ (k > 1 => k - 1 \in 1..Len(todo) /\ k - 1 <= d)
        BY <1>1, <1>2, <2>1
      <3>2. k > 1 => MayFollow(some[k - 1], some[k])
        BY <3>1 DEF Follows
      <3>3. k > 1 => todo[k - 1] = some[k - 1]
        BY <1>2, <3>1
      <3>4. todo[k] \notin {"due", "send", "mark"}
        BY <3>1 DEF Unsent
      <3>5. ASSUME todo[k] = "store" PROVE k < Len(todo) /\ todo[k + 1] = "say"
        <4>1. k < Len(some) /\ some[k + 1] = "say"
          BY <3>1, <3>5 DEF Follows
        <4>2. k + 1 \in 1..Len(todo) /\ k + 1 <= d /\ k < Len(todo)
          BY <1>2a, <2>1, <3>1, <4>1
        <4>3. QED
          BY <1>2, <4>1, <4>2
      <3>6. QED
        BY <3>1, <3>2, <3>3, <3>4, <3>5
    <2>2. CASE k > d
      <3>0. k - d \in 1..e /\ todo[k] = rest[k - d]
        <4>1. k \in 1..(d + e)
          BY <1>2
        <4>2. k - d \in 1..e
          BY <1>1, <2>2, <4>1
        <4>3. QED
          BY <1>2, <2>2, <4>2
      <3>0a. PICK i \in 1..e : i = k - d
        BY <3>0
      <3>1. i \in 1..Len(rest) /\ k = i + d /\ todo[k] = rest[i]
        <4>1. k = i + d
          BY <1>1, <1>2, <3>0a
        <4>2. QED
          BY <1>1, <3>0, <3>0a, <4>1
      <3>2. /\ i > 1 => MayFollow(rest[i - 1], rest[i])
            /\ rest[i] = "store" => i < Len(rest) /\ rest[i + 1] = "say"
            /\ rest[i] = "due" => i + 1 = Len(rest) /\ rest[i + 1] = "send"
            /\ rest[i] = "send" => i = Len(rest)
            /\ rest[i] = "mark" => i = 1
        BY <3>1 DEF Follows
      <3>3. i = 1 => rest[1] \notin Dependent
        BY <3>1
      <3>4. k > 1 => MayFollow(todo[k - 1], todo[k])
        <4>1. CASE i = 1
          BY <3>1, <3>3, <4>1 DEF MayFollow, Dependent
        <4>2. CASE i > 1
          <5>1. k - 1 \in 1..Len(todo) /\ k - 1 > d /\ (k - 1) - d = i - 1
            BY <1>1, <1>2, <3>1, <4>2
          <5>2. todo[k - 1] = rest[i - 1]
            BY <1>2, <5>1
          <5>3. QED
            BY <3>1, <3>2, <4>2, <5>2
        <4>3. QED
          BY <3>1, <4>1, <4>2
      <3>5. ASSUME todo[k] = "due" PROVE k + 1 = Len(todo) /\ todo[k + 1] = "send"
        <4>1. i + 1 = Len(rest) /\ rest[i + 1] = "send"
          BY <3>1, <3>2, <3>5
        <4>2. k + 1 \in 1..Len(todo) /\ k + 1 > d /\ (k + 1) - d = i + 1 /\ k + 1 = Len(todo)
          BY <1>2a, <3>1, <4>1
        <4>3. QED
          BY <1>2, <4>1, <4>2
      <3>6. todo[k] = "send" => k = Len(todo)
        <4>1. todo[k] = "send" => i = Len(rest)
          BY <3>1, <3>2
        <4>2. QED
          BY <1>2a, <3>1, <4>1
      <3>7. todo[k] # "mark"
        BY <3>1, <3>2, <3>3 DEF Dependent
      <3>8. ASSUME todo[k] = "store" PROVE k < Len(todo) /\ todo[k + 1] = "say"
        <4>1. i < Len(rest) /\ rest[i + 1] = "say"
          BY <3>1, <3>2, <3>8
        <4>2. k + 1 \in 1..Len(todo) /\ k + 1 > d /\ (k + 1) - d = i + 1 /\ k < Len(todo)
          BY <1>2a, <3>1, <4>1
        <4>3. QED
          BY <1>2, <4>1, <4>2
      <3>9. QED
        BY <3>4, <3>5, <3>6, <3>7, <3>8
    <2>3. QED
      BY <1>1, <2>1, <2>2
  <1>4. Follows(todo)
    BY <1>3 DEF Follows
  <1>5. \A k \in 1..Len(todo) : k <= d => todo[k] \notin {"due", "send", "mark"}
    BY <1>1, <1>2 DEF Unsent
  <1>6. \A k \in 1..Len(todo) : k > d => k - d \in 1..Len(rest) /\ todo[k] = rest[k - d]
    BY <1>1, <1>2
  <1>7. Sending(todo) => Sending(rest)
    <2> SUFFICES ASSUME NEW k \in 1..Len(todo), todo[k] = "send" PROVE Sending(rest)
      BY DEF Sending
    <2>1. k > d
      BY <1>1, <1>5
    <2>2. QED
      BY <1>6, <2>1 DEF Sending
  <1>8. Unsent(rest) => Unsent(todo)
    <2> SUFFICES ASSUME Unsent(rest), NEW k \in 1..Len(todo) PROVE todo[k] \notin {"due", "send", "mark"}
      BY DEF Unsent
    <2>1. CASE k <= d
      BY <1>5, <2>1
    <2>2. CASE k > d
      BY <1>6, <2>2 DEF Unsent
    <2>3. QED
      BY <1>1, <2>1, <2>2
  <1>9. QED
    BY <1>2, <1>4, <1>7, <1>8

\* Every round begins with a call that goes by nothing that was read before.
LEMMA KindsBegin ==
  ASSUME NEW plan \in Kinds
  PROVE  Begins(plan)
  <1>1. Begins(RefreshAllServices)
    <2>1. PICK row, scan, spent, due : /\ row = SyncServiceRow /\ scan = ScanDelegatedAlerts
                                       /\ spent = CleanUpDepleted /\ due = FlushPending
      OBVIOUS
    <2>2. /\ row \in Seq(UsageSteps) /\ Follows(row) /\ Unsent(row) /\ row # <<>> /\ row[1] \notin Dependent
          /\ scan \in Seq(UsageSteps) /\ Follows(scan) /\ Unsent(scan) /\ scan[1] \notin Dependent
      BY <2>1 DEF SyncServiceRow, ScanDelegatedAlerts, UsageSteps, Follows, MayFollow, Unsent, Dependent
    <2>3. /\ spent \in Seq(UsageSteps) /\ Follows(spent) /\ Unsent(spent) /\ spent[1] \notin Dependent
          /\ due \in Seq(UsageSteps) /\ Follows(due) /\ due[1] \notin Dependent
      BY <2>1 DEF CleanUpDepleted, FlushPending, UsageSteps, Follows, MayFollow, Unsent, Dependent
    <2>4. PICK two, three, four : two = row \o scan /\ three = two \o spent /\ four = three \o due
      OBVIOUS
    <2>5. two \in Seq(UsageSteps) /\ Follows(two) /\ Unsent(two) /\ two # <<>> /\ two[1] = row[1]
      BY <2>2, <2>4, JoinFollows
    <2>6. three \in Seq(UsageSteps) /\ Follows(three) /\ Unsent(three) /\ three # <<>> /\ three[1] = row[1]
      BY <2>3, <2>4, <2>5, JoinFollows
    <2>7. four \in Seq(UsageSteps) /\ Follows(four) /\ four # <<>> /\ four[1] = row[1]
      BY <2>3, <2>4, <2>6, JoinFollows
    <2>8. four = RefreshAllServices
      BY <2>1, <2>4 DEF RefreshAllServices
    <2>9. QED
      BY <2>2, <2>7, <2>8 DEF Begins
  <1>3. Begins(HandleStart) /\ Begins(DeleteService)
    BY DEF HandleStart, BindService, DeleteService, Begins, UsageSteps, Follows, MayFollow, Dependent
  <1>4. Begins(BindMissingService)
    BY DEF BindMissingService, RefreshUserServices, SyncServiceRow, BindService,
           Begins, UsageSteps, Follows, MayFollow, Dependent
  <1>5. ASSUME NEW p \in SendServiceStatus PROVE Begins(p)
    <2>1. p \in {<<"usage", "bind">>, <<"usage", "bind", "row", "fetch", "store", "say">>,
                 <<"row", "fetch", "store", "say">>,
                 <<"row", "fetch", "store", "say", "usage", "bind", "row_again", "fetch", "store", "say">>}
      BY DEF SendServiceStatus, BindService, RefreshUserServices, SyncServiceRow
    <2>2. Begins(<<"usage", "bind">>) /\ Begins(<<"usage", "bind", "row", "fetch", "store", "say">>)
      BY DEF Begins, UsageSteps, Follows, MayFollow, Dependent
    <2>3. Begins(<<"row", "fetch", "store", "say">>)
      BY DEF Begins, UsageSteps, Follows, MayFollow, Dependent
    <2>4. Begins(<<"row", "fetch", "store", "say", "usage", "bind", "row_again", "fetch", "store", "say">>)
      BY DEF Begins, UsageSteps, Follows, MayFollow, Dependent
    <2>5. QED
      BY <2>1, <2>2, <2>3, <2>4
  <1>6. QED
    BY <1>1, <1>3, <1>4, <1>5 DEF Kinds
-------------------------------------------------------------------------------
(* What a step of one round has to bring.                                        *)

\* What is known of every round.
LEMMA RoundTyped ==
  ASSUME UsageInv, NEW q \in Rounds
  PROVE  /\ IsRound(round[q]) /\ round[q].todo \in Seq(UsageSteps) /\ Follows(round[q].todo)
         /\ InHand(round[q])
         /\ Busy(q) => round[q].todo # <<>> /\ Head(round[q].todo) = round[q].todo[1]
  <1>1. IsRound(round[q]) /\ Follows(round[q].todo) /\ InHand(round[q])
    BY DEF UsageInv, RoundsTyped, FlushesApart
  <1>2. round[q].todo \in Seq(UsageSteps)
    BY <1>1 DEF IsRound
  <1>3. QED
    BY <1>1, <1>2 DEF Busy

\* A round that has nothing left.
LEMMA NoRoundTyped ==
  /\ IsRound(NoRound) /\ Follows(NoRound.todo) /\ NoRound.todo = <<>> /\ NoRound.due = {}
  /\ ~Sending(NoRound.todo)
  <1>1. NoRound.todo = <<>> /\ NoRound.due = {}
    BY DEF NoRound
  <1>2. <<>> \in Seq(UsageSteps) /\ Follows(<<>>) /\ ~Sending(<<>>)
    BY DEF Follows, Sending
  <1>3. IsRound(NoRound)
    BY <1>2 DEF IsRound, NoRound
  <1>4. QED
    BY <1>1, <1>2, <1>3

\* A step after which round q stands at w, with no notice in hand.
Moves(q, w) ==
    /\ Busy(q) /\ MoveTo(q, w)
    /\ IsRound(w) /\ Follows(w.todo) /\ (Sending(w.todo) => Sending(round[q].todo))

\* The notices that are neither waiting nor sent are the only ones that change.
OneDelivered(x) == /\ x.is \in {"held", "failed", "queued", "lost"} => x.got = 0
                   /\ x.is = "sent" => x.got = 1 \/ (x.got = 0 /\ x.refused)
CalmNotices ==
    /\ notices' \in Seq(Notice) /\ Len(notices) <= Len(notices')
    /\ \A n \in 1..Len(notices) : notices[n].is \in {"queued", "sent"} => notices'[n] = notices[n]
    /\ \A n \in 1..Len(notices') :
          n > Len(notices) \/ notices[n].is \notin {"queued", "sent"} => OneDelivered(notices'[n])

NothingInHand(q, w) ==
    /\ CalmNotices /\ UNCHANGED doubled
    /\ round[q].todo[1] # "mark"
    /\ w.todo # <<>> => w.due = {} /\ w.todo[1] # "mark"

ServiceTyped == /\ service = [status |-> service.status, left |-> service.left]
                /\ service.status \in {"active", "suspended", "expired", "depleted", "deleted"}
                /\ service.status = "active" => service.left # 0

LEMMA MovesTyped ==
  ASSUME UsageInv, NEW q \in Rounds, NEW w, Moves(q, w), notices' \in Seq(Notice), ServiceTyped'
  PROVE  RoundsTyped'
  <1>1. PICK k : k = IF w.todo = <<>> THEN NoRound ELSE w
    OBVIOUS
  <1>2. round' = [round EXCEPT ![q] = k] /\ IsRound(k) /\ Follows(k.todo)
    BY <1>1, NoRoundTyped DEF Moves, MoveTo
  <1>3. round' = [p \in Rounds |-> round'[p]] /\ \A p \in Rounds : IsRound(round'[p]) /\ Follows(round'[p].todo)
    BY <1>2 DEF UsageInv, RoundsTyped
  <1>4. QED
    BY <1>3 DEF RoundsTyped, ServiceTyped

\* The notice that is to be marked is one of those in hand.
LEMMA MarksTheFirst ==
  ASSUME UsageInv, NEW q \in Rounds, round[q].due # {}
  PROVE  /\ FirstDue(q) \in round[q].due
         /\ FirstDue(q) \in 1..Len(notices) /\ notices[FirstDue(q)].is \in {"queued", "sent"}
  <1>1. round[q].due \subseteq Nat
    BY RoundTyped DEF IsRound
  <1>2. FirstDue(q) \in round[q].due
    BY <1>1, LeastOf DEF FirstDue
  <1>3. QED
    BY <1>2, RoundTyped DEF InHand

\* A round at the mark has a notice in hand.
LEMMA MarksOne ==
  ASSUME UsageInv, NEW q \in Rounds, AtStep(q, "mark")
  PROVE  round[q].due # {} /\ FirstDue(q) \in round[q].due
  <1>1. round[q].due # {}
    BY RoundTyped DEF AtStep, InHand
  <1>2. QED
    BY <1>1, MarksTheFirst

LEMMA StillInHand ==
  ASSUME UsageInv, CalmNotices, NEW p \in Rounds, round'[p] = round[p]
  PROVE  InHand(round[p])'
  <1>1. InHand(round[p]) /\ \A n \in round[p].due : n \in 1..Len(notices) /\ n \in 1..Len(notices')
    <2>1. InHand(round[p])
      BY DEF UsageInv, FlushesApart
    <2>2. Len(notices) <= Len(notices') /\ Len(notices) \in Nat /\ Len(notices') \in Nat
      BY DEF CalmNotices, UsageInv, RoundsTyped
    <2>3. QED
      BY <2>1, <2>2 DEF InHand
  <1>2. \A n \in round[p].due : notices'[n] = notices[n]
    BY <1>1 DEF InHand, CalmNotices
  <1>3. QED
    BY <1>1, <1>2 DEF InHand

LEMMA QuietFlush ==
  ASSUME UsageInv, NEW q \in Rounds, NEW w, Moves(q, w), NothingInHand(q, w)
  PROVE  Delivered' /\ FlushesApart'
  <1>1. PICK k : k = IF w.todo = <<>> THEN NoRound ELSE w
    OBVIOUS
  <1>2. /\ k.due = {} /\ (k.todo # <<>> => k.todo[1] # "mark")
        /\ Sending(k.todo) => Sending(round[q].todo)
        /\ k.todo # <<>> => k.todo \in Seq(UsageSteps)
    BY <1>1, NoRoundTyped DEF Moves, NothingInHand, IsRound
  <1>3. /\ round'[q] = k
        /\ \A p \in Rounds : p # q => round'[p] = round[p]
    BY <1>1 DEF UsageInv, RoundsTyped, Moves, MoveTo
  <1>4. CalmNotices /\ UNCHANGED doubled
    BY DEF NothingInHand
  <1>5. ~AtStep(q, "mark") /\ ~AtStep(q, "mark")'
    <2>1. ~AtStep(q, "mark")
      BY RoundTyped DEF AtStep, NothingInHand
    <2>2. ~AtStep(q, "mark")'
      BY <1>2, <1>3 DEF AtStep, Busy
    <2>3. QED
      BY <2>1, <2>2
  <1>6. \A p \in Rounds : p # q => AtStep(p, "mark")' = AtStep(p, "mark") /\ FirstDue(p)' = FirstDue(p)
    BY <1>3 DEF AtStep, Busy, FirstDue
  <1>7. Delivered'
    <2>1. \A n : (\E p \in Rounds : AtStep(p, "mark") /\ FirstDue(p) = n)
                 => (\E p \in Rounds : AtStep(p, "mark")' /\ FirstDue(p)' = n)
      BY <1>5, <1>6
    <2>2. ASSUME NEW n \in 1..Len(notices')
          PROVE  /\ notices'[n].is \in {"held", "failed", "lost"} => notices'[n].got = 0
                 /\ notices'[n].is = "sent" => notices'[n].got > 0 \/ notices'[n].refused
                 /\ notices'[n].got > 1 => doubled'
                 /\ notices'[n].is = "queued" /\ notices'[n].got > 0 =>
                       doubled' \/ \E p \in Rounds : AtStep(p, "mark")' /\ FirstDue(p)' = n
      <3>1. CASE n <= Len(notices) /\ notices[n].is \in {"queued", "sent"}
        <4>1. n \in 1..Len(notices) /\ notices'[n] = notices[n]
          BY <1>4, <3>1 DEF CalmNotices, UsageInv, RoundsTyped
        <4>2. QED
          BY <1>4, <2>1, <4>1 DEF UsageInv, Delivered
      <3>2. CASE ~(n <= Len(notices) /\ notices[n].is \in {"queued", "sent"})
        <4>1. OneDelivered(notices'[n]) /\ notices'[n] \in Notice
          BY <1>4, <3>2 DEF CalmNotices, UsageInv, RoundsTyped
        <4>2. QED
          BY <4>1 DEF OneDelivered, Notice
      <3>3. QED
        BY <3>1, <3>2
    <2>3. QED
      BY <2>2 DEF Delivered
  <1>8. \A p \in Rounds : InHand(round[p])'
    <2>1. InHand(k)'
      BY <1>2 DEF InHand
    <2>2. ASSUME NEW p \in Rounds, p # q PROVE InHand(round[p])'
      <3>1. InHand(round[p]) /\ round'[p] = round[p]
        BY <1>3, <2>2 DEF UsageInv, FlushesApart
      <3>2. QED
        BY <1>4, <3>1, StillInHand
    <2>3. QED
      BY <1>3, <2>1, <2>2
  <1>9. ASSUME NEW p \in Rounds, AtStep(p, "mark")' PROVE notices'[FirstDue(p)'].got > 0
    <2>1. p # q /\ AtStep(p, "mark") /\ FirstDue(p)' = FirstDue(p)
      BY <1>5, <1>6, <1>9
    <2>2. FirstDue(p) \in round[p].due
      BY <2>1, MarksOne
    <2>3. notices[FirstDue(p)].got > 0 /\ notices'[FirstDue(p)] = notices[FirstDue(p)]
      BY <1>4, <2>1, <2>2 DEF CalmNotices, UsageInv, FlushesApart, InHand
    <2>4. QED
      BY <2>1, <2>3
  <1>10. ASSUME ~doubled', NEW o \in Rounds, NEW p \in Rounds, Sending(round'[o].todo), Sending(round'[p].todo)
         PROVE  o = p
    <2>1. \A x \in Rounds : Sending(round'[x].todo) => Sending(round[x].todo)
      BY <1>2, <1>3
    <2>2. QED
      BY <1>4, <1>10, <2>1 DEF UsageInv, FlushesApart
  <1>11. ASSUME ~doubled', NEW p \in Rounds, NEW n \in round'[p].due
         PROVE  notices'[n].is = "queued" /\ (notices'[n].got = 0 \/ (AtStep(p, "mark")' /\ FirstDue(p)' = n))
    <2>1. p # q /\ n \in round[p].due
      BY <1>2, <1>3, <1>11
    <2>2. notices[n].is = "queued" /\ (notices[n].got = 0 \/ (AtStep(p, "mark") /\ FirstDue(p) = n))
      BY <1>4, <1>11, <2>1 DEF UsageInv, FlushesApart
    <2>3. notices'[n] = notices[n]
      BY <1>4, <2>1, <2>2 DEF CalmNotices, UsageInv, FlushesApart, InHand
    <2>4. QED
      BY <1>6, <2>1, <2>2, <2>3
  <1>12. QED
    BY <1>7, <1>8, <1>9, <1>10, <1>11 DEF FlushesApart

LEMMA MovesInformed ==
  ASSUME UsageInv, NEW q \in Rounds, NEW w, Moves(q, w),
         ~muddled' => ~muddled, ~muddled' /\ w.todo # <<>> => Knows(w)', ~muddled' /\ w.todo = <<>> => Told',
         ~muddled' => Reported(alerts)'
  PROVE  Informed'
  <1>1. PICK k : k = IF w.todo = <<>> THEN NoRound ELSE w
    OBVIOUS
  <1>2. round'[q] = k /\ \A p \in Rounds : p # q => round'[p] = round[p]
    BY <1>1 DEF UsageInv, RoundsTyped, Moves, MoveTo
  <1>3. SUFFICES ASSUME ~muddled'
                 PROVE  /\ \A p \in Rounds : Busy(p)' => p = q
                        /\ Busy(q)' => Knows(round[q])'
                        /\ ~Busy(q)' => Told'
                        /\ Reported(alerts)'
    BY DEF Informed
  <1>4. \A p \in Rounds : Busy(p) => p = q
    BY <1>3 DEF UsageInv, Informed, Moves
  <1>5. \A p \in Rounds : Busy(p)' => p = q
    BY <1>2, <1>4 DEF Busy
  <1>6. Busy(q)' => w.todo # <<>> /\ k = w
    BY <1>1, <1>2, NoRoundTyped DEF Busy
  <1>7. Busy(q)' => Knows(round[q])'
    BY <1>2, <1>3, <1>6
  <1>8. ~Busy(q)' => w.todo = <<>>
    BY <1>1, <1>2 DEF Busy
  <1>9. QED
    BY <1>3, <1>5, <1>7, <1>8

\* What the round under way knows, and what all the world does.
LEMMA KnowsNow ==
  ASSUME UsageInv, ~muddled
  PROVE  /\ \A q \in Rounds : Busy(q) => Knows(round[q]) /\ (round[q].todo[1] # "say" => Told)
         /\ (\A q \in Rounds : ~Busy(q)) => Told
         /\ Reported(alerts)
  BY DEF UsageInv, Informed, Knows

\* A round goes on with its next call.
LEMMA NextCall ==
  ASSUME UsageInv, NEW q \in Rounds, Busy(q), round[q].todo[1] # "mark", CalmNotices, UNCHANGED doubled,
         NEW w, IsRound(w), w.todo = Tail(round[q].todo), w.due = {}, MoveTo(q, w)
  PROVE  /\ Moves(q, w) /\ NothingInHand(q, w)
         /\ w.todo # <<>> => MayFollow(round[q].todo[1], w.todo[1])
         /\ round[q].todo[1] = "store" => w.todo # <<>> /\ w.todo[1] = "say"
  <1>1. round[q].todo \in Seq(UsageSteps) /\ Follows(round[q].todo) /\ round[q].todo # <<>>
    BY RoundTyped
  <1>2. /\ Follows(w.todo)
        /\ Sending(w.todo) => Sending(round[q].todo)
        /\ w.todo # <<>> => w.todo[1] # "mark" /\ MayFollow(round[q].todo[1], w.todo[1])
        /\ round[q].todo[1] = "store" => w.todo # <<>> /\ w.todo[1] = "say"
    BY <1>1, TailFollows
  <1>3. QED
    BY <1>2 DEF Moves, NothingInHand

\* A round goes on with its next part.
LEMMA NextPartTaken ==
  ASSUME UsageInv, NEW q \in Rounds, Busy(q), round[q].todo[1] # "mark", CalmNotices, UNCHANGED doubled,
         NEW w, w = Skips(q), MoveTo(q, w)
  PROVE  Moves(q, w) /\ NothingInHand(q, w) /\ (w.todo # <<>> => w.todo[1] \in Parts)
  <1>1. round[q].todo \in Seq(UsageSteps) /\ Follows(round[q].todo) /\ round[q].todo # <<>> /\ IsRound(round[q])
    BY RoundTyped
  <1>2. PICK rest : rest = NextPart(round[q].todo)
    OBVIOUS
  <1>3. w = [round[q] EXCEPT !.todo = rest]
    BY <1>2 DEF Skips
  <1>4. /\ rest \in Seq(UsageSteps) /\ Follows(rest)
        /\ Sending(rest) => Sending(round[q].todo)
        /\ rest # <<>> => rest[1] \in Parts
        /\ round[q].todo[1] \in {"send", "mark"} => rest = <<>>
    BY <1>1, <1>2, NextPartFollows
  <1>5. IsRound(w) /\ w.todo = rest /\ w.due = round[q].due
    BY <1>1, <1>3, <1>4 DEF IsRound
  <1>6. w.todo # <<>> => w.due = {}
    BY <1>4, <1>5, RoundTyped DEF InHand
  <1>7. w.todo # <<>> => w.todo[1] # "mark"
    BY <1>4, <1>5 DEF Parts
  <1>8. QED
    BY <1>4, <1>5, <1>6, <1>7 DEF Moves, NothingInHand

\* Steps that leave the notices alone are calm.
LEMMA NoticesLeft ==
  ASSUME UsageInv, UNCHANGED notices
  PROVE  CalmNotices
  BY DEF UsageInv, RoundsTyped, Delivered, CalmNotices, OneDelivered, Notice

\* A step of a round after which what is told is as it was.
LEMMA Onwards ==
  ASSUME UsageInv, NEW q \in Rounds, NEW w, Moves(q, w), NothingInHand(q, w),
         UNCHANGED <<service, alerts, said, heard, muddled>>, round[q].todo[1] # "say",
         ~muddled /\ w.todo # <<>> => Knows(w) \/ w.todo[1] \notin Dependent
  PROVE  UsageInv'
  <1>1. notices' \in Seq(Notice) /\ ServiceTyped'
    BY DEF NothingInHand, CalmNotices, UsageInv, RoundsTyped, ServiceTyped
  <1>2. RoundsTyped'
    BY <1>1, MovesTyped
  <1>3. Delivered' /\ FlushesApart'
    BY QuietFlush
  <1>4. ~muddled => Told /\ Reported(alerts)
    BY KnowsNow DEF Moves
  <1>5. ~muddled' /\ w.todo # <<>> => Knows(w)'
    <2>1. CASE w.todo[1] \notin Dependent
      BY <1>4, <2>1 DEF Knows, Told, ToBeTold, Dependent
    <2>2. CASE w.todo[1] \in Dependent
      BY <2>2 DEF Knows, Told, ToBeTold, Reported
    <2>3. QED
      BY <2>1, <2>2
  <1>6. ~muddled' => ~muddled /\ Told' /\ Reported(alerts)'
    BY <1>4 DEF Told, ToBeTold, Reported
  <1>7. Informed'
    BY <1>5, <1>6, MovesInformed
  <1>8. QED
    BY <1>2, <1>3, <1>7 DEF UsageInv

\* A step of a round after which other things are told.
LEMMA OnwardsTold ==
  ASSUME UsageInv, NEW q \in Rounds, NEW w, Moves(q, w), NothingInHand(q, w), ServiceTyped',
         ~muddled' => ~muddled, ~muddled' /\ w.todo # <<>> => Knows(w)', ~muddled' /\ w.todo = <<>> => Told',
         ~muddled' => Reported(alerts)'
  PROVE  UsageInv'
  <1>1. notices' \in Seq(Notice)
    BY DEF NothingInHand, CalmNotices
  <1>2. RoundsTyped'
    BY <1>1, MovesTyped
  <1>3. Delivered' /\ FlushesApart'
    BY QuietFlush
  <1>4. Informed'
    BY MovesInformed
  <1>5. QED
    BY <1>2, <1>3, <1>4 DEF UsageInv

\* A step of a round that goes on with its next call, whatever that is.
LEMMA PlainCall ==
  ASSUME UsageInv, NEW q \in Rounds, Busy(q), round[q].todo[1] \notin {"mark", "say", "row", "row_again",
         "fetch", "store", "old", "alert", "due"}, CalmNotices,
         UNCHANGED <<service, alerts, said, heard, muddled, doubled>>,
         NEW w, IsRound(w), w.todo = Tail(round[q].todo), w.due = {}, MoveTo(q, w)
  PROVE  UsageInv'
  <1>1. /\ Moves(q, w) /\ NothingInHand(q, w)
        /\ w.todo # <<>> => MayFollow(round[q].todo[1], w.todo[1])
    BY NextCall
  <1>2. w.todo # <<>> => w.todo[1] \notin Dependent
    BY <1>1 DEF MayFollow, Dependent, NothingInHand
  <1>3. QED
    BY <1>1, <1>2, Onwards

\* A step of a round that goes on with its next part.
LEMMA PlainPart ==
  ASSUME UsageInv, NEW q \in Rounds, Busy(q), round[q].todo[1] \notin {"mark", "say"},
         UNCHANGED <<notices, service, alerts, said, heard, muddled, doubled>>, MoveTo(q, Skips(q))
  PROVE  UsageInv'
  <1>1. PICK w : w = Skips(q)
    OBVIOUS
  <1>2. MoveTo(q, w)
    BY <1>1 DEF MoveTo
  <1>3. Moves(q, w) /\ NothingInHand(q, w) /\ (w.todo # <<>> => w.todo[1] \in Parts)
    BY <1>1, <1>2, NextPartTaken, NoticesLeft
  <1>4. w.todo # <<>> => w.todo[1] \notin Dependent
    BY <1>3 DEF Parts, Dependent
  <1>5. QED
    BY <1>3, <1>4, Onwards

\* What stays in a round whose next call is taken.
LEMMA AfterTyped ==
  ASSUME UsageInv, NEW q \in Rounds, Busy(q), round[q].todo[1] \notin {"send", "mark"}
  PROVE  /\ round[q] = [todo |-> round[q].todo, prev |-> round[q].prev, saw |-> round[q].saw,
                        old |-> round[q].old, due |-> {}]
         /\ IsRound(After(q)) /\ After(q).todo = Tail(round[q].todo) /\ After(q).due = {}
  <1>1. round[q].todo \in Seq(UsageSteps) /\ round[q].todo # <<>> /\ IsRound(round[q])
    BY RoundTyped
  <1>2. round[q].due = {}
    BY RoundTyped DEF InHand
  <1>3. Tail(round[q].todo) \in Seq(UsageSteps)
    BY <1>1
  <1>4. QED
    BY <1>1, <1>2, <1>3 DEF IsRound, After
-------------------------------------------------------------------------------
(* Every call keeps the invariant.                                               *)

LEMMA ReadRowKeeps ==
  ASSUME UsageInv, NEW q \in Rounds, ReadRow(q)
  PROVE  UsageInv'
  <1>1. Busy(q) /\ round[q].todo[1] \in {"row", "row_again"}
    BY RoundTyped DEF ReadRow, AtStep
  <1>2. CASE service.status = "deleted"
    BY <1>1, <1>2, PlainPart DEF ReadRow, Learns, usageGhosts
  <1>3. CASE service.status # "deleted"
    <2>1. PICK w : w = [After(q) EXCEPT !.prev = service]
      OBVIOUS
    <2>2. MoveTo(q, w) /\ UNCHANGED <<service, alerts, notices, said, heard, muddled, doubled>>
      BY <1>3, <2>1 DEF ReadRow, Learns, MoveTo, usageGhosts
    <2>3. IsRound(w) /\ w.todo = Tail(round[q].todo) /\ w.due = {} /\ w.prev = service
      BY <1>1, <2>1, AfterTyped DEF IsRound
    <2>4. /\ Moves(q, w) /\ NothingInHand(q, w)
          /\ w.todo # <<>> => MayFollow(round[q].todo[1], w.todo[1])
      BY <1>1, <2>2, <2>3, NextCall, NoticesLeft
    <2>5. ~muddled /\ w.todo # <<>> => Knows(w) \/ w.todo[1] \notin Dependent
      <3>1. ~muddled => Told
        BY <1>1, KnowsNow
      <3>2. w.todo # <<>> => w.todo[1] \in {"fetch"} \/ w.todo[1] \notin Dependent
        BY <1>1, <2>4 DEF MayFollow, Dependent, NothingInHand
      <3>3. w.todo[1] = "fetch" /\ Told => Knows(w)
        BY <1>3, <2>3 DEF Knows
      <3>4. QED
        BY <3>1, <3>2, <3>3
    <2>6. QED
      BY <1>1, <2>2, <2>4, <2>5, Onwards
  <1>4. QED
    BY <1>2, <1>3

LEMMA FetchKeeps ==
  ASSUME UsageInv, NEW q \in Rounds, Fetch(q)
  PROVE  UsageInv'
  <1>1. Busy(q) /\ round[q].todo[1] = "fetch"
    BY RoundTyped DEF Fetch, AtStep
  <1>2. ~muddled => Told /\ round[q].prev = service /\ service.status # "deleted"
    BY <1>1, KnowsNow DEF Knows
  <1>3. UNCHANGED <<service, alerts, notices, said, heard, muddled, doubled>>
    BY DEF Fetch, Learns, usageGhosts
  <1>4. ASSUME MoveTo(q, [After(q) EXCEPT !.saw = meter]) PROVE UsageInv'
    <2>1. PICK w : w = [After(q) EXCEPT !.saw = meter]
      OBVIOUS
    <2>2. MoveTo(q, w)
      BY <1>4, <2>1 DEF MoveTo
    <2>3. IsRound(w) /\ w.todo = Tail(round[q].todo) /\ w.due = {} /\ w.prev = round[q].prev
      BY <1>1, <2>1, AfterTyped DEF IsRound, After
    <2>4. /\ Moves(q, w) /\ NothingInHand(q, w)
          /\ w.todo # <<>> => MayFollow(round[q].todo[1], w.todo[1])
      BY <1>1, <1>3, <2>2, <2>3, NextCall, NoticesLeft
    <2>5. w.todo # <<>> => w.todo[1] \in {"store"} \/ w.todo[1] \notin Dependent
      BY <1>1, <2>4 DEF MayFollow, Dependent, NothingInHand
    <2>6. ~muddled /\ w.todo[1] = "store" => Knows(w)
      BY <1>2, <2>3 DEF Knows
    <2>7. QED
      BY <1>1, <1>3, <2>4, <2>5, <2>6, Onwards
  <1>5. ASSUME MoveTo(q, [round[q] EXCEPT !.todo = <<"search", "mark_gone">> \o NextPart(@)]) PROVE UsageInv'
    <2>1. PICK some, rest, todo :
            some = <<"search", "mark_gone">> /\ rest = NextPart(round[q].todo) /\ todo = some \o rest
      OBVIOUS
    <2>2. PICK w : w = [round[q] EXCEPT !.todo = todo]
      OBVIOUS
    <2>3. MoveTo(q, w)
      BY <1>5, <2>1, <2>2 DEF MoveTo
    <2>4. rest \in Seq(UsageSteps) /\ Follows(rest) /\ (rest # <<>> => rest[1] \in Parts)
          /\ (Sending(rest) => Sending(round[q].todo))
      BY <1>1, <2>1, RoundTyped, NextPartFollows
    <2>5. some \in Seq(UsageSteps) /\ Follows(some) /\ Unsent(some) /\ some # <<>> /\ some[1] = "search"
      BY <2>1 DEF UsageSteps, Follows, MayFollow, Unsent
    <2>6. /\ todo \in Seq(UsageSteps) /\ Follows(todo) /\ todo # <<>> /\ todo[1] = "search"
          /\ Sending(todo) => Sending(rest)
      <3>1. rest # <<>> => rest[1] \notin Dependent
        BY <2>4 DEF Parts, Dependent
      <3>2. QED
        BY <2>1, <2>4, <2>5, <3>1, JoinFollows
    <2>7. IsRound(w) /\ w.todo = todo /\ w.due = {}
      <3>1. IsRound(round[q]) /\ round[q].due = {}
        BY <1>1, RoundTyped DEF InHand
      <3>2. QED
        BY <2>2, <2>6, <3>1 DEF IsRound
    <2>8. Moves(q, w) /\ NothingInHand(q, w)
      BY <1>1, <1>3, <2>3, <2>4, <2>6, <2>7, NoticesLeft DEF Moves, NothingInHand
    <2>9. w.todo[1] \notin Dependent
      BY <2>6, <2>7 DEF Dependent
    <2>10. QED
      BY <1>1, <1>3, <2>8, <2>9, Onwards
  <1>6. QED
    BY <1>4, <1>5 DEF Fetch, Learns

\* Calls that only read something for the next, or nothing.
LEMMA LearnsKeeps ==
  ASSUME UsageInv, NEW q \in Rounds,
         Search(q) \/ FetchToBind(q) \/ ListForScan(q) \/ NothingSpent(q) \/ AllSent(q)
  PROVE  UsageInv'
  <1>1. Busy(q) /\ round[q].todo[1] \in {"search", "usage", "list", "spent", "send"}
    BY RoundTyped DEF Search, FetchToBind, ListForScan, NothingSpent, AllSent, AtStep
  <1>2. UNCHANGED <<service, alerts, notices, said, heard, muddled, doubled>>
    BY DEF Search, FetchToBind, ListForScan, NothingSpent, AllSent, Learns, usageGhosts
  <1>3. ASSUME MoveTo(q, Skips(q)) PROVE UsageInv'
    BY <1>1, <1>2, <1>3, PlainPart
  <1>4. ASSUME NEW w, w = After(q) \/ w = [After(q) EXCEPT !.saw = meter], MoveTo(q, w),
               round[q].due = {}
        PROVE  UsageInv'
    <2>1. IsRound(round[q]) /\ round[q].todo \in Seq(UsageSteps) /\ Tail(round[q].todo) \in Seq(UsageSteps)
      BY <1>1, RoundTyped
    <2>2. IsRound(w) /\ w.todo = Tail(round[q].todo) /\ w.due = {}
      BY <1>4, <2>1 DEF IsRound, After
    <2>3. QED
      BY <1>1, <1>2, <1>4, <2>2, PlainCall, NoticesLeft
  <1>5. PICK w, v : w = After(q) /\ v = [After(q) EXCEPT !.saw = meter]
    OBVIOUS
  <1>6. round[q].due = {}
    <2>1. CASE round[q].todo[1] = "send"
      <3>1. \A step : AtStep(q, step) => round[q].todo[1] = step
        BY RoundTyped DEF AtStep
      <3>2. AllSent(q)
        BY <2>1, <3>1 DEF Search, FetchToBind, ListForScan, NothingSpent
      <3>3. QED
        BY <3>2 DEF AllSent
    <2>2. CASE round[q].todo[1] # "send"
      BY <1>1, <2>2, RoundTyped DEF InHand
    <2>3. QED
      BY <2>1, <2>2
  <1>7. MoveTo(q, w) => UsageInv'
    BY <1>4, <1>5, <1>6
  <1>8. MoveTo(q, v) => UsageInv'
    BY <1>4, <1>5, <1>6
  <1>9. MoveTo(q, Skips(q)) \/ MoveTo(q, w) \/ MoveTo(q, v)
    BY <1>5 DEF Search, FetchToBind, ListForScan, NothingSpent, AllSent, Learns, MoveTo
  <1>10. QED
    BY <1>3, <1>7, <1>8, <1>9

LEMMA ReadAlertsKeeps ==
  ASSUME UsageInv, NEW q \in Rounds, ReadAlerts(q)
  PROVE  UsageInv'
  <1>1. Busy(q) /\ round[q].todo[1] = "old"
    BY RoundTyped DEF ReadAlerts, AtStep
  <1>2. PICK w : w = [After(q) EXCEPT !.old = alerts]
    OBVIOUS
  <1>3. MoveTo(q, w) /\ UNCHANGED <<service, alerts, notices, said, heard, muddled, doubled>>
    BY <1>2 DEF ReadAlerts, Learns, MoveTo, usageGhosts
  <1>4. IsRound(w) /\ w.todo = Tail(round[q].todo) /\ w.due = {} /\ w.old = alerts
    BY <1>1, <1>2, AfterTyped DEF IsRound
  <1>5. /\ Moves(q, w) /\ NothingInHand(q, w)
        /\ w.todo # <<>> => MayFollow(round[q].todo[1], w.todo[1])
    BY <1>1, <1>3, <1>4, NextCall, NoticesLeft
  <1>6. w.todo # <<>> => w.todo[1] = "alert" \/ w.todo[1] \notin Dependent
    BY <1>1, <1>5 DEF MayFollow, Dependent, NothingInHand
  <1>7. ~muddled => Told
    BY <1>1, KnowsNow
  <1>8. w.todo[1] = "alert" /\ Told => Knows(w)
    BY <1>4 DEF Knows
  <1>9. QED
    BY <1>1, <1>3, <1>5, <1>6, <1>7, <1>8, Onwards

LEMMA DeleteMeterKeeps ==
  ASSUME UsageInv, NEW q \in Rounds, DeleteMeter(q)
  PROVE  UsageInv'
  <1>1. Busy(q) /\ round[q].todo[1] \in {"delete", "spent"}
    BY RoundTyped DEF DeleteMeter, AtStep
  <1>2. PICK w : w = After(q)
    OBVIOUS
  <1>3. MoveTo(q, w) /\ UNCHANGED <<service, alerts, notices, said, heard, muddled, doubled>>
    BY <1>2 DEF DeleteMeter, MoveTo, usageGhosts
  <1>4. QED
    BY <1>1, <1>2, <1>3, AfterTyped, PlainCall, NoticesLeft

\* What is new among the notices.
LEMMA NewNoticeCalm ==
  ASSUME UsageInv, NewNotice
  PROVE  CalmNotices
  <1>1. PICK x : x = [is |-> "held", got |-> 0, refused |-> FALSE]
    OBVIOUS
  <1>2. x \in Notice /\ x.is = "held" /\ x.got = 0
    BY <1>1 DEF Notice
  <1>3. notices \in Seq(Notice) /\ Len(notices) \in Nat
    BY DEF UsageInv, RoundsTyped
  <1>4. /\ notices' \in Seq(Notice) /\ Len(notices') = Len(notices) + 1
        /\ \A n \in 1..Len(notices) : notices'[n] = notices[n]
        /\ notices'[Len(notices) + 1] = x
    BY <1>1, <1>2, <1>3 DEF NewNotice
  <1>5. ASSUME NEW n \in 1..Len(notices'), n > Len(notices) \/ notices[n].is \notin {"queued", "sent"}
        PROVE  OneDelivered(notices'[n])
    <2>1. CASE n = Len(notices) + 1
      BY <1>2, <1>4, <2>1 DEF OneDelivered
    <2>2. CASE n # Len(notices) + 1
      <3>1. n \in 1..Len(notices)
        BY <1>3, <1>4, <2>2
      <3>2. notices[n] \in Notice /\ notices'[n] = notices[n] /\ notices[n].is \notin {"queued", "sent"}
        BY <1>3, <1>4, <1>5, <3>1
      <3>3. QED
        BY <3>1, <3>2 DEF UsageInv, Delivered, Notice, OneDelivered
    <2>3. QED
      BY <2>1, <2>2
  <1>6. QED
    BY <1>3, <1>4, <1>5 DEF CalmNotices

LEMMA ReportCleanUpKeeps ==
  ASSUME UsageInv, NEW q \in Rounds, ReportCleanUp(q)
  PROVE  UsageInv'
  <1>1. Busy(q) /\ round[q].todo[1] = "report"
    BY RoundTyped DEF ReportCleanUp, AtStep
  <1>2. PICK w : w = After(q)
    OBVIOUS
  <1>3. MoveTo(q, w) /\ UNCHANGED <<service, alerts, said, heard, muddled, doubled>>
    BY <1>2 DEF ReportCleanUp, MoveTo, usageGhosts
  <1>4. CalmNotices
    BY NewNoticeCalm, NoticesLeft DEF ReportCleanUp
  <1>5. QED
    BY <1>1, <1>2, <1>3, <1>4, AfterTyped, PlainCall

LEMMA MarkGoneKeeps ==
  ASSUME UsageInv, NEW q \in Rounds, MarkGone(q)
  PROVE  UsageInv'
  <1>1. Busy(q) /\ round[q].todo[1] = "mark_gone"
    BY RoundTyped DEF MarkGone, AtStep
  <1>2. PICK w : w = After(q)
    OBVIOUS
  <1>3. MoveTo(q, w) /\ UNCHANGED <<alerts, notices, said, heard, muddled, doubled>>
    BY <1>2 DEF MarkGone, MoveTo, usageGhosts
  <1>4. IsRound(w) /\ w.todo = Tail(round[q].todo) /\ w.due = {}
    BY <1>1, <1>2, AfterTyped
  <1>5. /\ Moves(q, w) /\ NothingInHand(q, w)
        /\ w.todo # <<>> => MayFollow(round[q].todo[1], w.todo[1])
    BY <1>1, <1>3, <1>4, NextCall, NoticesLeft
  <1>6. service'.status = "deleted" /\ service' = [status |-> service'.status, left |-> service'.left]
    BY DEF MarkGone, UsageInv, RoundsTyped
  <1>7. ServiceTyped' /\ Told'
    BY <1>6 DEF ServiceTyped, Told, ToBeTold
  <1>8. w.todo # <<>> => w.todo[1] \notin Dependent
    BY <1>1, <1>5 DEF MayFollow, Dependent, NothingInHand
  <1>9. w.todo # <<>> => Knows(w)'
    BY <1>7, <1>8 DEF Knows, Dependent
  <1>10. ~muddled' => ~muddled /\ Reported(alerts)'
    BY <1>3, KnowsNow DEF Reported
  <1>11. QED
    BY <1>5, <1>7, <1>9, <1>10, OnwardsTold

\* What a row says that has been stored, and that it was told or is about to be.
LEMMA StoredRow ==
  ASSUME NEW m, NEW row, row = RowOf(m)
  PROVE  /\ row = [status |-> row.status, left |-> row.left] /\ row.left = m.left /\ row.status = StatusOf(m)
         /\ row.status \in {"active", "suspended", "expired", "depleted"}
         /\ row.status = "active" => row.left # 0
         /\ row.status = "depleted" => row.left = 0
  BY DEF RowOf, StatusOf

LEMMA StoreKeeps ==
  ASSUME UsageInv, NEW q \in Rounds, Store(q)
  PROVE  UsageInv'
  <1>1. Busy(q) /\ round[q].todo[1] = "store"
    BY RoundTyped DEF Store, AtStep
  <1>2. PICK w : w = After(q)
    OBVIOUS
  <1>3. MoveTo(q, w) /\ UNCHANGED <<alerts, notices, heard, muddled, doubled>>
    BY <1>2 DEF Store, Stores, MoveTo
  <1>4. IsRound(w) /\ w.todo = Tail(round[q].todo) /\ w.due = {} /\ w.prev = round[q].prev /\ w.saw = round[q].saw
    BY <1>1, <1>2, AfterTyped, RoundTyped DEF After, IsRound
  <1>5. Moves(q, w) /\ NothingInHand(q, w) /\ w.todo # <<>> /\ w.todo[1] = "say"
    BY <1>1, <1>3, <1>4, NextCall, NoticesLeft
  <1>6. service' = RowOf(w.saw) /\ said' = (IF StatusOf(w.saw) = "active" THEN {} ELSE said)
    BY <1>4 DEF Store, Stores
  <1>7. PICK row : row = RowOf(w.saw)
    OBVIOUS
  <1>8. /\ row = [status |-> row.status, left |-> row.left] /\ row.left = w.saw.left
        /\ row.status = StatusOf(w.saw)
        /\ row.status \in {"active", "suspended", "expired", "depleted"}
        /\ row.status = "active" => row.left # 0
        /\ row.status = "depleted" => row.left = 0
    BY <1>7, StoredRow
  <1>9. ServiceTyped'
    BY <1>6, <1>7, <1>8 DEF ServiceTyped
  <1>10. ASSUME ~muddled, ToBeTold(row) PROVE said' # {} \/ Ends(w.prev, w.saw) # {}
    <2>1. Told /\ w.prev = service /\ service.status # "deleted"
      BY <1>1, <1>4, <1>10, KnowsNow DEF Knows
    <2>2. row.status # "active"
      BY <1>10 DEF ToBeTold
    <2>3. said' = said
      BY <1>6, <1>8, <2>2
    <2>4. CASE row.status = "expired"
      <3>1. Ends(w.prev, w.saw) = {"expired"} \ {w.prev.status}
        BY <1>8, <2>4 DEF Ends
      <3>2. service.status = "expired" => said # {}
        BY <2>1 DEF Told, ToBeTold
      <3>3. QED
        BY <2>1, <2>3, <3>1, <3>2
    <2>5. CASE row.status # "expired"
      <3>1. w.saw.left = 0
        BY <1>8, <1>10, <2>5 DEF ToBeTold
      <3>2. service.left # 0 /\ service.status # "depleted" => Ends(w.prev, w.saw) = {"depleted"}
        BY <1>8, <2>1, <2>5, <3>1 DEF Ends
      <3>3. service.left = 0 \/ service.status = "depleted" => ToBeTold(service)
        BY <2>1 DEF ToBeTold, UsageInv, RoundsTyped
      <3>4. QED
        BY <2>1, <2>3, <3>2, <3>3 DEF Told
    <2>6. QED
      BY <2>4, <2>5
  <1>11. ~muddled' => Knows(w)'
    BY <1>3, <1>5, <1>6, <1>7, <1>10 DEF Knows
  <1>12. ~muddled' => ~muddled /\ Reported(alerts)'
    BY <1>3, KnowsNow DEF Reported
  <1>13. QED
    BY <1>5, <1>9, <1>11, <1>12, OnwardsTold

LEMMA BindRowKeeps ==
  ASSUME UsageInv, NEW q \in Rounds, BindRow(q)
  PROVE  UsageInv'
  <1>1. Busy(q) /\ round[q].todo[1] = "bind"
    BY RoundTyped DEF BindRow, AtStep
  <1>2. PICK w : w = After(q)
    OBVIOUS
  <1>3. MoveTo(q, w) /\ UNCHANGED <<alerts, notices, heard, doubled>>
    BY <1>2 DEF BindRow, Stores, MoveTo
  <1>4. IsRound(w) /\ w.todo = Tail(round[q].todo) /\ w.due = {} /\ w.saw = round[q].saw
    BY <1>1, <1>2, AfterTyped, RoundTyped DEF After, IsRound
  <1>5. /\ Moves(q, w) /\ NothingInHand(q, w)
        /\ w.todo # <<>> => MayFollow(round[q].todo[1], w.todo[1])
    BY <1>1, <1>3, <1>4, NextCall, NoticesLeft
  <1>6. service' = RowOf(w.saw) /\ muddled' = (muddled \/ StatusOf(w.saw) # "active")
    BY <1>4 DEF BindRow, Stores
  <1>7. PICK row : row = RowOf(w.saw)
    OBVIOUS
  <1>8. /\ row = [status |-> row.status, left |-> row.left]
        /\ row.status = StatusOf(w.saw)
        /\ row.status \in {"active", "suspended", "expired", "depleted"}
        /\ row.status = "active" => row.left # 0
    BY <1>7, StoredRow
  <1>9. ServiceTyped'
    BY <1>6, <1>7, <1>8 DEF ServiceTyped
  <1>10. ~muddled' => ~muddled /\ row.status = "active"
    BY <1>6, <1>8
  <1>11. ~muddled' => Told'
    BY <1>6, <1>7, <1>10 DEF Told, ToBeTold
  <1>12. w.todo # <<>> => w.todo[1] \notin Dependent
    BY <1>1, <1>5 DEF MayFollow, Dependent, NothingInHand
  <1>13. ~muddled' /\ w.todo # <<>> => Knows(w)'
    BY <1>11, <1>12 DEF Knows, Dependent
  <1>14. ~muddled' => Reported(alerts)'
    BY <1>3, <1>10, KnowsNow DEF Reported
  <1>15. QED
    BY <1>5, <1>9, <1>10, <1>11, <1>13, <1>14, OnwardsTold

LEMMA SayKeeps ==
  ASSUME UsageInv, NEW q \in Rounds, Say(q)
  PROVE  UsageInv'
  <1>1. Busy(q) /\ round[q].todo[1] = "say"
    BY RoundTyped DEF Say, AtStep
  <1>2. PICK w : w = After(q)
    OBVIOUS
  <1>3. MoveTo(q, w) /\ UNCHANGED <<service, alerts, notices, heard, muddled, doubled>>
    BY <1>2 DEF Say, MoveTo
  <1>4. /\ IsRound(w) /\ w.todo = Tail(round[q].todo) /\ w.due = {}
    BY <1>1, <1>2, AfterTyped
  <1>5. /\ Moves(q, w) /\ NothingInHand(q, w)
        /\ w.todo # <<>> => MayFollow(round[q].todo[1], w.todo[1])
    BY <1>1, <1>3, <1>4, NextCall, NoticesLeft
  <1>6. ~muddled => (ToBeTold(service) => said # {} \/ Ends(round[q].prev, round[q].saw) # {})
    BY <1>1, KnowsNow DEF Knows
  <1>7. PICK ends : ends = Ends(round[q].prev, round[q].saw)
    OBVIOUS
  <1>8. said' = said \cup ends
    BY <1>7 DEF Say
  <1>9. ~muddled' => Told'
    BY <1>3, <1>6, <1>7, <1>8 DEF Told, ToBeTold
  <1>10. w.todo # <<>> => w.todo[1] \notin Dependent
    BY <1>1, <1>5 DEF MayFollow, Dependent, NothingInHand
  <1>11. ~muddled' /\ w.todo # <<>> => Knows(w)'
    BY <1>9, <1>10 DEF Knows, Dependent
  <1>12. ~muddled' => ~muddled /\ Reported(alerts)'
    BY <1>3, KnowsNow DEF Reported
  <1>13. ServiceTyped'
    BY <1>3 DEF UsageInv, RoundsTyped, ServiceTyped
  <1>14. QED
    BY <1>5, <1>9, <1>11, <1>12, <1>13, OnwardsTold

LEMMA SendAlertsKeeps ==
  ASSUME UsageInv, NEW q \in Rounds, SendAlerts(q)
  PROVE  UsageInv'
  <1>1. Busy(q) /\ round[q].todo[1] = "alert"
    BY RoundTyped DEF SendAlerts, AtStep
  <1>2. PICK w : w = After(q)
    OBVIOUS
  <1>3. MoveTo(q, w) /\ UNCHANGED <<service, alerts, notices, said, muddled, doubled>>
    BY <1>2 DEF SendAlerts, MoveTo
  <1>4. /\ IsRound(w) /\ w.todo = Tail(round[q].todo) /\ w.due = {} /\ w.saw = round[q].saw
    BY <1>1, <1>2, AfterTyped, RoundTyped DEF After, IsRound
  <1>5. /\ Moves(q, w) /\ NothingInHand(q, w)
        /\ w.todo # <<>> => MayFollow(round[q].todo[1], w.todo[1])
    BY <1>1, <1>3, <1>4, NextCall, NoticesLeft
  <1>6. ~muddled => Told /\ round[q].old = alerts /\ Reported(alerts)
    BY <1>1, KnowsNow DEF Knows
  <1>7. PICK now : now = AlertsOf(w.saw)
    OBVIOUS
  <1>8. heard' = heard \cup (({now.traffic, now.expiry} \ {"normal"})
                             \ {round[q].old.traffic, round[q].old.expiry})
    BY <1>4, <1>7 DEF SendAlerts
  <1>9. ~muddled => Reported(alerts)' /\ Reported(now)'
    BY <1>3, <1>6, <1>8 DEF Reported
  <1>10. ~muddled => Told'
    BY <1>3, <1>6 DEF Told, ToBeTold
  <1>11. w.todo # <<>> => w.todo[1] = "keep" \/ w.todo[1] \notin Dependent
    BY <1>1, <1>5 DEF MayFollow, Dependent, NothingInHand
  <1>12. ~muddled' /\ w.todo # <<>> => Knows(w)'
    BY <1>3, <1>7, <1>9, <1>10, <1>11 DEF Knows, Dependent
  <1>13. ServiceTyped'
    BY <1>3 DEF UsageInv, RoundsTyped, ServiceTyped
  <1>14. QED
    BY <1>3, <1>5, <1>9, <1>10, <1>12, <1>13, OnwardsTold

LEMMA KeepAlertsKeeps ==
  ASSUME UsageInv, NEW q \in Rounds, KeepAlerts(q)
  PROVE  UsageInv'
  <1>1. Busy(q) /\ round[q].todo[1] = "keep"
    BY RoundTyped DEF KeepAlerts, AtStep
  <1>2. PICK w : w = After(q)
    OBVIOUS
  <1>3. MoveTo(q, w) /\ UNCHANGED <<service, notices, said, muddled, doubled>>
    BY <1>2 DEF KeepAlerts, MoveTo
  <1>4. IsRound(w) /\ w.todo = Tail(round[q].todo) /\ w.due = {}
    BY <1>1, <1>2, AfterTyped
  <1>5. /\ Moves(q, w) /\ NothingInHand(q, w)
        /\ w.todo # <<>> => MayFollow(round[q].todo[1], w.todo[1])
    BY <1>1, <1>3, <1>4, NextCall, NoticesLeft
  <1>6. PICK now : now = AlertsOf(round[q].saw)
    OBVIOUS
  <1>7. ~muddled => Told /\ Reported(now)
    BY <1>1, <1>6, KnowsNow DEF Knows
  <1>8. alerts' = now /\ heard' = heard \cap {now.traffic, now.expiry}
    BY <1>6 DEF KeepAlerts
  <1>9. ~muddled => Reported(alerts)' /\ Told'
    BY <1>3, <1>7, <1>8 DEF Reported, Told, ToBeTold
  <1>10. w.todo # <<>> => w.todo[1] \notin Dependent
    BY <1>1, <1>5 DEF MayFollow, Dependent, NothingInHand
  <1>11. ~muddled' /\ w.todo # <<>> => Knows(w)'
    BY <1>3, <1>9, <1>10 DEF Knows, Dependent
  <1>12. ServiceTyped'
    BY <1>3 DEF UsageInv, RoundsTyped, ServiceTyped
  <1>13. QED
    BY <1>3, <1>5, <1>9, <1>11, <1>12, OnwardsTold

\* A call that fails.
LEMMA FailsAtKeeps ==
  ASSUME UsageInv, NEW q \in Rounds, FailsAt(q)
  PROVE  UsageInv'
  <1>1. Busy(q) /\ round[q].todo[1] # "mark" /\ Head(round[q].todo) = round[q].todo[1]
    BY RoundTyped DEF FailsAt
  <1>2. UNCHANGED <<service, alerts, notices, said, heard, doubled>>
    BY DEF FailsAt
  <1>3. muddled' = (muddled \/ round[q].todo[1] = "say")
    BY <1>1 DEF FailsAt, AtStep
  <1>4. PICK w : w = IF AtStep(q, "row") THEN NoRound ELSE Skips(q)
    OBVIOUS
  <1>5. MoveTo(q, w)
    BY <1>4 DEF FailsAt, MoveTo
  <1>6. Moves(q, w) /\ NothingInHand(q, w) /\ (w.todo # <<>> => w.todo[1] \notin Dependent)
    <2>1. CASE w = NoRound
      BY <1>1, <1>2, <1>5, <2>1, NoRoundTyped, NoticesLeft DEF Moves, NothingInHand
    <2>2. CASE w = Skips(q)
      <3>1. Moves(q, w) /\ NothingInHand(q, w) /\ (w.todo # <<>> => w.todo[1] \in Parts)
        BY <1>1, <1>2, <1>5, <2>2, NextPartTaken, NoticesLeft
      <3>2. QED
        BY <3>1 DEF Parts, Dependent
    <2>3. QED
      BY <1>4, <2>1, <2>2
  <1>7. ~muddled' => ~muddled /\ Told' /\ Reported(alerts)'
    <2>1. ~muddled' => ~muddled /\ Told /\ Reported(alerts)
      BY <1>1, <1>3, KnowsNow
    <2>2. QED
      BY <1>2, <2>1 DEF Told, ToBeTold, Reported
  <1>8. ~muddled' /\ w.todo # <<>> => Knows(w)'
    BY <1>6, <1>7 DEF Knows, Dependent
  <1>9. ServiceTyped'
    BY <1>2 DEF UsageInv, RoundsTyped, ServiceTyped
  <1>10. QED
    BY <1>6, <1>7, <1>8, <1>9, OnwardsTold
-------------------------------------------------------------------------------
(* The notices in hand.                                                          *)

LEMMA ListDueKeeps ==
  ASSUME UsageInv, NEW q \in Rounds, ListDue(q)
  PROVE  UsageInv'
  <1>1. Busy(q) /\ round[q].todo[1] = "due" /\ ~AtStep(q, "mark")
    BY RoundTyped DEF ListDue, AtStep
  <1>2. PICK due \in SUBSET {n \in DOMAIN notices : notices[n].is = "queued"} :
          Learns(q, [After(q) EXCEPT !.due = due])
    BY DEF ListDue
  <1>3. PICK w : w = [After(q) EXCEPT !.due = due]
    OBVIOUS
  <1>4. MoveTo(q, w) /\ UNCHANGED <<service, alerts, notices, said, heard, muddled, doubled>>
    BY <1>2, <1>3 DEF Learns, MoveTo, usageGhosts
  <1>5. notices \in Seq(Notice) /\ DOMAIN notices = 1..Len(notices) /\ due \subseteq Nat
    BY <1>2 DEF UsageInv, RoundsTyped
  <1>6. /\ round[q].todo \in Seq(UsageSteps) /\ Follows(round[q].todo) /\ round[q].todo # <<>>
        /\ w.todo = Tail(round[q].todo) /\ w.due = due /\ IsRound(w)
    BY <1>1, <1>3, <1>5, AfterTyped, RoundTyped DEF IsRound
  <1>7. Follows(w.todo) /\ w.todo # <<>> /\ w.todo[1] = "send" /\ Sending(round[q].todo)
    BY <1>1, <1>6, TailFollows
  <1>8. Moves(q, w)
    BY <1>1, <1>4, <1>6, <1>7 DEF Moves
  <1>9. round'[q] = w /\ \A p \in Rounds : p # q => round'[p] = round[p]
    BY <1>4, <1>7 DEF UsageInv, RoundsTyped, MoveTo
  <1>10. ~AtStep(q, "mark")'
    <2>1. Head(w.todo) = "send"
      BY <1>6, <1>7 DEF IsRound
    <2>2. QED
      BY <1>9, <2>1 DEF AtStep
  <1>11. \A p \in Rounds : p # q => AtStep(p, "mark")' = AtStep(p, "mark") /\ FirstDue(p)' = FirstDue(p)
    BY <1>9 DEF AtStep, Busy, FirstDue
  <1>12. CalmNotices
    BY <1>4, NoticesLeft
  <1>13. Delivered'
    <2>1. \A n : (\E p \in Rounds : AtStep(p, "mark") /\ FirstDue(p) = n)
                 => (\E p \in Rounds : AtStep(p, "mark")' /\ FirstDue(p)' = n)
      BY <1>1, <1>11
    <2>2. QED
      BY <1>4, <2>1 DEF UsageInv, Delivered
  <1>14. \A p \in Rounds : InHand(round[p])'
    <2>1. \A n \in w.due : n \in 1..Len(notices) /\ notices[n].is \in {"queued", "sent"}
      BY <1>2, <1>5, <1>6
    <2>2. InHand(w)'
      BY <1>4, <1>7, <2>1 DEF InHand
    <2>3. QED
      BY <1>9, <1>12, <2>2, StillInHand
  <1>15. \A p \in Rounds : AtStep(p, "mark")' => notices'[FirstDue(p)'].got > 0
    BY <1>4, <1>10, <1>11 DEF UsageInv, FlushesApart
  <1>16. ASSUME ~doubled', NEW o \in Rounds, NEW p \in Rounds, Sending(round'[o].todo), Sending(round'[p].todo)
         PROVE  o = p
    <2>1. \A x \in Rounds : Sending(round'[x].todo) => Sending(round[x].todo)
      BY <1>7, <1>9
    <2>2. QED
      BY <1>4, <1>16, <2>1 DEF UsageInv, FlushesApart
  <1>17. ASSUME ~doubled', NEW p \in Rounds, NEW n \in round'[p].due
         PROVE  notices'[n].is = "queued" /\ (notices'[n].got = 0 \/ (AtStep(p, "mark")' /\ FirstDue(p)' = n))
    <2>1. CASE p = q
      <3>1. n \in 1..Len(notices) /\ notices[n].is = "queued" /\ notices[n] \in Notice
        BY <1>2, <1>5, <1>6, <1>9, <1>17, <2>1
      <3>2. \A o \in Rounds : ~AtStep(o, "mark")
        <4> SUFFICES ASSUME NEW o \in Rounds, AtStep(o, "mark") PROVE FALSE
          OBVIOUS
        <4>1. round[o].todo[1] = "mark" /\ round[o].todo # <<>>
          BY RoundTyped DEF AtStep
        <4>2. Sending(round[o].todo)
          BY <4>1, RoundTyped, TailFollows
        <4>3. QED
          BY <1>1, <1>4, <1>7, <1>17, <4>1, <4>2 DEF UsageInv, FlushesApart
      <3>3. notices[n].got = 0
        BY <1>4, <1>17, <3>1, <3>2 DEF UsageInv, Delivered, Notice
      <3>4. QED
        BY <1>4, <3>1, <3>3
    <2>2. CASE p # q
      <3>1. n \in round[p].due
        BY <1>9, <1>17, <2>2
      <3>2. notices[n].is = "queued" /\ (notices[n].got = 0 \/ (AtStep(p, "mark") /\ FirstDue(p) = n))
        BY <1>4, <1>17, <3>1 DEF UsageInv, FlushesApart
      <3>3. QED
        BY <1>4, <1>11, <2>2, <3>2
    <2>3. QED
      BY <2>1, <2>2
  <1>18. FlushesApart'
    BY <1>14, <1>15, <1>16, <1>17 DEF FlushesApart
  <1>19. RoundsTyped'
    <2>1. notices' \in Seq(Notice) /\ ServiceTyped'
      BY <1>4 DEF UsageInv, RoundsTyped, ServiceTyped
    <2>2. QED
      BY <1>8, <2>1, MovesTyped
  <1>20. Informed'
    <2>1. ~muddled' => ~muddled /\ Told' /\ Reported(alerts)'
      <3>1. ~muddled' => ~muddled /\ Told /\ Reported(alerts)
        BY <1>1, <1>4, KnowsNow
      <3>2. QED
        BY <1>4, <3>1 DEF Told, ToBeTold, Reported
    <2>2. ~muddled' => Knows(w)'
      BY <1>7, <2>1 DEF Knows
    <2>3. QED
      BY <1>7, <1>8, <2>1, <2>2, MovesInformed
  <1>21. QED
    BY <1>13, <1>18, <1>19, <1>20 DEF UsageInv

\* The first of some notices.
FirstOf(due) == CHOOSE n \in due : \A k \in due : n <= k

\* A step of a flush that settles the first of its notices, or sends it to mark it next.
SettlesFirst(q, w, n, x) ==
    /\ round[q].todo # <<>> /\ round[q].todo[1] \in {"send", "mark"}
    /\ n = FirstDue(q) /\ n \in round[q].due
    /\ w.todo # <<>> /\ w.todo[1] \in {"send", "mark"} /\ w.due \subseteq round[q].due
    /\ w.todo[1] = "mark" => n \in w.due /\ FirstOf(w.due) = n /\ x.got > 0 /\ (~doubled => x.is = "queued")
    /\ n \in w.due => w.todo[1] = "mark"
    /\ notices' = [notices EXCEPT ![n] = x] /\ UNCHANGED doubled
    /\ x \in Notice /\ x.is \in {"queued", "sent"} /\ x.got >= notices[n].got
    /\ x.is = "sent" => x.got > 0 \/ x.refused
    /\ x.got > 1 => doubled
    /\ x.is = "queued" /\ x.got > 0 => doubled \/ w.todo[1] = "mark"

LEMMA FlushGoesOn ==
  ASSUME UsageInv, NEW q \in Rounds, NEW w, NEW n, NEW x, Moves(q, w), SettlesFirst(q, w, n, x),
         UNCHANGED <<service, alerts, said, heard, muddled>>
  PROVE  UsageInv'
  <1>1. /\ round'[q] = w
        /\ \A p \in Rounds : p # q => round'[p] = round[p]
    BY DEF UsageInv, RoundsTyped, Moves, MoveTo, SettlesFirst
  <1>2. /\ n \in 1..Len(notices) /\ notices \in Seq(Notice) /\ notices' \in Seq(Notice)
        /\ Len(notices') = Len(notices) /\ notices'[n] = x
        /\ \A m \in 1..Len(notices) : m # n => notices'[m] = notices[m]
    <2>1. n \in 1..Len(notices) /\ notices \in Seq(Notice)
      BY DEF SettlesFirst, UsageInv, RoundsTyped, FlushesApart, InHand
    <2>2. notices' = [notices EXCEPT ![n] = x] /\ x \in Notice
      BY DEF SettlesFirst
    <2>3. QED
      BY <2>1, <2>2
  <1>3. AtStep(q, "mark")' <=> w.todo[1] = "mark"
    <2>1. w.todo # <<>> /\ w.todo \in Seq(UsageSteps)
      BY DEF SettlesFirst, Moves, IsRound
    <2>2. Head(w.todo) = w.todo[1]
      BY <2>1
    <2>3. QED
      BY <1>1, <2>1, <2>2 DEF AtStep, Busy
  <1>4. FirstDue(q)' = FirstOf(w.due)
    BY <1>1 DEF FirstDue, FirstOf
  <1>5. \A p \in Rounds : p # q => AtStep(p, "mark")' = AtStep(p, "mark") /\ FirstDue(p)' = FirstDue(p)
    BY <1>1 DEF AtStep, Busy, FirstDue
  <1>6. \A p \in Rounds : AtStep(p, "mark") => FirstDue(p) \in round[p].due
    BY MarksOne
  <1>7. UNCHANGED doubled
    BY DEF SettlesFirst
  <1>8. ASSUME NEW m \in 1..Len(notices')
        PROVE  /\ notices'[m].is \in {"held", "failed", "lost"} => notices'[m].got = 0
               /\ notices'[m].is = "sent" => notices'[m].got > 0 \/ notices'[m].refused
               /\ notices'[m].got > 1 => doubled'
               /\ notices'[m].is = "queued" /\ notices'[m].got > 0 =>
                     doubled' \/ \E p \in Rounds : AtStep(p, "mark")' /\ FirstDue(p)' = m
    <2>1. CASE m = n
      BY <1>2, <1>3, <1>4, <1>7, <2>1 DEF SettlesFirst
    <2>2. CASE m # n
      <3>1. m \in 1..Len(notices) /\ notices'[m] = notices[m]
        BY <1>2, <2>2
      <3>2. (\E p \in Rounds : AtStep(p, "mark") /\ FirstDue(p) = m)
            => (\E p \in Rounds : AtStep(p, "mark")' /\ FirstDue(p)' = m)
        BY <1>5, <2>2 DEF SettlesFirst
      <3>3. QED
        BY <1>7, <3>1, <3>2 DEF UsageInv, Delivered
    <2>3. QED
      BY <2>1, <2>2
  <1>9. Delivered'
    BY <1>8 DEF Delivered
  <1>10. \A m \in 1..Len(notices) : notices[m].is \in {"queued", "sent"} => notices'[m].is \in {"queued", "sent"}
    BY <1>2 DEF SettlesFirst
  <1>11. ASSUME NEW p \in Rounds PROVE InHand(round[p])'
    <2>1. InHand(round[p]) /\ InHand(round[q])
      BY DEF UsageInv, FlushesApart
    <2>2. CASE p = q
      <3>1. w.todo[1] = "mark" => w.due # {}
        BY DEF SettlesFirst
      <3>2. \A m \in w.due : m \in 1..Len(notices') /\ notices'[m].is \in {"queued", "sent"}
        BY <1>2, <1>10, <2>1 DEF SettlesFirst, InHand
      <3>3. InHand(w)'
        BY <3>1, <3>2 DEF InHand, SettlesFirst
      <3>4. QED
        BY <1>1, <2>2, <3>3
    <2>3. CASE p # q
      BY <1>1, <1>2, <1>10, <2>1, <2>3 DEF InHand
    <2>4. QED
      BY <2>2, <2>3
  <1>12. ASSUME NEW p \in Rounds, AtStep(p, "mark")' PROVE notices'[FirstDue(p)'].got > 0
    <2>1. CASE p = q
      BY <1>2, <1>3, <1>4, <1>12, <2>1 DEF SettlesFirst
    <2>2. CASE p # q
      <3>1. AtStep(p, "mark") /\ FirstDue(p)' = FirstDue(p)
        BY <1>5, <1>12, <2>2
      <3>2. PICK m : m = FirstDue(p)
        OBVIOUS
      <3>3. m \in 1..Len(notices) /\ notices[m].got > 0 /\ notices[m].got \in Nat
        <4>1. m \in round[p].due /\ notices[m].got > 0
          BY <1>6, <3>1, <3>2 DEF UsageInv, FlushesApart
        <4>2. m \in 1..Len(notices)
          BY <4>1, RoundTyped DEF InHand
        <4>3. notices[m] \in Notice
          BY <1>2, <4>2
        <4>4. QED
          BY <4>1, <4>2, <4>3 DEF Notice
      <3>4. CASE m = n
        <4>1. x.got \in Nat /\ x.got >= notices[m].got
          BY <3>4 DEF SettlesFirst, Notice
        <4>2. QED
          BY <1>2, <3>1, <3>2, <3>3, <3>4, <4>1
      <3>5. CASE m # n
        BY <1>2, <3>1, <3>2, <3>3, <3>5
      <3>6. QED
        BY <3>4, <3>5
    <2>3. QED
      BY <2>1, <2>2
  <1>13. Sending(round[q].todo)
    <2>1. round[q].todo \in Seq(UsageSteps) /\ Follows(round[q].todo)
      BY RoundTyped
    <2>2. QED
      BY <2>1, TailFollows DEF SettlesFirst
  <1>14. ASSUME ~doubled', NEW o \in Rounds, NEW p \in Rounds, Sending(round'[o].todo), Sending(round'[p].todo)
         PROVE  o = p
    <2>1. \A v \in Rounds : Sending(round'[v].todo) => Sending(round[v].todo)
      BY <1>1, <1>13
    <2>2. QED
      BY <1>7, <1>14, <2>1 DEF UsageInv, FlushesApart
  <1>15. ASSUME ~doubled', NEW p \in Rounds, NEW m \in round'[p].due
         PROVE  notices'[m].is = "queued" /\ (notices'[m].got = 0 \/ (AtStep(p, "mark")' /\ FirstDue(p)' = m))
    <2>1. p = q
      <3>1. SUFFICES ASSUME p # q PROVE FALSE
        OBVIOUS
      <3>2. round[p].todo # <<>> /\ round[p].todo[1] \in {"send", "mark"}
        BY <1>1, <1>15, <3>1, RoundTyped DEF InHand
      <3>3. Sending(round[p].todo)
        BY <3>2, RoundTyped, TailFollows
      <3>4. QED
        BY <1>7, <1>13, <1>15, <3>1, <3>3 DEF UsageInv, FlushesApart
    <2>2. m \in w.due /\ m \in round[q].due
      BY <1>1, <1>15, <2>1 DEF SettlesFirst
    <2>3. CASE m = n
      BY <1>2, <1>3, <1>4, <1>7, <1>15, <2>1, <2>2, <2>3 DEF SettlesFirst
    <2>4. CASE m # n
      <3>1. notices[m].is = "queued" /\ (notices[m].got = 0 \/ FirstDue(q) = m)
        BY <1>7, <1>15, <2>2 DEF UsageInv, FlushesApart
      <3>2. notices'[m] = notices[m]
        BY <1>2, <2>2, <2>4, RoundTyped DEF InHand
      <3>3. QED
        BY <2>4, <3>1, <3>2 DEF SettlesFirst
    <2>5. QED
      BY <2>3, <2>4
  <1>16. FlushesApart'
    BY <1>11, <1>12, <1>14, <1>15 DEF FlushesApart
  <1>17. RoundsTyped'
    <2>1. ServiceTyped'
      BY DEF UsageInv, RoundsTyped, ServiceTyped
    <2>2. QED
      BY <1>2, <2>1, MovesTyped
  <1>18. Informed'
    <2>1. ~muddled => Told /\ Reported(alerts)
      BY KnowsNow DEF SettlesFirst, Moves
    <2>2. ~muddled' => ~muddled /\ Told' /\ Reported(alerts)'
      BY <2>1 DEF Told, ToBeTold, Reported
    <2>3. ~muddled' => Knows(w)'
      BY <2>2 DEF Knows, SettlesFirst
    <2>4. QED
      BY <2>2, <2>3, MovesInformed
  <1>19. QED
    BY <1>9, <1>16, <1>17, <1>18 DEF UsageInv

\* A notice in hand that is settled.
LEMMA SettledOne ==
  ASSUME UsageInv, NEW q \in Rounds, Busy(q), round[q].todo[1] \in {"send", "mark"}, round[q].due # {},
         NEW n, n = FirstDue(q), NEW x, x \in Notice, x.is \in {"queued", "sent"},
         x.is = "sent" => x.got > 0 \/ x.refused,
         x = notices[n] \/ (x.is = "sent" /\ x.got = notices[n].got),
         x.is = "queued" => round[q].todo[1] = "send",
         notices' = [notices EXCEPT ![n] = x],
         NEW w, IsRound(w), w.todo = <<"send">>, w.due = round[q].due \ {n}, MoveTo(q, w),
         UNCHANGED <<service, alerts, said, heard, muddled, doubled>>
  PROVE  UsageInv'
  <1>1. round[q].todo \in Seq(UsageSteps) /\ Follows(round[q].todo) /\ round[q].todo # <<>>
    BY RoundTyped
  <1>2. Sending(round[q].todo)
    BY <1>1, TailFollows
  <1>3. w.todo # <<>> /\ w.todo[1] = "send" /\ Follows(w.todo)
    BY DEF Follows, MayFollow
  <1>4. Moves(q, w)
    BY <1>2, <1>3 DEF Moves
  <1>5. n \in round[q].due /\ n \in 1..Len(notices) /\ notices[n].is \in {"queued", "sent"}
    BY MarksTheFirst
  <1>6. notices[n] \in Notice
    BY <1>5 DEF UsageInv, RoundsTyped
  <1>7. x.got = notices[n].got /\ x.got \in Nat
    BY <1>6 DEF Notice
  <1>8. x.got > 1 => doubled
    BY <1>5, <1>7 DEF UsageInv, Delivered
  <1>9. x.is = "queued" /\ x.got > 0 => doubled
    <2>1. SUFFICES ASSUME x.is = "queued", x.got > 0, ~doubled PROVE FALSE
      OBVIOUS
    <2>2. ~AtStep(q, "mark")
      BY <2>1, RoundTyped DEF AtStep
    <2>3. notices[n].got = 0
      BY <1>5, <2>1, <2>2 DEF UsageInv, FlushesApart
    <2>4. QED
      BY <1>7, <2>1, <2>3
  <1>10. SettlesFirst(q, w, n, x)
    BY <1>1, <1>3, <1>5, <1>7, <1>8, <1>9 DEF SettlesFirst
  <1>11. QED
    BY <1>4, <1>10, FlushGoesOn

\* Two sequences of one element each.
LEMMA TwoInARow ==
  ASSUME NEW S, NEW a \in Seq(S), NEW b \in Seq(S), Len(a) = 1, Len(b) = 1
  PROVE  a \o b = <<a[1], b[1]>>
  <1>1. /\ a \o b \in Seq(S) /\ Len(a \o b) = Len(a) + Len(b)
        /\ \A i \in 1..Len(a) + Len(b) : (a \o b)[i] = IF i <= Len(a) THEN a[i] ELSE b[i - Len(a)]
    BY ConcatProperties
  <1>2. PICK c : c = a \o b
    OBVIOUS
  <1>3. c \in Seq(S) /\ Len(c) = 2
    BY <1>1, <1>2
  <1>4. \A i \in 1..2 : c[i] = IF i <= 1 THEN a[i] ELSE b[i - 1]
    BY <1>1, <1>2
  <1>5. c[1] = a[1] /\ c[2] = b[1]
    BY <1>4
  <1>6. c = <<a[1], b[1]>>
    BY <1>3, <1>5
  <1>7. QED
    BY <1>2, <1>6

\* A flush that has sent a notice marks it before it sends the next.
LEMMA MarkBefore ==
  ASSUME NEW todo, todo = <<"send">>
  PROVE  <<"mark">> \o todo = <<"mark", "send">>
  <1>1. PICK some : some = <<"mark">>
    OBVIOUS
  <1>2. some \in Seq(UsageSteps) /\ Len(some) = 1 /\ some[1] = "mark"
    BY <1>1 DEF UsageSteps
  <1>3. todo \in Seq(UsageSteps) /\ Len(todo) = 1 /\ todo[1] = "send"
    BY DEF UsageSteps
  <1>4. some \o todo = <<some[1], todo[1]>>
    BY <1>2, <1>3, TwoInARow
  <1>5. QED
    BY <1>1, <1>2, <1>3, <1>4

LEMMA SendDueKeeps ==
  ASSUME UsageInv, NEW q \in Rounds, SendDue(q)
  PROVE  UsageInv'
  <1>1. Busy(q) /\ round[q].todo[1] = "send" /\ round[q].due # {}
    BY RoundTyped DEF SendDue, AtStep
  <1>2. UNCHANGED <<service, alerts, said, heard, muddled, doubled>>
    BY DEF SendDue, SetNotice, usageGhosts
  <1>3. /\ round[q].todo \in Seq(UsageSteps) /\ Follows(round[q].todo) /\ round[q].todo # <<>> /\ IsRound(round[q])
        /\ Sending(round[q].todo) /\ round[q].todo = <<"send">>
    <2>1. /\ round[q].todo \in Seq(UsageSteps) /\ Follows(round[q].todo) /\ round[q].todo # <<>>
          /\ IsRound(round[q])
      BY <1>1, RoundTyped
    <2>2. Len(round[q].todo) = 1 /\ Sending(round[q].todo)
      BY <1>1, <2>1, TailFollows
    <2>3. round[q].todo = <<"send">>
      BY <1>1, <2>1, <2>2
    <2>4. QED
      BY <2>1, <2>2, <2>3
  <1>4. PICK n : n = FirstDue(q)
    OBVIOUS
  <1>5. n \in round[q].due /\ n \in 1..Len(notices) /\ notices[n].is \in {"queued", "sent"}
    BY <1>1, <1>4, MarksTheFirst
  <1>6. notices[n] \in Notice
    BY <1>5 DEF UsageInv, RoundsTyped
  <1>7. notices[n].is = "sent" => notices[n].got > 0 \/ notices[n].refused
    BY <1>5 DEF UsageInv, Delivered
  <1>8. PICK w : w = Settled(q)
    OBVIOUS
  <1>9. IsRound(w) /\ w.todo = <<"send">> /\ w.due = round[q].due \ {n}
    BY <1>3, <1>4, <1>8 DEF Settled, IsRound
  <1>10. ASSUME MoveTo(q, Settled(q)), SetNotice(n, [notices[n] EXCEPT !.is = "sent", !.refused = TRUE])
         PROVE  UsageInv'
    <2>1. PICK x : x = [notices[n] EXCEPT !.is = "sent", !.refused = TRUE]
      OBVIOUS
    <2>2. x \in Notice /\ x.is = "sent" /\ x.refused /\ x.got = notices[n].got
      BY <1>6, <2>1 DEF Notice
    <2>3. notices' = [notices EXCEPT ![n] = x] /\ MoveTo(q, w)
      BY <1>8, <1>10, <2>1 DEF SetNotice, MoveTo
    <2>4. QED
      BY <1>1, <1>2, <1>4, <1>9, <2>2, <2>3, SettledOne
  <1>11. ASSUME MoveTo(q, Settled(q)), SetNotice(n, notices[n])
         PROVE  UsageInv'
    <2>1. PICK x : x = notices[n]
      OBVIOUS
    <2>2. notices' = [notices EXCEPT ![n] = x] /\ MoveTo(q, w)
      BY <1>8, <1>11, <2>1 DEF SetNotice, MoveTo
    <2>3. QED
      BY <1>1, <1>2, <1>4, <1>5, <1>6, <1>7, <1>9, <2>1, <2>2, SettledOne
  <1>12. ASSUME MoveTo(q, [round[q] EXCEPT !.todo = <<"mark">> \o @]),
                SetNotice(n, [notices[n] EXCEPT !.got = @ + 1])
         PROVE  UsageInv'
    <2>1. PICK x : x = [notices[n] EXCEPT !.got = @ + 1]
      OBVIOUS
    <2>2. x \in Notice /\ x.is = notices[n].is /\ x.got = notices[n].got + 1 /\ notices[n].got \in Nat
      BY <1>6, <2>1 DEF Notice
    <2>3. PICK v : v = [round[q] EXCEPT !.todo = <<"mark", "send">>]
      OBVIOUS
    <2>4. notices' = [notices EXCEPT ![n] = x] /\ MoveTo(q, v)
      <3>1. <<"mark">> \o round[q].todo = <<"mark", "send">>
        BY <1>3, MarkBefore
      <3>2. [round[q] EXCEPT !.todo = <<"mark">> \o @] = v
        BY <2>3, <3>1
      <3>3. QED
        BY <1>12, <2>1, <3>2 DEF SetNotice, MoveTo
    <2>5. v.todo = <<"mark", "send">> /\ v.due = round[q].due /\ IsRound(v)
      <3>1. PICK todo : todo = <<"mark", "send">>
        OBVIOUS
      <3>1a. todo \in Seq(UsageSteps)
        BY <3>1 DEF UsageSteps
      <3>2. v = [round[q] EXCEPT !.todo = todo]
        BY <2>3, <3>1
      <3>3. QED
        BY <1>3, <3>1, <3>1a, <3>2 DEF IsRound
    <2>6. v.todo # <<>> /\ v.todo[1] = "mark" /\ Follows(v.todo)
      BY <2>5 DEF Follows, MayFollow
    <2>7. Moves(q, v)
      BY <1>1, <1>3, <2>4, <2>5, <2>6 DEF Moves
    <2>8. FirstOf(v.due) = n
      BY <1>4, <2>5 DEF FirstOf, FirstDue
    <2>9. ~doubled => notices[n].is = "queued" /\ notices[n].got = 0
      <3>1. ~AtStep(q, "mark")
        BY <1>1, <1>3 DEF AtStep
      <3>2. QED
        BY <1>5, <3>1 DEF UsageInv, FlushesApart
    <2>10. SettlesFirst(q, v, n, x)
      BY <1>1, <1>2, <1>3, <1>4, <1>5, <2>2, <2>4, <2>5, <2>6, <2>8, <2>9 DEF SettlesFirst
    <2>11. QED
      BY <1>2, <2>7, <2>10, FlushGoesOn
  <1>13. QED
    BY <1>4, <1>10, <1>11, <1>12 DEF SendDue

LEMMA MarkSentKeeps ==
  ASSUME UsageInv, NEW q \in Rounds, MarkSent(q)
  PROVE  UsageInv'
  <1>1. Busy(q) /\ round[q].todo[1] = "mark" /\ AtStep(q, "mark")
    BY RoundTyped DEF MarkSent, AtStep
  <1>2. UNCHANGED <<service, alerts, said, heard, muddled, doubled>>
    BY DEF MarkSent, SetNotice, usageGhosts
  <1>3. round[q].todo \in Seq(UsageSteps) /\ Follows(round[q].todo) /\ round[q].todo # <<>> /\ IsRound(round[q])
    BY <1>1, RoundTyped
  <1>4. PICK n : n = FirstDue(q)
    OBVIOUS
  <1>5. /\ round[q].due # {} /\ n \in round[q].due /\ n \in 1..Len(notices)
        /\ notices[n].is \in {"queued", "sent"} /\ notices[n].got > 0
    BY <1>1, <1>4, MarksOne, MarksTheFirst DEF UsageInv, FlushesApart
  <1>6. notices[n] \in Notice
    BY <1>5 DEF UsageInv, RoundsTyped
  <1>7. PICK x : x = [notices[n] EXCEPT !.is = "sent"]
    OBVIOUS
  <1>8. x \in Notice /\ x.is = "sent" /\ x.got = notices[n].got
    BY <1>6, <1>7 DEF Notice
  <1>9. PICK w : w = [Settled(q) EXCEPT !.todo = Tail(@)]
    OBVIOUS
  <1>10. Tail(round[q].todo) = <<"send">>
    <2>1. Len(round[q].todo) = 2 /\ round[q].todo[2] = "send"
      BY <1>1, <1>3 DEF Follows
    <2>2. PICK rest : rest = Tail(round[q].todo)
      OBVIOUS
    <2>3. rest \in Seq(UsageSteps) /\ Len(rest) = 1 /\ rest[1] = "send"
      BY <1>3, <2>1, <2>2
    <2>4. rest = <<"send">>
      BY <2>3
    <2>5. QED
      BY <2>2, <2>4
  <1>11. IsRound(w) /\ w.todo = <<"send">> /\ w.due = round[q].due \ {n}
    <2>1. Tail(round[q].todo) \in Seq(UsageSteps)
      BY <1>3
    <2>2. PICK todo \in Seq(UsageSteps) : todo = Tail(round[q].todo) /\ todo = <<"send">>
      BY <1>10, <2>1
    <2>3. w = [round[q] EXCEPT !.todo = todo, !.due = @ \ {n}]
      BY <1>3, <1>4, <1>9, <2>2 DEF Settled, IsRound
    <2>4. QED
      BY <1>3, <2>2, <2>3 DEF IsRound
  <1>12. notices' = [notices EXCEPT ![n] = x] /\ MoveTo(q, w)
    BY <1>4, <1>7, <1>9 DEF MarkSent, SetNotice, MoveTo
  <1>13. QED
    BY <1>1, <1>2, <1>4, <1>5, <1>8, <1>11, <1>12, SettledOne
-------------------------------------------------------------------------------
(* Rounds that begin, and what happens beside them.                              *)

LEMMA BeginRoundKeeps ==
  ASSUME UsageInv, NEW q \in Rounds, BeginRound(q)
  PROVE  UsageInv'
  <1>1. PICK plan \in Kinds : round' = [round EXCEPT ![q].todo = plan]
    BY DEF BeginRound
  <1>2. plan \in Seq(UsageSteps) /\ plan # <<>> /\ Follows(plan) /\ plan[1] \notin Dependent
    BY KindsBegin DEF Begins
  <1>3. PICK w : w = [round[q] EXCEPT !.todo = plan]
    OBVIOUS
  <1>4. /\ UNCHANGED <<service, alerts, notices, said, heard>> /\ ~Busy(q)
        /\ muddled' = (muddled \/ \E p \in Rounds \ {q} : Busy(p))
        /\ doubled' = (doubled \/ \E p \in Rounds \ {q} : Leads(p, "send"))
    BY DEF BeginRound
  <1>5. IsRound(round[q]) /\ round[q].due = {}
    BY <1>4, RoundTyped DEF InHand, Busy
  <1>6. IsRound(w) /\ w.todo = plan /\ w.due = {}
    BY <1>2, <1>3, <1>5 DEF IsRound
  <1>7. round'[q] = w /\ round' = [round EXCEPT ![q] = w] /\ \A p \in Rounds : p # q => round'[p] = round[p]
    BY <1>1, <1>3 DEF UsageInv, RoundsTyped
  <1>8. RoundsTyped'
    <2>1. round' = [p \in Rounds |-> round'[p]]
      BY <1>7 DEF UsageInv, RoundsTyped
    <2>2. \A p \in Rounds : IsRound(round'[p]) /\ Follows(round'[p].todo)
      BY <1>2, <1>6, <1>7 DEF UsageInv, RoundsTyped
    <2>3. QED
      BY <1>4, <2>1, <2>2 DEF UsageInv, RoundsTyped
  <1>9. ~AtStep(q, "mark") /\ ~AtStep(q, "mark")'
    <2>1. Head(plan) = plan[1]
      BY <1>2
    <2>2. QED
      BY <1>2, <1>4, <1>6, <1>7, <2>1 DEF AtStep, Dependent
  <1>10. \A p \in Rounds : p # q => AtStep(p, "mark")' = AtStep(p, "mark") /\ FirstDue(p)' = FirstDue(p)
    BY <1>7 DEF AtStep, Busy, FirstDue
  <1>11. doubled => doubled'
    BY <1>4
  <1>12. Delivered'
    <2>1. \A n : (\E p \in Rounds : AtStep(p, "mark") /\ FirstDue(p) = n)
                 => (\E p \in Rounds : AtStep(p, "mark")' /\ FirstDue(p)' = n)
      BY <1>9, <1>10
    <2>2. QED
      BY <1>4, <1>11, <2>1 DEF UsageInv, Delivered
  <1>13. \A p \in Rounds : InHand(round[p])'
    <2>1. InHand(w)'
      BY <1>2, <1>6 DEF InHand, Dependent
    <2>2. QED
      BY <1>4, <1>7, <2>1, NoticesLeft, StillInHand
  <1>14. \A p \in Rounds : AtStep(p, "mark")' => notices'[FirstDue(p)'].got > 0
    BY <1>4, <1>9, <1>10 DEF UsageInv, FlushesApart
  <1>15. ASSUME ~doubled', NEW o \in Rounds, NEW p \in Rounds, Sending(round'[o].todo), Sending(round'[p].todo)
         PROVE  o = p
    <2>1. ASSUME NEW v \in Rounds, v # q PROVE ~Sending(round'[v].todo)
      <3>1. ~Leads(v, "send") /\ round[v].todo \in Seq(UsageSteps)
        BY <1>4, <1>15, <2>1, RoundTyped
      <3>2. QED
        BY <1>7, <2>1, <3>1 DEF Leads, Sending
    <2>2. QED
      BY <1>15, <2>1
  <1>16. ASSUME ~doubled', NEW p \in Rounds, NEW n \in round'[p].due
         PROVE  notices'[n].is = "queued" /\ (notices'[n].got = 0 \/ (AtStep(p, "mark")' /\ FirstDue(p)' = n))
    <2>1. p # q /\ n \in round[p].due
      BY <1>6, <1>7, <1>16
    <2>2. QED
      BY <1>4, <1>10, <1>11, <1>16, <2>1 DEF UsageInv, FlushesApart
  <1>17. FlushesApart'
    BY <1>13, <1>14, <1>15, <1>16 DEF FlushesApart
  <1>18. Informed'
    <2>1. SUFFICES ASSUME ~muddled'
                   PROVE  /\ \A p \in Rounds : Busy(p)' => p = q
                          /\ Knows(w)' /\ Busy(q)' /\ Reported(alerts)'
      BY <1>7 DEF Informed
    <2>2. ~muddled /\ \A p \in Rounds : ~Busy(p)
      BY <1>4, <2>1
    <2>3. \A p \in Rounds : Busy(p)' => p = q
      BY <1>7, <2>2 DEF Busy
    <2>4. Told /\ Reported(alerts)
      BY <2>2, KnowsNow
    <2>5. Told' /\ Reported(alerts)'
      BY <1>4, <2>4 DEF Told, ToBeTold, Reported
    <2>6. Knows(w)'
      BY <1>2, <1>6, <2>5 DEF Knows, Dependent
    <2>7. Busy(q)'
      BY <1>2, <1>6, <1>7 DEF Busy
    <2>8. QED
      BY <2>3, <2>5, <2>6, <2>7
  <1>19. QED
    BY <1>8, <1>12, <1>17, <1>18 DEF UsageInv

\* A step that no round takes.
LEMMA Beside ==
  ASSUME UsageInv, CalmNotices, UNCHANGED <<service, alerts, round, said, heard, muddled, doubled>>
  PROVE  UsageInv'
  <1>1. RoundsTyped'
    BY DEF CalmNotices, UsageInv, RoundsTyped
  <1>2. /\ \A p \in Rounds : AtStep(p, "mark")' = AtStep(p, "mark") /\ FirstDue(p)' = FirstDue(p)
        /\ \A p \in Rounds : Busy(p)' = Busy(p)
    BY DEF AtStep, Busy, FirstDue
  <1>3. Delivered'
    <2>1. ASSUME NEW n \in 1..Len(notices')
          PROVE  /\ notices'[n].is \in {"held", "failed", "lost"} => notices'[n].got = 0
                 /\ notices'[n].is = "sent" => notices'[n].got > 0 \/ notices'[n].refused
                 /\ notices'[n].got > 1 => doubled'
                 /\ notices'[n].is = "queued" /\ notices'[n].got > 0 =>
                       doubled' \/ \E p \in Rounds : AtStep(p, "mark")' /\ FirstDue(p)' = n
      <3>1. CASE n <= Len(notices) /\ notices[n].is \in {"queued", "sent"}
        <4>1. n \in 1..Len(notices) /\ notices'[n] = notices[n]
          BY <3>1 DEF CalmNotices, UsageInv, RoundsTyped
        <4>2. QED
          BY <1>2, <4>1 DEF UsageInv, Delivered
      <3>2. CASE ~(n <= Len(notices) /\ notices[n].is \in {"queued", "sent"})
        <4>1. OneDelivered(notices'[n]) /\ notices'[n] \in Notice
          BY <3>2 DEF CalmNotices, UsageInv, RoundsTyped
        <4>2. QED
          BY <4>1 DEF OneDelivered, Notice
      <3>3. QED
        BY <3>1, <3>2
    <2>2. QED
      BY <2>1 DEF Delivered
  <1>4. \A p \in Rounds : InHand(round[p])'
    BY StillInHand
  <1>5. \A p \in Rounds : \A n \in round[p].due : notices'[n] = notices[n]
    BY RoundTyped DEF CalmNotices, InHand
  <1>6. FlushesApart'
    <2>1. \A p \in Rounds : AtStep(p, "mark")' => notices'[FirstDue(p)'].got > 0
      BY <1>2, <1>5, MarksOne DEF UsageInv, FlushesApart
    <2>2. ASSUME ~doubled', NEW p \in Rounds, NEW n \in round'[p].due
          PROVE  notices'[n].is = "queued" /\ (notices'[n].got = 0 \/ (AtStep(p, "mark")' /\ FirstDue(p)' = n))
      BY <1>2, <1>5, <2>2 DEF UsageInv, FlushesApart
    <2>3. ~doubled' => \A o, p \in Rounds : Sending(round'[o].todo) /\ Sending(round'[p].todo) => o = p
      BY DEF UsageInv, FlushesApart
    <2>4. QED
      BY <1>4, <2>1, <2>2, <2>3 DEF FlushesApart
  <1>7. Informed'
    BY <1>2 DEF UsageInv, Informed, Knows, Told, ToBeTold, Reported
  <1>8. QED
    BY <1>1, <1>3, <1>6, <1>7 DEF UsageInv

LEMMA NoticeKeeps ==
  ASSUME UsageInv, NEW n \in DOMAIN notices, Deliver(n) \/ Enqueue(n)
  PROVE  UsageInv'
  <1>1. /\ notices \in Seq(Notice) /\ n \in 1..Len(notices) /\ notices[n] \in Notice
        /\ notices[n].is \in {"held", "failed"} /\ notices[n].got = 0
    BY DEF UsageInv, RoundsTyped, Delivered, Deliver, Enqueue
  <1>2. UNCHANGED <<service, alerts, round, said, heard, muddled, doubled>>
    BY DEF Deliver, Enqueue, SetNotice, usageGhosts
  <1>3. PICK x \in Notice : notices' = [notices EXCEPT ![n] = x] /\ OneDelivered(x)
    <2>1. PICK a, b, c, d : /\ a = [notices[n] EXCEPT !.is = "sent", !.refused = TRUE]
                            /\ b = [notices[n] EXCEPT !.is = "sent", !.got = 1]
                            /\ c = [notices[n] EXCEPT !.is = "failed"]
                            /\ d = [notices[n] EXCEPT !.is = "queued"]
      OBVIOUS
    <2>2. a \in Notice /\ OneDelivered(a) /\ b \in Notice /\ OneDelivered(b)
      BY <1>1, <2>1 DEF Notice, OneDelivered
    <2>3. c \in Notice /\ OneDelivered(c) /\ d \in Notice /\ OneDelivered(d)
      BY <1>1, <2>1 DEF Notice, OneDelivered
    <2>4. notices' \in {[notices EXCEPT ![n] = y] : y \in {a, b, c, d}}
      BY <2>1 DEF Deliver, Enqueue, SetNotice
    <2>5. QED
      BY <2>2, <2>3, <2>4
  <1>4. /\ notices' \in Seq(Notice) /\ Len(notices') = Len(notices) /\ notices'[n] = x
        /\ \A m \in 1..Len(notices) : m # n => notices'[m] = notices[m]
    BY <1>1, <1>3
  <1>5. \A m \in 1..Len(notices) : notices[m].is \notin {"queued", "sent"} => OneDelivered(notices[m])
    BY <1>1 DEF UsageInv, Delivered, Notice, OneDelivered
  <1>6. CalmNotices
    BY <1>1, <1>3, <1>4, <1>5 DEF CalmNotices
  <1>7. QED
    BY <1>2, <1>6, Beside

LEMMA OthersKeep ==
  ASSUME UsageInv, Change \/ NotifyActivity \/ SetMuted
  PROVE  UsageInv'
  <1>1. UNCHANGED <<service, alerts, round, said, heard, muddled, doubled>>
    BY DEF Change, NotifyActivity, SetMuted, usageGhosts
  <1>2. CalmNotices
    BY NoticesLeft, NewNoticeCalm DEF Change, NotifyActivity, SetMuted
  <1>3. QED
    BY <1>1, <1>2, Beside

LEMMA CrashKeeps ==
  ASSUME UsageInv, Crash
  PROVE  UsageInv'
  <1>1. /\ UNCHANGED <<service, alerts, said, heard>> /\ round' = [p \in Rounds |-> NoRound]
        /\ muddled' = (muddled \/ \E p \in Rounds : AtStep(p, "say"))
        /\ doubled' = (doubled \/ \E p \in Rounds : Leads(p, "mark"))
    BY DEF Crash
  <1>2. notices \in Seq(Notice) /\ DOMAIN notices = 1..Len(notices) /\ Len(notices) \in Nat
    BY DEF UsageInv, RoundsTyped
  <1>3. \A n \in 1..Len(notices) :
          [notices[n] EXCEPT !.is = IF @ \in {"held", "failed"} THEN "lost" ELSE @] \in Notice
    <2> SUFFICES ASSUME NEW n \in 1..Len(notices)
                 PROVE  [notices[n] EXCEPT !.is = IF @ \in {"held", "failed"} THEN "lost" ELSE @] \in Notice
      OBVIOUS
    <2>1. notices[n] \in Notice
      BY <1>2
    <2>2. PICK is : is = IF notices[n].is \in {"held", "failed"} THEN "lost" ELSE notices[n].is
      OBVIOUS
    <2>3. is \in {"held", "failed", "queued", "sent", "lost"}
      BY <2>1, <2>2 DEF Notice
    <2>4. [notices[n] EXCEPT !.is = is] \in Notice
      BY <2>1, <2>3 DEF Notice
    <2>5. QED
      BY <2>2, <2>4
  <1>4. /\ notices' \in Seq(Notice) /\ Len(notices') = Len(notices)
        /\ \A n \in 1..Len(notices) :
              notices'[n] = [notices[n] EXCEPT !.is = IF @ \in {"held", "failed"} THEN "lost" ELSE @]
    <2>1. notices' = [n \in 1..Len(notices) |->
                        [notices[n] EXCEPT !.is = IF @ \in {"held", "failed"} THEN "lost" ELSE @]]
      BY <1>2 DEF Crash
    <2>2. notices' \in [1..Len(notices) -> Notice]
      BY <1>3, <2>1
    <2>3. QED
      BY <1>2, <2>1, <2>2
  <1>5. \A p \in Rounds : round'[p] = NoRound /\ ~Busy(p)' /\ ~AtStep(p, "mark")'
    BY <1>1, NoRoundTyped DEF Busy, AtStep
  <1>6. RoundsTyped'
    BY <1>1, <1>4, <1>5, NoRoundTyped DEF UsageInv, RoundsTyped
  <1>7. ASSUME NEW n \in 1..Len(notices')
        PROVE  /\ notices'[n].is \in {"held", "failed", "lost"} => notices'[n].got = 0
               /\ notices'[n].is = "sent" => notices'[n].got > 0 \/ notices'[n].refused
               /\ notices'[n].got > 1 => doubled'
               /\ notices'[n].is = "queued" /\ notices'[n].got > 0 => doubled'
    <2>1. /\ n \in 1..Len(notices) /\ notices[n] \in Notice
          /\ notices'[n] = [notices[n] EXCEPT !.is = IF @ \in {"held", "failed"} THEN "lost" ELSE @]
      BY <1>2, <1>4
    <2>2. /\ notices'[n].got = notices[n].got /\ notices'[n].refused = notices[n].refused
          /\ notices'[n].is = IF notices[n].is \in {"held", "failed"} THEN "lost" ELSE notices[n].is
      BY <2>1 DEF Notice
    <2>3. \A p \in Rounds : AtStep(p, "mark") => Leads(p, "mark")
      <3> SUFFICES ASSUME NEW p \in Rounds, AtStep(p, "mark") PROVE Leads(p, "mark")
        OBVIOUS
      <3>1. round[p].todo \in Seq(UsageSteps) /\ round[p].todo # <<>> /\ round[p].todo[1] = "mark"
        BY RoundTyped DEF AtStep
      <3>2. 1 \in DOMAIN round[p].todo
        BY <3>1
      <3>3. QED
        BY <3>1, <3>2 DEF Leads
    <2>4. notices[n].is = "queued" /\ notices[n].got > 0 => doubled'
      BY <1>1, <2>1, <2>3 DEF UsageInv, Delivered
    <2>5. QED
      BY <1>1, <2>1, <2>2, <2>4 DEF UsageInv, Delivered
  <1>8. Delivered'
    BY <1>7 DEF Delivered
  <1>9. FlushesApart'
    <2>1. \A p \in Rounds : InHand(round[p])'
      BY <1>5, NoRoundTyped DEF InHand
    <2>2. QED
      BY <1>5, <2>1, NoRoundTyped DEF FlushesApart
  <1>10. Informed'
    <2>1. SUFFICES ASSUME ~muddled' PROVE Told' /\ Reported(alerts)'
      BY <1>5 DEF Informed
    <2>2. ~muddled /\ \A p \in Rounds : Busy(p) => round[p].todo[1] # "say"
      BY <1>1, <2>1, RoundTyped DEF AtStep
    <2>3. Told /\ Reported(alerts)
      BY <2>2, KnowsNow
    <2>4. QED
      BY <1>1, <2>3 DEF Told, ToBeTold, Reported
  <1>11. QED
    BY <1>6, <1>8, <1>9, <1>10 DEF UsageInv
-------------------------------------------------------------------------------
(* The theorems.                                                                 *)

LEMMA UsageInitInv ==
  ASSUME UsageInit
  PROVE  UsageInv
  <1>1. /\ service = RowOf(Fresh) /\ alerts = AlertsOf(Fresh) /\ notices = <<>>
        /\ round = [q \in Rounds |-> NoRound] /\ said = {} /\ heard = {}
    BY DEF UsageInit
  <1>2. service = [status |-> "active", left |-> 2] /\ alerts = [traffic |-> "normal", expiry |-> "normal"]
    BY <1>1 DEF RowOf, StatusOf, AlertsOf, Fresh, Meter
  <1>3. \A q \in Rounds : round[q] = NoRound /\ ~Busy(q) /\ ~AtStep(q, "mark")
    BY <1>1, NoRoundTyped DEF Busy, AtStep
  <1>4. RoundsTyped
    BY <1>1, <1>2, <1>3, NoRoundTyped DEF RoundsTyped
  <1>5. Delivered
    BY <1>1 DEF Delivered
  <1>6. FlushesApart
    <2>1. \A q \in Rounds : InHand(round[q])
      BY <1>3, NoRoundTyped DEF InHand
    <2>2. QED
      BY <1>3, <2>1, NoRoundTyped DEF FlushesApart
  <1>7. Informed
    BY <1>2, <1>3 DEF Informed, Told, ToBeTold, Reported
  <1>8. QED
    BY <1>4, <1>5, <1>6, <1>7 DEF UsageInv

LEMMA UsageStepInv ==
  ASSUME UsageInv, [UsageNext]_usageVars
  PROVE  UsageInv'
  <1>1. ASSUME UNCHANGED usageVars PROVE UsageInv'
    <2>1. UNCHANGED <<service, alerts, notices, round, said, heard, muddled, doubled>>
      BY <1>1 DEF usageVars, usageGhosts
    <2>2. QED
      BY <2>1, NoticesLeft, Beside
  <1>2. ASSUME NEW q \in Rounds,
               \/ BeginRound(q) \/ FailsAt(q)
               \/ ReadRow(q) \/ Fetch(q) \/ Search(q) \/ MarkGone(q) \/ Store(q) \/ Say(q)
               \/ FetchToBind(q) \/ BindRow(q) \/ DeleteMeter(q) \/ NothingSpent(q) \/ ReportCleanUp(q)
               \/ ListForScan(q) \/ ReadAlerts(q) \/ SendAlerts(q) \/ KeepAlerts(q)
               \/ ListDue(q) \/ SendDue(q) \/ MarkSent(q) \/ AllSent(q)
        PROVE  UsageInv'
    BY <1>2, BeginRoundKeeps, FailsAtKeeps, ReadRowKeeps, FetchKeeps, LearnsKeeps, MarkGoneKeeps, StoreKeeps,
       SayKeeps, BindRowKeeps, DeleteMeterKeeps, ReportCleanUpKeeps, ReadAlertsKeeps, SendAlertsKeeps,
       KeepAlertsKeeps, ListDueKeeps, SendDueKeeps, MarkSentKeeps
  <1>3. QED
    BY <1>1, <1>2, CrashKeeps, OthersKeep, NoticeKeeps DEF UsageNext

\* In every behaviour rounds, notices and what people were told of belong together.
THEOREM UsageInvariant == UsageSpec => []UsageInv
  <1>1. QED
    BY UsageInitInv, UsageStepInv, PTL DEF UsageSpec

\* A notice that could not be delivered waits until it is, or until its recipient wants no more of
\* its kind, and it is delivered once, unless two flushes overlap or the process stops between
\* sending and marking (flush_pending_admin_activity_notifications).
THEOREM NoticesAreAccountedFor == UsageSpec => []NoticesAccountedFor
  <1>1. ASSUME UsageInv PROVE NoticesAccountedFor
    <2>1. Delivered /\ DOMAIN notices = 1..Len(notices)
      BY <1>1 DEF UsageInv, RoundsTyped
    <2>2. QED
      BY <2>1 DEF Delivered, NoticesAccountedFor
  <1>2. QED
    BY <1>1, UsageInvariant, PTL

\* Whenever no round is under way, the user was told of the end that is stored and the delegated
\* admin of the alert states that are, whatever ended in between, was paid for, or failed: unless
\* two rounds overlapped, a binding stored the end, or what was stored could not be followed up
\* (sync_all_services, _notify_service_state_changes, _scan_delegated_admin_alerts).
THEOREM EndsToldAlways == UsageSpec => []EndsAreTold
  <1>1. ASSUME UsageInv PROVE EndsAreTold
    <2>1. SUFFICES ASSUME ~muddled, \A q \in Rounds : ~Busy(q)
                   PROVE  /\ service.status \in {"expired", "depleted"} => said # {}
                          /\ {alerts.traffic, alerts.expiry} \subseteq heard \cup {"normal"}
      BY DEF EndsAreTold
    <2>2. Told /\ Reported(alerts)
      BY <1>1, <2>1, KnowsNow
    <2>3. QED
      BY <2>2 DEF Told, ToBeTold, Reported
  <1>2. QED
    BY <1>1, UsageInvariant, PTL
===============================================================================
