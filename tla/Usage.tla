--------------------------------- MODULE Usage ---------------------------------
(***************************************************************************)
(* What the bot keeps of a client's usage, and what it tells people        *)
(* (usage_service.py): the row of the service that a user is bound to, the *)
(* alert states of the client's delegated admin, and the queue of notices  *)
(* to admins that could not be delivered at once.  One client is enough:   *)
(* rows do not influence each other.  A round is one run of a job, button  *)
(* or command, as the plan of its calls; rounds overlap, calls fail, and   *)
(* the process may crash.                                                  *)
(***************************************************************************)
EXTENDS Integers, Sequences, FiniteSets, TLC

CONSTANTS Rounds,
          UsageLoads   \* bounds: [changes, rounds, notices, crashes, overlap], all of them \in Nat

VARIABLES bounds,    \* the load of this behaviour
          meter,     \* the client on the panel
          service,   \* user_services
          alerts,    \* delegated_admin_client_alert_states
          muted,     \* the recipient of the notices has disabled this kind
          notices,   \* admin_activity_notifications, and what became of each notice
          round,     \* where each round stands
          made,      \* how many changes, rounds, notices and crashes there were
          said,      \* ends the user was told of since the service was last stored as active
          heard,     \* states the delegated admin was told of
          muddled,   \* the row was stored by a binding, by two rounds at once, or not followed up
          doubled    \* two flushes overlapped, or a crash broke one off

usageGhosts == <<said, heard, muddled, doubled>>
usageVars == <<bounds, meter, service, alerts, muted, notices, round, made, usageGhosts>>

\* left: 2 is more than 100 MB, 1 is up to 100 MB, 0 is nothing.
Meter(left, late, on) == [there |-> TRUE, left |-> left, late |-> late, on |-> on]
Fresh == Meter(2, FALSE, TRUE)

\* _normalize_traffic: the first thing that is wrong.
StatusOf(m) ==
    IF ~m.on THEN "suspended" ELSE IF m.late THEN "expired" ELSE IF m.left = 0 THEN "depleted" ELSE "active"
RowOf(m) == [status |-> StatusOf(m), left |-> m.left]

\* _delegated_alert_state and _delegated_expiry_alert_state
AlertsOf(m) == [traffic |-> CASE m.left = 0 -> "depleted" [] m.left = 1 -> "low" [] OTHER -> "normal",
                expiry |-> IF m.late THEN "expired" ELSE "normal"]
NoRound == [todo |-> <<>>, prev |-> RowOf(Fresh), saw |-> Fresh, old |-> AlertsOf(Fresh), due |-> {}]

UsageInit ==
    /\ bounds \in UsageLoads
    /\ meter = Fresh
    /\ service = RowOf(Fresh)
    /\ alerts = AlertsOf(Fresh)
    /\ muted = FALSE
    /\ notices = <<>>
    /\ round = [q \in Rounds |-> NoRound]
    /\ made = [changes |-> 0, rounds |-> 0, notices |-> 0, crashes |-> 0]
    /\ said = {}
    /\ heard = {}
    /\ muddled = FALSE
    /\ doubled = FALSE
-------------------------------------------------------------------------------
\* The rounds, each as the calls it makes.
SyncServiceRow == <<"row", "fetch", "store", "say">>
RefreshUserServices == SyncServiceRow
ScanDelegatedAlerts == <<"list", "old", "alert", "keep">>
CleanUpDepleted == <<"spent", "mark_gone", "report">>
FlushPending == <<"due", "send">>
RefreshAllServices == SyncServiceRow \o ScanDelegatedAlerts \o CleanUpDepleted \o FlushPending
BindService == <<"usage", "bind">>
HandleStart == BindService
\* An admin is only bound, a user who has no service yet or waited long enough first, and who
\* has been bound a moment ago once more.
SendServiceStatus == {BindService, BindService \o RefreshUserServices, RefreshUserServices,
                      RefreshUserServices \o BindService \o <<"row_again">> \o Tail(SyncServiceRow)}
BindMissingService == BindService \o RefreshUserServices
DeleteService == <<"delete", "mark_gone">>

Kinds == {RefreshAllServices, HandleStart, BindMissingService, DeleteService} \cup SendServiceStatus
Parts == {"row", "usage", "list", "spent", "due"}

Busy(q) == round[q].todo # <<>>
AtStep(q, step) == Busy(q) /\ Head(round[q].todo) = step
Leads(q, step) == step \in {round[q].todo[k] : k \in DOMAIN round[q].todo}
After(q) == [round[q] EXCEPT !.todo = Tail(@)]

\* A round goes on with its next part when one part fails or has nothing to do.
NextPart(todo) ==
    LET starts == {k \in 2..Len(todo) : todo[k] \in Parts}
    IN  IF starts = {} THEN <<>> ELSE SubSeq(todo, CHOOSE k \in starts : \A j \in starts : k <= j, Len(todo))
Skips(q) == [round[q] EXCEPT !.todo = NextPart(@)]

MoveTo(q, w) == round' = [round EXCEPT ![q] = IF w.todo = <<>> THEN NoRound ELSE w]
Learns(q, w) == /\ MoveTo(q, w)
                /\ UNCHANGED <<bounds, meter, service, alerts, muted, notices, made, usageGhosts>>
Counts(what) == made[what] < bounds[what] /\ made' = [made EXCEPT ![what] = @ + 1]

\* The client is used, gets traffic or days, is switched or added again, by whomever.
Change ==
    /\ Counts("changes")
    /\ meter' \in ({[meter EXCEPT !.left = left] : left \in 0..2}
                   \cup {Fresh, [meter EXCEPT !.late = ~@], [meter EXCEPT !.on = ~@]}) \ {meter}
    /\ UNCHANGED <<bounds, service, alerts, muted, notices, round, usageGhosts>>

\* The job, the sync button of an admin, a user who looks at the status, a binding, a deletion.
BeginRound(q) ==
    /\ ~Busy(q)
    /\ Cardinality({p \in Rounds : Busy(p)}) < bounds.overlap
    /\ Counts("rounds")
    /\ \E plan \in Kinds : round' = [round EXCEPT ![q].todo = plan]
    /\ muddled' = (muddled \/ \E p \in Rounds \ {q} : Busy(p))
    /\ doubled' = (doubled \/ \E p \in Rounds \ {q} : Leads(p, "send"))
    /\ UNCHANGED <<bounds, meter, service, alerts, muted, notices, said, heard>>

\* A call fails: the panel, or the database.  Without the rows there is no round.
FailsAt(q) ==
    /\ Busy(q)
    /\ Head(round[q].todo) \notin {"mark", "report"}
    /\ MoveTo(q, IF AtStep(q, "row") THEN NoRound ELSE Skips(q))
    /\ muddled' = (muddled \/ AtStep(q, "say"))
    /\ UNCHANGED <<bounds, meter, service, alerts, muted, notices, made, said, heard, doubled>>

\* What was in hand is lost.
Crash ==
    /\ Counts("crashes")
    /\ round' = [q \in Rounds |-> NoRound]
    /\ notices' = [n \in DOMAIN notices |->
                      [notices[n] EXCEPT !.is = IF @ \in {"held", "failed"} THEN "lost" ELSE @]]
    /\ muddled' = (muddled \/ \E q \in Rounds : AtStep(q, "say"))
    /\ doubled' = (doubled \/ \E q \in Rounds : Leads(q, "mark"))
    /\ UNCHANGED <<bounds, meter, service, alerts, muted, said, heard>>
-------------------------------------------------------------------------------
\* The rows that are not deleted are read once, at the start.
ReadRow(q) == /\ AtStep(q, "row") \/ AtStep(q, "row_again")
              /\ Learns(q, IF service.status = "deleted" THEN Skips(q) ELSE [After(q) EXCEPT !.prev = service])

\* fetch_client_usage.  The traffic of a client that is there may be reported missing.
Fetch(q) ==
    /\ AtStep(q, "fetch")
    /\ \/ meter.there /\ Learns(q, [After(q) EXCEPT !.saw = meter])
       \/ Learns(q, [round[q] EXCEPT !.todo = <<"search", "mark_gone">> \o NextPart(@)])

\* The row of a client that a search finds is kept; when the search fails, nothing is found.
Search(q) ==
    /\ AtStep(q, "search")
    /\ \/ meter.there /\ Learns(q, Skips(q))
       \/ Learns(q, After(q))

MarkGone(q) ==
    /\ AtStep(q, "mark_gone")
    /\ service' = [service EXCEPT !.status = "deleted"]
    /\ MoveTo(q, After(q))
    /\ UNCHANGED <<bounds, meter, alerts, muted, notices, made, usageGhosts>>

Stores(q) ==
    /\ service' = RowOf(round[q].saw)
    /\ said' = IF StatusOf(round[q].saw) = "active" THEN {} ELSE said
    /\ MoveTo(q, After(q))
    /\ UNCHANGED <<bounds, meter, alerts, muted, notices, made, heard, doubled>>

\* update_user_service_stats, whatever has been stored since the row was read.
Store(q) == AtStep(q, "store") /\ Stores(q) /\ UNCHANGED muddled

\* The row as it is now, for the row before.
EndsFromNow(prev, saw) == {e \in {"expired", "depleted"} : e = StatusOf(saw) /\ e # service.status}

\* _notify_service_state_changes, without the thresholds before the end.
Ends(prev, saw) ==
    IF StatusOf(saw) = "expired" THEN {"expired"} \ {prev.status}
    ELSE IF saw.left = 0 /\ prev.left # 0 /\ prev.status # "depleted" THEN {"depleted"} ELSE {}

\* The user and the manager are told; a message that cannot be sent is not repeated.
Say(q) == /\ AtStep(q, "say")
          /\ said' = said \cup Ends(round[q].prev, round[q].saw)
          /\ MoveTo(q, After(q))
          /\ UNCHANGED <<bounds, meter, service, alerts, muted, notices, made, heard, muddled, doubled>>

\* bind_service_to_user stores what it has fetched and tells nobody.
FetchToBind(q) == AtStep(q, "usage") /\ meter.there /\ Learns(q, [After(q) EXCEPT !.saw = meter])
BindRow(q) == AtStep(q, "bind") /\ Stores(q) /\ muddled' = (muddled \/ StatusOf(round[q].saw) # "active")
-------------------------------------------------------------------------------
\* _scan_delegated_admin_alerts: the clients of the inbound, the states before, the messages,
\* the states now, whether or not the messages went through.
ListForScan(q) ==
    /\ AtStep(q, "list")
    /\ Learns(q, IF meter.there THEN [After(q) EXCEPT !.saw = meter] ELSE Skips(q))
ReadAlerts(q) == AtStep(q, "old") /\ Learns(q, [After(q) EXCEPT !.old = alerts])
SendAlerts(q) ==
    LET now == AlertsOf(round[q].saw)
    IN  /\ AtStep(q, "alert")
        /\ heard' = heard \cup (({now.traffic, now.expiry} \ {"normal"})
                                \ {round[q].old.traffic, round[q].old.expiry})
        /\ MoveTo(q, After(q))
        /\ UNCHANGED <<bounds, meter, service, alerts, muted, notices, made, said, muddled, doubled>>
KeepAlerts(q) ==
    LET now == AlertsOf(round[q].saw)
    IN  /\ AtStep(q, "keep")
        /\ alerts' = now
        /\ heard' = heard \cap {now.traffic, now.expiry}
        /\ MoveTo(q, After(q))
        /\ UNCHANGED <<bounds, meter, service, muted, notices, made, said, muddled, doubled>>
-------------------------------------------------------------------------------
\* An admin deletes the client, or it was used up long enough ago.
DeleteMeter(q) ==
    /\ meter.there
    /\ \/ AtStep(q, "delete")
       \/ AtStep(q, "spent") /\ (meter.left = 0 \/ meter.late)
    /\ meter' = [meter EXCEPT !.there = FALSE]
    /\ MoveTo(q, After(q))
    /\ UNCHANGED <<bounds, service, alerts, muted, notices, made, usageGhosts>>

NothingSpent(q) == AtStep(q, "spent") /\ Learns(q, Skips(q))

\* A notice to an admin, about what another admin did, or what was cleaned up.
NewNotice == notices' = Append(notices, [is |-> "held", got |-> 0, refused |-> FALSE])
NotifyActivity == /\ Counts("notices")
                  /\ NewNotice
                  /\ UNCHANGED <<bounds, meter, service, alerts, muted, round, usageGhosts>>
ReportCleanUp(q) ==
    /\ AtStep(q, "report")
    /\ IF made.notices < bounds.notices THEN Counts("notices") /\ NewNotice ELSE UNCHANGED <<made, notices>>
    /\ MoveTo(q, After(q))
    /\ UNCHANGED <<bounds, meter, service, alerts, muted, usageGhosts>>

SetNotice(n, x) == /\ notices' = [notices EXCEPT ![n] = x]
                   /\ UNCHANGED <<bounds, meter, service, alerts, muted, made, usageGhosts>>

\* _deliver_bot_notification: skipped, sent, or failed and put in the queue.
Deliver(n) ==
    /\ notices[n].is = "held"
    /\ \/ muted /\ SetNotice(n, [notices[n] EXCEPT !.is = "sent", !.refused = TRUE])
       \/ ~muted /\ SetNotice(n, [notices[n] EXCEPT !.is = "sent", !.got = 1])
       \/ ~muted /\ SetNotice(n, [notices[n] EXCEPT !.is = "failed"])
    /\ UNCHANGED round
Enqueue(n) == /\ notices[n].is = "failed"
              /\ SetNotice(n, [notices[n] EXCEPT !.is = "queued"])
              /\ UNCHANGED round

SetMuted == /\ notices # <<>>
            /\ ~muted
            /\ muted' = TRUE
            /\ UNCHANGED <<bounds, meter, service, alerts, notices, round, made, usageGhosts>>

\* The notices that are due; one that failed is due again after a while.
ListDue(q) ==
    LET queued == {n \in DOMAIN notices : notices[n].is = "queued"}
    IN  AtStep(q, "due") /\ \E due \in SUBSET queued : Learns(q, [After(q) EXCEPT !.due = due])

FirstDue(q) == CHOOSE n \in round[q].due : \A k \in round[q].due : n <= k
Settled(q) == [round[q] EXCEPT !.due = @ \ {FirstDue(q)}]

\* Marked before it is sent.
SendDueMarked(q) ==
    LET n == FirstDue(q)
    IN  /\ AtStep(q, "send")
        /\ round[q].due # {}
        /\ MoveTo(q, Settled(q))
        /\ \/ SetNotice(n, [notices[n] EXCEPT !.is = "sent", !.got = @ + 1])
           \/ SetNotice(n, [notices[n] EXCEPT !.is = "sent"])

\* flush_pending_admin_activity_notifications, one row: a disabled kind is marked as sent, a
\* notice that went through is marked afterwards, one that did not waits.
SendDue(q) ==
    LET n == FirstDue(q)
    IN  /\ AtStep(q, "send")
        /\ round[q].due # {}
        /\ \/ /\ muted
              /\ MoveTo(q, Settled(q))
              /\ SetNotice(n, [notices[n] EXCEPT !.is = "sent", !.refused = TRUE])
           \/ /\ ~muted
              /\ MoveTo(q, [round[q] EXCEPT !.todo = <<"mark">> \o @])
              /\ SetNotice(n, [notices[n] EXCEPT !.got = @ + 1])
           \/ /\ ~muted
              /\ MoveTo(q, Settled(q))
              /\ SetNotice(n, notices[n])
MarkSent(q) == /\ AtStep(q, "mark")
               /\ MoveTo(q, [Settled(q) EXCEPT !.todo = Tail(@)])
               /\ SetNotice(FirstDue(q), [notices[FirstDue(q)] EXCEPT !.is = "sent"])
AllSent(q) == AtStep(q, "send") /\ round[q].due = {} /\ Learns(q, After(q))
-------------------------------------------------------------------------------
UsageNext ==
    \/ Change \/ Crash \/ NotifyActivity \/ SetMuted
    \/ \E n \in DOMAIN notices : Deliver(n) \/ Enqueue(n)
    \/ \E q \in Rounds :
          \/ BeginRound(q) \/ FailsAt(q)
          \/ ReadRow(q) \/ Fetch(q) \/ Search(q) \/ MarkGone(q) \/ Store(q) \/ Say(q)
          \/ FetchToBind(q) \/ BindRow(q) \/ DeleteMeter(q) \/ NothingSpent(q) \/ ReportCleanUp(q)
          \/ ListForScan(q) \/ ReadAlerts(q) \/ SendAlerts(q) \/ KeepAlerts(q)
          \/ ListDue(q) \/ SendDue(q) \/ MarkSent(q) \/ AllSent(q)

UsageSpec == UsageInit /\ [][UsageNext]_usageVars
-------------------------------------------------------------------------------
UsageTypeOK ==
    /\ meter \in [there : BOOLEAN, left : 0..2, late : BOOLEAN, on : BOOLEAN]
    /\ service \in [status : {"active", "suspended", "expired", "depleted", "deleted"}, left : 0..2]
    /\ alerts \in [traffic : {"normal", "low", "depleted"}, expiry : {"normal", "expired"}]
    /\ \A n \in DOMAIN notices : notices[n].is \in {"held", "failed", "queued", "sent", "lost"}
    /\ \A q \in Rounds : round[q].due \subseteq DOMAIN notices
    /\ \A what \in DOMAIN made : made[what] \in 0..bounds[what]

\* Who looks at the rows only can rely on it that the people concerned were told: of a service
\* that is stored as ended its user, since it was last stored as active, and of every alert
\* state its delegated admin, whatever ended in between, was paid for, or failed.
EndsAreTold ==
    ~muddled /\ (\A q \in Rounds : ~Busy(q)) =>
        /\ service.status \in {"expired", "depleted"} => said # {}
        /\ {alerts.traffic, alerts.expiry} \subseteq heard \cup {"normal"}

\* A notice that could not be delivered waits until it is, or until its recipient wants no
\* more of its kind, and is delivered once, unless two flushes overlap or the process stops
\* between sending and marking.
NoticesAccountedFor ==
    \A n \in DOMAIN notices :
        /\ notices[n].is = "sent" => notices[n].got > 0 \/ notices[n].refused
        /\ notices[n].got > 1 => doubled
        /\ notices[n].is = "queued" /\ notices[n].got > 0 =>
              doubled \/ \E q \in Rounds : AtStep(q, "mark") /\ FirstDue(q) = n
===============================================================================
