-------------------------------- MODULE Pricing --------------------------------
(***************************************************************************)
(* The price of a reseller who owes for what its clients consume           *)
(* (set_pricing and compute_consumed_basis_debt_amount in                  *)
(* financial_service.py, with the handlers that change the price).  When   *)
(* the price of a GB changes, the root admin is asked whether the new one  *)
(* is to hold for earlier reports too; on "no" the consumption so far      *)
(* becomes a tier at the old price.                                        *)
(*                                                                         *)
(* Consumption is counted in steps, of which GbUnit make a GB.  The price  *)
(* of a day, the currency and the tiers of allocated traffic do not bear   *)
(* on the debt and are left out; so is the copy of the basis in the        *)
(* profile, which counts only as long as there is no row of prices.        *)
(***************************************************************************)
EXTENDS Integers, SequencesExt

CONSTANTS Savers,       \* dialogs of root admins and the button for the basis
          Prices, GbUnit, MaxConsumed, MaxSaves

ASSUME PricingAssumption ==
    /\ Prices \subseteq Nat /\ IsFiniteSet(Prices)
    /\ GbUnit \in Nat \ {0}
    /\ MaxConsumed \in Nat /\ MaxSaves \in Nat

VARIABLES pricing,      \* the row of user_pricing
          consumed,     \* what the clients have consumed
          save,         \* where each change stands
          saves,        \* changes begun
          agreed,       \* for each step consumed, the price it was consumed at, or the price
                        \* that was said to hold for it since
          late,         \* steps consumed between a snapshot and its save
          spoilt        \* the tiers no longer say what was agreed on

pricingVars == <<pricing, consumed, save, saves, agreed, late, spoilt>>

NoSnapshot == -1
NoSave == [at |-> "idle", gb |-> 0, basis |-> "allocated", choice |-> "none", snap |-> NoSnapshot]
Answers == {"yes", "no", "none"}

PricingInit ==
    /\ \E p \in Prices, b \in {"allocated", "consumed"} :
          pricing = [gb |-> p, basis |-> b, past |-> 1, tiers |-> <<>>]
    /\ consumed = 0
    /\ save = [s \in Savers |-> NoSave]
    /\ saves = 0
    /\ agreed = <<>>
    /\ late = 0
    /\ spoilt = FALSE
-------------------------------------------------------------------------------
\* Tiers that all begin at nothing.
FromNothing(tiers, i) == 0

\* A tier prices what was consumed from the end of the tier before it up to its own.
From(tiers, i) == IF i = 1 THEN 0 ELSE tiers[i - 1].upto
LastTier(tiers) == From(tiers, Len(tiers) + 1)

\* (hi - prev) * price // gb_unit, where there is something between the two.
Cost(from, to, price) == IF to > from THEN ((to - from) * price) \div GbUnit ELSE 0

\* compute_consumed_basis_debt_amount
Debt(row, c) ==
    LET t == row.tiers
    IN  SumFunction([i \in DOMAIN t |-> Cost(From(t, i), Min({c, t[i].upto}), t[i].price)])
        + Cost(LastTier(t), c, row.gb)

\* append, then a stable sort of what was sorted: in front of the first that ends later.
Insert(tiers, new) ==
    LET k == SelectInSeq(tiers, LAMBDA t : t.upto > new.upto)
    IN  InsertAt(tiers, IF k = 0 THEN Len(tiers) + 1 ELSE k, new)

\* A tier at the new price.
NextTiersAtNewPrice(row, gb, basis, past, snap) ==
    IF basis # "consumed" \/ row.basis # "consumed" \/ past # 0 THEN <<>>
    ELSE IF gb = row.gb \/ snap = NoSnapshot THEN row.tiers
    ELSE Insert(row.tiers, [upto |-> snap, price |-> gb])

\* _next_consumed_pricing_tiers_json
NextTiers(row, gb, basis, past, snap) ==
    IF basis # "consumed" \/ row.basis # "consumed" \/ past # 0 THEN <<>>
    ELSE IF gb = row.gb \/ snap = NoSnapshot THEN row.tiers
    ELSE Insert(row.tiers, [upto |-> snap, price |-> row.gb])

\* int(current or 1): where nothing was chosen, a stored 0 becomes 1 as well.
AppliesToPast(row, choice) ==
    CASE choice = "yes" -> 1
      [] choice = "no" -> 0
      [] OTHER -> IF row.past = 0 THEN 1 ELSE row.past

\* What is written by set_pricing.
NewRow(row, s) ==
    LET past == AppliesToPast(row, save[s].choice)
    IN  [gb |-> save[s].gb, basis |-> save[s].basis, past |-> past,
         tiers |-> NextTiers(row, save[s].gb, save[s].basis, past, save[s].snap)]
-------------------------------------------------------------------------------
Moves(s, changed) == save' = [save EXCEPT ![s] = changed]

\* finance_pricing_day_input: the question is put only where the price of a GB changes.
PricingDay(s, gb) ==
    /\ save[s].at = "idle"
    /\ saves < MaxSaves
    /\ saves' = saves + 1
    /\ Moves(s, [NoSave EXCEPT !.at = IF gb = pricing.gb THEN "answered" ELSE "asked", !.gb = gb])
    /\ UNCHANGED <<pricing, consumed, agreed, late, spoilt>>

\* finance_pricing_history_apply and finance_pricing_history_keep
Answer(s, choice) ==
    /\ save[s].at = "asked"
    /\ Moves(s, [save[s] EXCEPT !.at = "answered", !.choice = choice])
    /\ UNCHANGED <<pricing, consumed, saves, agreed, late, spoilt>>

\* _save_pricing_and_answer reads the basis first; a summary is asked for only on "no".
ReadBasis(s) ==
    LET basis == pricing.basis
    IN  /\ save[s].at = "answered"
        /\ Moves(s, [save[s] EXCEPT !.basis = basis,
                       !.at = IF save[s].choice = "no" /\ basis = "consumed" THEN "counting" ELSE "saving"])
        /\ UNCHANGED <<pricing, consumed, saves, agreed, late, spoilt>>

\* get_admin_scope_financial_summary passes over a panel that does not answer, and with it
\* over what its clients have consumed.
TakeSnapshot(s) ==
    /\ save[s].at = "counting"
    /\ \E seen \in 0..consumed :
          /\ Moves(s, [save[s] EXCEPT !.at = "saving", !.snap = seen])
          /\ spoilt' = (spoilt \/ seen # consumed)
    /\ UNCHANGED <<pricing, consumed, saves, agreed, late>>

\* delegated_admin_toggle_basis reads the row and saves it with the other basis.
SwitchBasis(s) ==
    /\ save[s].at = "idle"
    /\ saves < MaxSaves
    /\ saves' = saves + 1
    /\ Moves(s, [NoSave EXCEPT !.at = "saving", !.gb = pricing.gb,
                            !.basis = IF pricing.basis = "allocated" THEN "consumed" ELSE "allocated"])
    /\ UNCHANGED <<pricing, consumed, agreed, late, spoilt>>

Snapped == {s \in Savers : save[s].at = "saving" /\ save[s].snap # NoSnapshot}

\* set_pricing, under the lock of the reseller's pricing.  A save for which nobody was asked
\* erases the tiers and lets its price hold for all that was consumed; a save between the
\* snapshot and the save of another puts the tiers of both in doubt.
SetPricing(s) ==
    LET anew == save[s].choice = "yes" \/ save[s].basis # "consumed" \/ pricing.basis # "consumed"
        unasked == save[s].choice = "none" /\ (pricing.tiers # <<>> \/ save[s].gb # pricing.gb)
    IN  /\ save[s].at = "saving"
        /\ pricing' = NewRow(pricing, s)
        /\ agreed' = IF anew THEN [i \in 1..consumed |-> save[s].gb] ELSE agreed
        /\ late' = IF anew THEN 0 ELSE late
        /\ spoilt' = (Snapped \ {s} # {} \/ (~anew /\ (spoilt \/ unasked)))
        /\ Moves(s, NoSave)
        /\ UNCHANGED <<consumed, saves>>

\* A handler that raises before it saves.
Abandon(s) ==
    /\ save[s].at # "idle"
    /\ Moves(s, NoSave)
    /\ UNCHANGED <<pricing, consumed, saves, agreed, late, spoilt>>
-------------------------------------------------------------------------------
Consume ==
    /\ consumed < MaxConsumed
    /\ consumed' = consumed + 1
    /\ agreed' = Append(agreed, pricing.gb)
    /\ late' = IF Snapped = {} THEN late ELSE Min({late + 1, MaxConsumed})
    /\ UNCHANGED <<pricing, save, saves, spoilt>>

\* A client is deleted or its usage reset, and what it consumed is in no summary any more: the
\* end of a tier then lies beyond what it was the end of.
Lose ==
    /\ consumed > 0
    /\ consumed' = consumed - 1
    /\ agreed' = SubSeq(agreed, 1, consumed - 1)
    /\ spoilt' = (spoilt \/ Snapped # {} \/ consumed <= LastTier(pricing.tiers))
    /\ UNCHANGED <<pricing, save, saves, late>>

PricingNext ==
    \/ Consume \/ Lose
    \/ \E s \in Savers :
          \/ \E gb \in Prices : PricingDay(s, gb)
          \/ \E choice \in {"yes", "no"} : Answer(s, choice)
          \/ ReadBasis(s) \/ TakeSnapshot(s) \/ SwitchBasis(s) \/ SetPricing(s) \/ Abandon(s)

PricingSpec == PricingInit /\ [][PricingNext]_pricingVars
-------------------------------------------------------------------------------
\* Tiers are in order and belong to the basis "consumed"; they are gone with the answer that
\* made them.
PricingTypeOK ==
    /\ pricing.gb \in Prices /\ pricing.past \in {0, 1}
    /\ \A i, j \in DOMAIN pricing.tiers : i < j => pricing.tiers[i].upto <= pricing.tiers[j].upto
    /\ \A i \in DOMAIN pricing.tiers : pricing.tiers[i].upto \in 0..MaxConsumed /\ pricing.tiers[i].price \in Prices
    /\ pricing.basis = "allocated" => pricing.tiers = <<>>
    /\ pricing.past = 1 => pricing.tiers = <<>>
    /\ consumed \in 0..MaxConsumed /\ Len(agreed) = consumed
    /\ \A s \in Savers : save[s].choice \in Answers /\ save[s].snap \in {NoSnapshot} \cup 0..MaxConsumed

\* Through any changes of price and basis the debt is what was agreed on, step by step: rounded
\* down by less than one for each tier, and uncertain only in what was consumed while a change
\* was being saved.  Usage that is lost, a panel that does not answer, a change for which nobody
\* was asked and two saves at once do break it (spoilt), until a price is set for all of it.
Owed == SumFunction(agreed)
DebtIsWhatWasAgreed ==
    pricing.basis = "consumed" /\ ~spoilt =>
        LET debt == GbUnit * Debt(pricing, consumed)
            doubt == late * Max(Prices)
        IN  /\ debt <= Owed + doubt
            /\ Owed - doubt < debt + GbUnit * (Len(pricing.tiers) + 1)
===============================================================================
