-------------------------- MODULE RegionController --------------------------
(***************************************************************************)
(* ProtectedRegionController of src/transport/controller.cpp: feedback     *)
(* arrives, and every tick measures the link, moves the state machine and  *)
(* degrades or restores one knob.                                          *)
(*                                                                         *)
(* Time is counted in ticks and kept as ages, saturating where a longer    *)
(* age is no different.  What a tick measures of the sender (the estimates *)
(* of the wire rate, the pacer's queue, the budget) is left free; of the   *)
(* feedback the loss is kept, as below its floor or above its ceiling.     *)
(***************************************************************************)
EXTENDS Integers, Sequences, FiniteSets, SequencesExt

CONSTANTS RegTop,       \* the last index of each knob
          RegAction,    \* kActionIntervalMilliseconds, in ticks
          RegReversal,  \* kReversalIntervalMilliseconds
          RegEntry,     \* kRecoveryEntryMilliseconds
          RegReturn,    \* kStableReturnMilliseconds
          RegUnusable,  \* kUnusableViolationMilliseconds
          RegFresh,     \* kFeedbackMaximumAgeMilliseconds
          RegPending    \* bound on pending_feedback_

(* The knobs, in the order of degradation. *)
Knobs == <<"emphasis", "threshold", "payload", "profile">>
KnobSet == ToSet(Knobs)

ASSUME RegAssumption ==
  /\ RegTop \in [KnobSet -> Nat \ {0}]
  /\ {RegAction, RegReversal, RegEntry, RegReturn, RegUnusable, RegFresh, RegPending}
       \subseteq Nat \ {0}

VARIABLES
  reg,      \* the controller's members
  pending,  \* pending_feedback_: each with the ticks left until its arrival
  loss,     \* latest_loss_ and its estimate: [high, age]
  seen      \* history: [hard, calm], what the last ticks measured

regVars == <<reg, pending, loss, seen>>

RegStates == {"stable", "rate_pressure", "congested", "recovery", "unusable"}

Never == -1

Older(age, top) == IF age = Never \/ age = top THEN age ELSE age + 1

RegTypeOK ==
  /\ reg.state \in RegStates
  /\ \A k \in KnobSet : reg.level[k] \in 0 .. RegTop[k]
  /\ \A i \in DOMAIN reg.hist : reg.hist[i].knob \in KnobSet
                                /\ reg.hist[i].age \in 0 .. RegReversal
  /\ reg.pressure \in 0 .. 3
  /\ reg.compliant \in Never .. RegReturn /\ reg.stable \in Never .. RegReturn
  /\ reg.unusable \in Never .. RegUnusable
  /\ reg.acted \in 0 .. RegAction /\ reg.restored \in 0 .. RegReversal
  /\ Len(pending) <= RegPending
  /\ loss.high \in BOOLEAN /\ loss.age \in 0 .. RegFresh + 1
  /\ seen.hard \in BOOLEAN /\ seen.calm \in 0 .. RegReturn + 1

(* An action or a restoration that never happened is as one long ago. *)
RegInit ==
  /\ reg = [state |-> "stable", level |-> [k \in KnobSet |-> 0], hist |-> << >>,
            pressure |-> 0, compliant |-> Never, stable |-> Never, unusable |-> Never,
            acted |-> RegAction, restored |-> RegReversal, action |-> "none"]
  /\ pending = << >>
  /\ loss = [high |-> FALSE, age |-> RegFresh + 1]
  /\ seen = [hard |-> FALSE, calm |-> 0]

-----------------------------------------------------------------------------
(* push_feedback: in order of arrival. *)
PushFeedback ==
  /\ Len(pending) < RegPending
  /\ \E wait \in {0, 1}, high \in BOOLEAN :
       /\ \A i \in DOMAIN pending : pending[i].wait <= wait
       /\ pending' = Append(pending, [wait |-> wait, high |-> high])
  /\ UNCHANGED <<reg, loss, seen>>

(* consume_feedback: what has arrived by this tick, oldest first.  The     *)
(* estimate moves towards the sample or stays on its side of the bound.    *)
Arrived(f) == f.wait = 0

Consumed ==
  CHOOSE n \in 0 .. Len(pending) :
    /\ \A i \in 1 .. n : Arrived(pending[i])
    /\ n < Len(pending) => ~Arrived(pending[n + 1])

Remaining ==
  LET rest == SubSeq(pending, Consumed + 1, Len(pending))
  IN  [i \in DOMAIN rest |-> [rest[i] EXCEPT !.wait = 0]]

LossAfter ==
  IF Consumed = 0 THEN {[loss EXCEPT !.age = Older(@, RegFresh + 1)]}
  ELSE {[high |-> h, age |-> 0] :
          h \in {loss.high} \cup {pending[i].high : i \in 1 .. Consumed}}

LossAvailable(l) == l.age <= RegFresh

-----------------------------------------------------------------------------
Aged(r) ==
  [r EXCEPT !.compliant = Older(@, RegReturn), !.stable = Older(@, RegReturn),
            !.unusable = Older(@, RegUnusable), !.acted = Older(@, RegAction),
            !.restored = Older(@, RegReversal), !.action = "none",
            !.hist = [i \in DOMAIN r.hist |->
                        [r.hist[i] EXCEPT !.age = Older(@, RegReversal)]]]

(* The runs of pressure and of compliance. *)
Observe(r, pressure, calm) ==
  [r EXCEPT !.pressure = IF ~pressure THEN 0 ELSE IF @ = 3 THEN 3 ELSE @ + 1,
            !.compliant = IF ~calm THEN Never ELSE IF @ = Never THEN 0 ELSE @,
            !.stable = IF calm THEN @ ELSE Never]

Pressed(r) == r.state \in {"rate_pressure", "congested"}

Move(r, hard) ==
  CASE r.state = "unusable" -> r
    [] r.state # "unusable" /\ hard -> [r EXCEPT !.state = "congested", !.stable = Never]
    [] ~hard /\ r.state \in {"stable", "recovery"} /\ r.pressure >= 3 ->
         [r EXCEPT !.state = "rate_pressure", !.stable = Never]
    [] ~hard /\ Pressed(r) /\ r.compliant >= RegEntry ->
         [r EXCEPT !.state = "recovery", !.stable = r.compliant, !.restored = 0,
                   !.action = "request_recovery_idr"]
    [] ~hard /\ r.state = "recovery" /\ r.pressure < 3 /\ r.stable >= RegReturn ->
         [r EXCEPT !.state = "stable"]
    [] OTHER -> r

AtUnusableLevels(r) ==
  \A k \in {"emphasis", "payload", "profile"} : r.level[k] = RegTop[k]

(* Mutant: the violation is timed from the last tick that saw it. *)
CollapseLate(r, hard) ==
  LET since == 0
  IN  IF r.state = "unusable" \/ ~AtUnusableLevels(r) \/ ~hard THEN [r EXCEPT !.unusable = Never]
      ELSE IF since >= RegUnusable
      THEN [r EXCEPT !.unusable = since, !.state = "unusable", !.action = "stop_unusable_link"]
      ELSE [r EXCEPT !.unusable = since]

Collapse(r, hard) ==
  LET since == IF r.unusable = Never THEN 0 ELSE r.unusable
  IN  IF r.state = "unusable" \/ ~AtUnusableLevels(r) \/ ~hard THEN [r EXCEPT !.unusable = Never]
      ELSE IF since >= RegUnusable
      THEN [r EXCEPT !.unusable = since, !.state = "unusable", !.action = "stop_unusable_link"]
      ELSE [r EXCEPT !.unusable = since]

(* The first knob, in order, that can go further down. *)
Degrade(r) ==
  LET able == {i \in DOMAIN Knobs : r.level[Knobs[i]] < RegTop[Knobs[i]]}
      knob == Knobs[CHOOSE i \in able : \A j \in able : i <= j]
  IN  IF able = {} THEN r
      ELSE [r EXCEPT !.level[knob] = @ + 1, !.acted = 0, !.action = knob,
                     !.hist = Append(@, [knob |-> knob, age |-> 0])]

RestorationDue(r) ==
  r.hist # << >> /\ Last(r.hist).age >= RegReversal /\ r.restored >= RegReversal

(* Mutant: the oldest degradation is undone. *)
RestoreOldest(r) ==
  IF ~RestorationDue(r) THEN r
  ELSE [r EXCEPT !.level[Head(r.hist).knob] = @ - 1, !.hist = Tail(@), !.acted = 0,
                 !.restored = 0, !.action = "restore"]

Restore(r) ==
  IF ~RestorationDue(r) THEN r
  ELSE [r EXCEPT !.level[Last(r.hist).knob] = @ - 1, !.hist = Front(@), !.acted = 0,
                 !.restored = 0, !.action = "restore"]

Act(r, calm) ==
  CASE r.action = "none" /\ Pressed(r) /\ r.acted >= RegAction -> Degrade(r)
    [] r.action = "none" /\ calm /\ r.state \in {"recovery", "stable"} -> Restore(r)
    [] OTHER -> r

(* tick, with what it measures beside the loss.  The singletons only name  *)
(* the intermediate values.                                                *)
RegTick(pressed, hard, quiet) ==
  \E l \in LossAfter :
    LET high == LossAvailable(l) /\ l.high
        calm == quiet /\ ~high
    IN  /\ \E aged \in {Aged(reg)} :
          \E observed \in {Observe(aged, pressed \/ high, calm)} :
          \E moved \in {Move(observed, hard)} :
          \E r \in {Collapse(moved, hard)} : reg' = Act(r, calm)
        /\ loss' = l
        /\ pending' = Remaining
        /\ seen' = [hard |-> hard, calm |-> IF calm /\ ~hard /\ ~pressed
                                            THEN Older(seen.calm, RegReturn + 1) ELSE 0]

RegTicks == \E pressed, hard, quiet \in BOOLEAN : RegTick(pressed, hard, quiet)

RegNext == PushFeedback \/ RegTicks

RegSpec == RegInit /\ [][RegNext]_regVars

(* The share's loop ticks the controller every 100 milliseconds. *)
RegFairness == WF_regVars(RegTicks)

-----------------------------------------------------------------------------
(* However a long run degrades and restores, the levels are what the       *)
(* history says, the history is in the order of the knobs, each at its end *)
(* before the next begins, and so a link declared unusable has every knob  *)
(* at its end, the threshold's included, which the code does not ask.      *)
LevelsFollowHistory ==
  /\ RegTypeOK
  /\ \A k \in KnobSet :
       reg.level[k] = Cardinality({i \in DOMAIN reg.hist : reg.hist[i].knob = k})
  /\ \A i, j \in DOMAIN Knobs :
       i < j /\ reg.level[Knobs[j]] > 0 => reg.level[Knobs[i]] = RegTop[Knobs[i]]
  /\ reg.state = "unusable" => \A k \in KnobSet : reg.level[k] = RegTop[k]

(* A link that stays in hard violation is given up in the end, whatever    *)
(* state the controller was in when it began.                              *)
DeadLinkStops == <>[](seen.hard) => <>(reg.state = "unusable")

(* BUILD_PLAN.md: in RECOVERY the controller "returns to STABLE after five *)
(* continuous compliant seconds".                                          *)
RecoveryReturns == reg.state = "recovery" => seen.calm <= RegReturn
=============================================================================
