-------------------------- MODULE ClockCorrelation --------------------------
(***************************************************************************)
(* ClockCorrelationEstimator of src/transport/control_protocol.cpp: how    *)
(* far the receiver's clock is ahead of the sender's, from the last        *)
(* answers to CLOCK_REQUEST.                                               *)
(*                                                                         *)
(* The network takes a time in each direction, and the receiver's clock is *)
(* ahead by a lead that steps when its host's clock is set.  Offsets and   *)
(* uncertainties are doubled, which makes them integers; with exact times  *)
(* the rounding tolerance is zero.                                         *)
(***************************************************************************)
EXTENDS Integers, Sequences, FiniteSets, FiniteSetsExt

CONSTANTS ClkSamples,    \* kMaximumClockCorrelationSamples
          ClkVariation,  \* kClockCorrelationVariationSamples
          ClkDelays,     \* the times a message takes
          ClkLeads       \* what the receiver's clock may be ahead by

ASSUME ClkAssumption ==
  /\ {ClkSamples, ClkVariation} \subseteq Nat \ {0}
  /\ ClkDelays \subseteq Nat /\ ClkLeads \subseteq Int

VARIABLES
  lead,      \* of the receiver's clock
  snapshot,  \* [valid, offset, uncertainty, samples], doubled where halved
  fooled     \* history: a sample was taken, since the last reset, of another lead

clkVars == <<lead, snapshot, fooled>>

NoSnapshot == [valid |-> FALSE, offset |-> 0, uncertainty |-> 0, samples |-> << >>]

ClkTypeOK ==
  /\ lead \in ClkLeads /\ fooled \in BOOLEAN
  /\ Len(snapshot.samples) <= ClkSamples
  /\ snapshot.valid <=> snapshot.samples # << >>
  /\ snapshot.uncertainty \in Nat

ClkInit == lead \in ClkLeads /\ snapshot = NoSnapshot /\ fooled = FALSE

(* The samples by delay, earlier requests first among equals. *)
Before(s, i, j) == s[i].delay < s[j].delay \/ (s[i].delay = s[j].delay /\ i < j)

Rank(s, i) == Cardinality({j \in DOMAIN s : Before(s, j, i)})

(* Mutant: the uncertainty leaves out the asymmetry of the best path. *)
RefreshOptimistic(s) ==
  LET best == CHOOSE i \in DOMAIN s : Rank(s, i) = 0
      varied == {s[i].offset : i \in {j \in DOMAIN s : Rank(s, j) < ClkVariation}}
  IN  [valid |-> TRUE, samples |-> s, offset |-> s[best].offset,
       uncertainty |-> Max(varied) - Min(varied)]

Refresh(s) ==
  LET best == CHOOSE i \in DOMAIN s : Rank(s, i) = 0
      varied == {s[i].offset : i \in {j \in DOMAIN s : Rank(s, j) < ClkVariation}}
  IN  [valid |-> TRUE, samples |-> s, offset |-> s[best].offset,
       uncertainty |-> s[best].delay + Max(varied) - Min(varied)]

Distance(a, b) == IF a >= b THEN a - b ELSE b - a

Contradicts(offset) ==
  snapshot.valid /\ Distance(offset, snapshot.offset) > snapshot.uncertainty

(* observe: a sample the estimate excludes starts it anew. *)
ObserveClock(there, back) ==
  LET offset == 2 * lead + there - back
      kept == IF Contradicts(offset) THEN << >>
              ELSE IF Len(snapshot.samples) = ClkSamples THEN Tail(snapshot.samples)
              ELSE snapshot.samples
      sample == [delay |-> there + back, offset |-> offset]
  IN  /\ \E samples \in {Append(kept, sample)} : snapshot' = Refresh(samples)
      /\ fooled' = (fooled /\ kept # << >>)
      /\ UNCHANGED lead

(* A response whose times contradict each other resets the estimate. *)
RejectClock == snapshot' = NoSnapshot /\ fooled' = FALSE /\ UNCHANGED lead

ClockSteps ==
  /\ lead' \in ClkLeads \ {lead}
  /\ fooled' = snapshot.valid
  /\ UNCHANGED snapshot

ClkNext ==
  RejectClock \/ ClockSteps \/ \E there, back \in ClkDelays : ObserveClock(there, back)

ClkSpec == ClkInit /\ [][ClkNext]_clkVars

(* The estimate is off by no more than it admits, whatever the delays and  *)
(* however they differ between the directions, until the receiver's clock  *)
(* is set; and a step it cannot contain is noticed with the next sample.   *)
ClockSound ==
  /\ ClkTypeOK
  /\ snapshot.valid /\ ~fooled => Distance(snapshot.offset, 2 * lead) <= snapshot.uncertainty
=============================================================================
