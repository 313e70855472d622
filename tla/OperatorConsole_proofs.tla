----------------------- MODULE OperatorConsole_proofs -----------------------
(***************************************************************************)
(* Proofs about the operator console, for every set of goals and clients,  *)
(* every set of requests and any number of calls that time out.            *)
(*                                                                         *)
(* That no task runs beside manual control is nobody's check: the server   *)
(* releases whoever asks, in the order of the queue, and the console asks  *)
(* from three coroutines.  The invariant says, for every release that is   *)
(* still in the queue, why it cannot take the reservation from another     *)
(* owner, or that the stop of the base stands in for it.                   *)
(***************************************************************************)
EXTENDS OperatorConsole, SequenceTheorems, TLAPS

-----------------------------------------------------------------------------
(* The assumption on clearing *)

(* The stop is latched, and no call that clears it is left.                *)
Firm ==
  /\ latch = "latched"
  /\ \A i \in 1 .. Len(stops) : stops[i].want # "clear"

(* A clearing of the stop that failed gives its reservation back only once *)
(* the stop is latched again.  operator_clear_base_stop does so unless its *)
(* second call, the one that latches, times out as well.                   *)
RelatchedFirst == pc["clear"] = "rerelease" => Firm

-----------------------------------------------------------------------------
(* The invariant *)

Indices == 1 .. Len(calls)

Movers == {"action", "teleop"}

(* An owner that was granted the reservation for a motion.                 *)
Held ==
  \/ pc["teleop"] = "held"
  \/ pc["action"] \in {"held", "accepting", "running"}
  \/ device \in {"sent", "live", "canceling"}

Waits(o) == pc[o] \in {"idle", "acquire"}

(* The part of TypeOK that manual control is about.                        *)
ManualTypes ==
  /\ reserved \in BOOLEAN
  /\ latch \in {"latched", "clear"}
  /\ device \in {"none", "sent", "live", "canceling", "refused", "ended"}
  /\ calls \in Seq([want : BOOLEAN, who : Owners \cup {"nobody"}])
  /\ stops \in Seq([want : {"latched", "clear"}, who : Waiters])
  /\ pc \in [Owners -> {"idle", "acquire", "held", "accepting", "running",
                        "release", "relatch", "rerelease", "stuck"}]
  /\ moving \in BOOLEAN

(* Who moves the robot has the place for it.                               *)
MotionHasPlace ==
  /\ moving => pc["teleop"] = "held"
  /\ device \in {"sent", "live", "canceling"} =>
       pc["action"] \in {"accepting", "running", "stuck"}
  /\ pc["action"] = "idle" \/ pc["teleop"] = "idle"

(* An owner has at most one call in the queue, the one it waits for.       *)
CallsHavePlace ==
  /\ \A i \in Indices :
       calls[i].who # "nobody" =>
         \/ calls[i].want /\ pc[calls[i].who] = "acquire"
         \/ ~calls[i].want /\ pc[calls[i].who] \in {"release", "rerelease"}
  /\ \A i, j \in Indices :
       calls[i].who = calls[j].who /\ calls[i].who # "nobody" => i = j

(* The same for the calls to the stop: the console has one, of a clearing. *)
StopsHavePlace ==
  /\ \A i \in 1 .. Len(stops) :
       /\ stops[i].who \in {"action", "teleop"} => FALSE
       /\ stops[i].who = "halt" => stops[i].want = "latched"
       /\ stops[i].who = "clear" =>
            \/ pc["clear"] = "held" /\ stops[i].want = "clear"
            \/ pc["clear"] = "relatch" /\ stops[i].want = "latched"
  /\ \A i, j \in 1 .. Len(stops) :
       stops[i].who = "clear" /\ stops[j].who = "clear" => i = j

(* A call that clears the stop is the one awaited, or it is overdue and    *)
(* the call that latches it again is behind it.                            *)
ClearIsFollowed ==
  \A i \in 1 .. Len(stops) : stops[i].want = "clear" =>
    \/ pc["clear"] = "held" /\ stops[i].who = "clear"
    \/ /\ pc["clear"] = "relatch"
       /\ \E j \in 1 .. Len(stops) : j > i /\ stops[j].who = "clear"

(* While a clearing waits for the reservation or has it, no motion has it; *)
(* and every release is its own.                                           *)
ClearingExcludes ==
  /\ pc["clear"] \in {"acquire", "held", "release"} =>
       Waits("action") /\ Waits("teleop")
  /\ pc["clear"] = "acquire" =>
       \E i \in Indices :
         /\ calls[i].who = "clear"
         /\ \A j \in Indices : calls[j].who \in Movers => j > i
         /\ \A j \in Indices : j > i => calls[j].want
  /\ pc["clear"] \in {"held", "release"} =>
       /\ reserved
       /\ \A i \in Indices : ~calls[i].want => calls[i].who = "clear"

(* A request that waits in the queue will be refused: the reservation is   *)
(* taken and nothing before it gives it back.                              *)
WillBeRefused(k) == reserved /\ \A i \in Indices : i < k => calls[i].want

(* No release is behind the request of a motion, except where the request  *)
(* will be refused or the stop is latched.                                 *)
NoReleaseBehind ==
  \A k \in Indices : calls[k].who \in Movers /\ calls[k].want =>
    \/ \A j \in Indices : j > k => calls[j].want
    \/ WillBeRefused(k)
    \/ Firm

(* While a motion has the reservation no task runs, and none is admitted:  *)
(* nothing in the queue releases it, or the stop is latched.               *)
MotionIsCovered ==
  Held =>
    /\ ~Busy
    /\ Firm \/ (reserved /\ \A i \in Indices : calls[i].want)

MInv ==
  /\ ManualTypes
  /\ MotionHasPlace
  /\ CallsHavePlace
  /\ StopsHavePlace
  /\ ClearIsFollowed
  /\ ClearingExcludes
  /\ NoReleaseBehind
  /\ MotionIsCovered

-----------------------------------------------------------------------------
(* Lemmas: the two queues *)

CallSet == [want : BOOLEAN, who : Owners \cup {"nobody"}]
StopSet == [want : {"latched", "clear"}, who : Waiters]

Moves(d) == d \in {"sent", "live", "canceling"}

(* A call joins the queue at its end.                                      *)
LEMMA CallJoins ==
  ASSUME calls \in Seq(CallSet), NEW c \in CallSet, calls' = Append(calls, c)
  PROVE  /\ calls' \in Seq(CallSet)
         /\ Len(calls) \in Nat /\ Len(calls') = Len(calls) + 1
         /\ \A i \in 1 .. Len(calls) : calls'[i] = calls[i]
         /\ calls'[Len(calls) + 1] = c
  OBVIOUS

(* The server takes the first call.                                        *)
LEMMA CallServed ==
  ASSUME calls \in Seq(CallSet), calls # << >>, calls' = Tail(calls)
  PROVE  /\ calls' \in Seq(CallSet) /\ Head(calls) = calls[1]
         /\ Len(calls) \in Nat /\ 1 \in 1 .. Len(calls)
         /\ Len(calls') = Len(calls) - 1 /\ Len(calls') \in Nat
         /\ calls[1] \in CallSet
         /\ \A i \in 1 .. Len(calls') : calls'[i] = calls[i + 1]
  OBVIOUS

(* A call whose caller gave up stays where it is, or is lost.              *)
LEMMA CallForgotten ==
  ASSUME calls \in Seq(CallSet), NEW i \in 1 .. Len(calls),
         calls' = [calls EXCEPT ![i].who = "nobody"]
  PROVE  /\ calls' \in Seq(CallSet)
         /\ Len(calls) \in Nat /\ Len(calls') = Len(calls)
         /\ \A k \in 1 .. Len(calls) : k # i => calls'[k] = calls[k]
         /\ calls'[i].want = calls[i].want /\ calls'[i].who = "nobody"
<1>1. calls[i] \in CallSet /\ Len(calls) \in Nat
  OBVIOUS
<1>2. calls'[i] = [calls[i] EXCEPT !.who = "nobody"]
  OBVIOUS
<1>3. /\ calls'[i] \in CallSet
      /\ calls'[i].want = calls[i].want /\ calls'[i].who = "nobody"
  BY <1>1, <1>2 DEF CallSet
<1>4. Len(calls') = Len(calls) /\ DOMAIN calls' = DOMAIN calls
  OBVIOUS
<1>5. \A k \in 1 .. Len(calls) : k # i => calls'[k] = calls[k]
  OBVIOUS
<1>6. calls' \in Seq(CallSet)
  BY <1>3, <1>1
<1> QED BY <1>1, <1>3, <1>4, <1>5, <1>6

LEMMA PartsOfLost ==
  ASSUME NEW S, NEW s \in Seq(S), NEW i \in 1 .. Len(s)
  PROVE  /\ SubSeq(s, 1, i - 1) \in Seq(S) /\ Len(SubSeq(s, 1, i - 1)) = i - 1
         /\ \A k \in 1 .. i - 1 : SubSeq(s, 1, i - 1)[k] = s[k]
         /\ SubSeq(s, i + 1, Len(s)) \in Seq(S)
         /\ Len(SubSeq(s, i + 1, Len(s))) = Len(s) - i
         /\ \A k \in 1 .. Len(s) - i : SubSeq(s, i + 1, Len(s))[k] = s[k + i]
  OBVIOUS

LEMMA Joined ==
  ASSUME NEW S, NEW s \in Seq(S), NEW i \in 1 .. Len(s)
  PROVE  LET t == SubSeq(s, 1, i - 1) \o SubSeq(s, i + 1, Len(s))
         IN  /\ t \in Seq(S) /\ Len(t) = Len(s) - 1
             /\ \A k \in 1 .. Len(s) - 1 :
                  /\ k < i => t[k] = s[k]
                  /\ k >= i => t[k] = s[k + 1]
<1> DEFINE a == SubSeq(s, 1, i - 1)
           b == SubSeq(s, i + 1, Len(s))
           n == Len(s)
<1>1. n \in Nat /\ i \in 1 .. n /\ n - 1 \in Nat
  OBVIOUS
<1>2. a \in Seq(S) /\ Len(a) = i - 1 /\ \A k \in 1 .. i - 1 : a[k] = s[k]
  BY PartsOfLost, Zenon
<1>3. /\ b \in Seq(S) /\ Len(b) = n - i
      /\ \A k \in 1 .. n - i : b[k] = s[k + i]
  BY PartsOfLost, Zenon
<1> HIDE DEF a, b
<1>4. /\ a \o b \in Seq(S) /\ Len(a \o b) = Len(a) + Len(b)
      /\ \A k \in 1 .. Len(a) + Len(b) :
           (a \o b)[k] = IF k <= Len(a) THEN a[k] ELSE b[k - Len(a)]
  BY <1>2, <1>3, ConcatProperties
<1> HIDE DEF n
<1>5. Len(a) + Len(b) = n - 1
  BY <1>1, <1>2, <1>3
<1>6. ASSUME NEW k \in 1 .. n - 1
      PROVE  /\ k < i => (a \o b)[k] = s[k]
             /\ k >= i => (a \o b)[k] = s[k + 1]
  <2>1. (a \o b)[k] = IF k <= i - 1 THEN a[k] ELSE b[k - (i - 1)]
    BY <1>2, <1>4, <1>5
  <2>2. CASE k < i
    <3>1. k \in 1 .. i - 1
      BY <1>1, <2>2
    <3> QED BY <1>1, <1>2, <2>1, <2>2, <3>1
  <2>3. CASE k >= i
    <3> DEFINE m == k - (i - 1)
    <3>1. m \in 1 .. n - i /\ m + i = k + 1
      BY <1>1, <2>3
    <3>2. (a \o b)[k] = b[m]
      BY <1>1, <2>1, <2>3
    <3>3. b[m] = s[m + i]
      BY <1>3, <3>1
    <3> QED BY <1>1, <2>3, <3>1, <3>2, <3>3
  <2> QED BY <1>1, <2>2, <2>3
<1> QED BY <1>4, <1>5, <1>6, Zenon DEF a, b, n

LEMMA CallLost ==
  ASSUME calls \in Seq(CallSet), NEW i \in 1 .. Len(calls),
         calls' = SubSeq(calls, 1, i - 1) \o SubSeq(calls, i + 1, Len(calls))
  PROVE  /\ calls' \in Seq(CallSet)
         /\ Len(calls) \in Nat /\ Len(calls') = Len(calls) - 1
         /\ Len(calls') \in Nat
         /\ \A k \in 1 .. Len(calls') :
              /\ k < i => calls'[k] = calls[k]
              /\ k >= i => calls'[k] = calls[k + 1]
<1>1. /\ calls' \in Seq(CallSet) /\ Len(calls') = Len(calls) - 1
      /\ \A k \in 1 .. Len(calls) - 1 :
           /\ k < i => calls'[k] = calls[k]
           /\ k >= i => calls'[k] = calls[k + 1]
  BY Joined, Zenon
<1>2. Len(calls) \in Nat /\ Len(calls) - 1 \in Nat
  OBVIOUS
<1> QED BY <1>1, <1>2, Zenon

(* The same for the calls to the stop, which are never lost.               *)
LEMMA StopJoins ==
  ASSUME stops \in Seq(StopSet), NEW c \in StopSet, stops' = Append(stops, c)
  PROVE  /\ stops' \in Seq(StopSet)
         /\ Len(stops) \in Nat /\ Len(stops') = Len(stops) + 1
         /\ \A i \in 1 .. Len(stops) : stops'[i] = stops[i]
         /\ stops'[Len(stops) + 1] = c
  OBVIOUS

LEMMA RelatchJoins ==
  ASSUME NEW given \in Seq(StopSet), NEW c \in StopSet,
         stops' = Append(given, c)
  PROVE  /\ stops' \in Seq(StopSet) /\ Len(stops') = Len(given) + 1
         /\ \A k \in 1 .. Len(given) : stops'[k] = given[k]
         /\ stops'[Len(given) + 1] = c
  OBVIOUS

LEMMA CallOfClearJoins ==
  ASSUME StopsHavePlace, Len(stops) \in Nat, Len(stops') = Len(stops) + 1,
         \A k \in 1 .. Len(stops) : /\ stops'[k] = stops[k]
                                    /\ stops[k].who # "clear",
         stops'[Len(stops) + 1].who = "clear",
         \/ /\ pc'["clear"] = "held"
            /\ stops'[Len(stops) + 1].want = "clear"
         \/ /\ pc'["clear"] = "relatch"
            /\ stops'[Len(stops) + 1].want = "latched"
  PROVE  StopsHavePlace'
<1>1. ASSUME NEW i \in 1 .. Len(stops')
      PROVE  /\ stops'[i].who \in {"action", "teleop"} => FALSE
             /\ stops'[i].who = "halt" => stops'[i].want = "latched"
             /\ stops'[i].who = "clear" =>
                  /\ i = Len(stops) + 1
                  /\ \/ /\ pc'["clear"] = "held"
                        /\ stops'[i].want = "clear"
                     \/ /\ pc'["clear"] = "relatch"
                        /\ stops'[i].want = "latched"
  <2>1. CASE i \in 1 .. Len(stops)
    BY <2>1 DEF StopsHavePlace
  <2>2. CASE i = Len(stops) + 1
    BY <2>2
  <2> QED BY <2>1, <2>2
<1>2. \A i, j \in 1 .. Len(stops') :
        stops'[i].who = "clear" /\ stops'[j].who = "clear" => i = j
  BY <1>1
<1> QED BY <1>1, <1>2 DEF StopsHavePlace

LEMMA StopServed ==
  ASSUME stops \in Seq(StopSet), stops # << >>, stops' = Tail(stops)
  PROVE  /\ stops' \in Seq(StopSet) /\ Head(stops) = stops[1]
         /\ Len(stops) \in Nat /\ 1 \in 1 .. Len(stops)
         /\ Len(stops') = Len(stops) - 1 /\ Len(stops') \in Nat
         /\ stops[1] \in StopSet
         /\ \A i \in 1 .. Len(stops') : stops'[i] = stops[i + 1]
  OBVIOUS

LEMMA StopForgotten ==
  ASSUME stops \in Seq(StopSet), NEW i \in 1 .. Len(stops), NEW given,
         given = [stops EXCEPT ![i].who = "nobody"]
  PROVE  /\ given \in Seq(StopSet)
         /\ Len(stops) \in Nat /\ Len(given) = Len(stops)
         /\ \A k \in 1 .. Len(stops) : k # i => given[k] = stops[k]
         /\ given[i].want = stops[i].want /\ given[i].who = "nobody"
<1>1. stops[i] \in StopSet /\ Len(stops) \in Nat
  OBVIOUS
<1>2. given[i] = [stops[i] EXCEPT !.who = "nobody"]
  OBVIOUS
<1>3. /\ given[i] \in StopSet
      /\ given[i].want = stops[i].want /\ given[i].who = "nobody"
  BY <1>1, <1>2 DEF StopSet, Waiters
<1>4. Len(given) = Len(stops) /\ DOMAIN given = DOMAIN stops
  OBVIOUS
<1>5. \A k \in 1 .. Len(stops) : k # i => given[k] = stops[k]
  OBVIOUS
<1>6. given \in Seq(StopSet)
  BY <1>3, <1>1
<1> QED BY <1>1, <1>3, <1>4, <1>5, <1>6

-----------------------------------------------------------------------------
(* Lemmas: who has a call in the queue *)

LEMMA CallTyped ==
  ASSUME MInv
  PROVE  /\ calls \in Seq(CallSet) /\ Len(calls) \in Nat
         /\ \A i \in 1 .. Len(calls) :
              /\ calls[i] \in CallSet /\ calls[i].want \in BOOLEAN
              /\ calls[i].who \in Owners \cup {"nobody"}
<1>1. calls \in Seq(CallSet)
  BY DEF MInv, ManualTypes, CallSet
<1>2. Len(calls) \in Nat /\ \A i \in 1 .. Len(calls) : calls[i] \in CallSet
  BY <1>1
<1> QED BY <1>1, <1>2 DEF CallSet

LEMMA NoCallOf ==
  ASSUME MInv, NEW o \in Owners,
         pc[o] \notin {"acquire", "release", "rerelease"}
  PROVE  \A i \in 1 .. Len(calls) : calls[i].who # o
<1> SUFFICES ASSUME NEW i \in 1 .. Len(calls), calls[i].who = o PROVE FALSE
  OBVIOUS
<1>1. o # "nobody"
  BY DEF Owners
<1> QED BY <1>1 DEF MInv, CallsHavePlace, Indices

-----------------------------------------------------------------------------
(* Steps that leave the reservation, the stop and the places alone *)

queues == <<reserved, latch, calls, stops, pc>>

LEMMA NothingQueued ==
  ASSUME MInv, UNCHANGED queues,
         device' \in {"none", "sent", "live", "canceling", "refused", "ended"},
         Moves(device') => Moves(device),
         moving' \in BOOLEAN, moving' => pc["teleop"] = "held",
         Busy' => Busy \/ ~Held
  PROVE  MInv'
<1> USE DEF MInv, queues
<1>1. ManualTypes' /\ MotionHasPlace'
  BY DEF ManualTypes, MotionHasPlace, Moves
<1>2. CallsHavePlace' /\ StopsHavePlace' /\ ClearIsFollowed'
  BY DEF CallsHavePlace, StopsHavePlace, ClearIsFollowed, Indices
<1>3. ClearingExcludes'
  BY DEF ClearingExcludes, Waits, Indices
<1>4. NoReleaseBehind'
  BY DEF NoReleaseBehind, WillBeRefused, Firm, Indices
<1>5. Held' => Held
  BY DEF Held, Moves
<1>6. MotionIsCovered'
  BY <1>5 DEF MotionIsCovered, Firm, Indices
<1> QED BY <1>1, <1>2, <1>3, <1>4, <1>6

(* A motion that has the reservation goes from one place to the next.      *)
LEMMA MotionGoesOn ==
  ASSUME MInv, UNCHANGED <<reserved, latch, calls, stops, goal, moving>>,
         pc["action"] \in {"held", "accepting", "running"},
         NEW p \in {"accepting", "running", "stuck"},
         pc' = [pc EXCEPT !["action"] = p],
         device' \in {"none", "sent", "live", "canceling", "refused", "ended"}
  PROVE  MInv'
<1> USE DEF MInv
<1>1. /\ pc'["action"] = p /\ pc'["teleop"] = pc["teleop"]
      /\ pc'["clear"] = pc["clear"]
      /\ \A o \in Owners : o # "action" => pc'[o] = pc[o]
      /\ pc["teleop"] = "idle"
  BY DEF ManualTypes, Owners, MotionHasPlace
<1>2. ManualTypes' /\ MotionHasPlace'
  BY <1>1 DEF ManualTypes, MotionHasPlace, Owners
<1>3. \A i \in Indices : calls[i].who # "action" /\ calls[i].who \in Owners \cup {"nobody"}
  <2>1. "action" \in Owners /\ pc["action"] \notin {"acquire", "release", "rerelease"}
    BY DEF Owners
  <2> QED BY <2>1, NoCallOf, CallTyped DEF Indices
<1>4. CallsHavePlace'
  BY <1>1, <1>3 DEF CallsHavePlace, Indices
<1>5. StopsHavePlace' /\ ClearIsFollowed'
  BY <1>1 DEF StopsHavePlace, ClearIsFollowed
<1>6. pc["clear"] \notin {"acquire", "held", "release"}
  BY DEF ClearingExcludes, Waits
<1>7. ClearingExcludes'
  BY <1>1, <1>6 DEF ClearingExcludes
<1>8. NoReleaseBehind'
  BY DEF NoReleaseBehind, WillBeRefused, Firm, Indices
<1>9. MotionIsCovered'
  BY DEF MotionIsCovered, Firm, Indices, Held, Busy
<1> QED BY <1>2, <1>4, <1>5, <1>7, <1>8, <1>9

-----------------------------------------------------------------------------
(* A motion asks for the reservation, and gives it back *)

LEMMA MotionAsks ==
  ASSUME MInv, NEW o \in Movers,
         pc["action"] = "idle", pc["teleop"] = "idle",
         pc' = [pc EXCEPT ![o] = "acquire"], Reserve(o, TRUE),
         UNCHANGED <<reserved, latch, stops, goal, moving>>,
         device' \in {"none", device}
  PROVE  MInv'
<1> USE DEF MInv
<1> DEFINE c == [want |-> TRUE, who |-> o]
<1>1. /\ calls \in Seq(CallSet) /\ c \in CallSet
      /\ calls' = Append(calls, c)
  BY DEF ManualTypes, CallSet, Movers, Owners, Reserve
<1>2. /\ calls' \in Seq(CallSet)
      /\ Len(calls) \in Nat /\ Len(calls') = Len(calls) + 1
      /\ \A i \in 1 .. Len(calls) : calls'[i] = calls[i]
      /\ calls'[Len(calls) + 1].want = TRUE
      /\ calls'[Len(calls) + 1].who = o
  BY <1>1, CallJoins
<1> HIDE DEF c
<1>3. /\ pc'[o] = "acquire" /\ o \in Owners
      /\ \A q \in Owners : q # o => pc'[q] = pc[q]
      /\ ~moving
  BY DEF ManualTypes, Owners, Movers, MotionHasPlace
<1>4. ManualTypes'
  BY <1>2, <1>3 DEF ManualTypes, CallSet
<1>5. MotionHasPlace'
  BY <1>3 DEF MotionHasPlace, Movers, Owners
<1>6. \A i \in 1 .. Len(calls) :
        /\ calls[i].who \in Owners \cup {"nobody"}
        /\ calls[i].who # "action" /\ calls[i].who # "teleop"
  <2>1. /\ "action" \in Owners /\ "teleop" \in Owners
        /\ \A q \in {"action", "teleop"} :
             pc[q] \notin {"acquire", "release", "rerelease"}
    BY <1>3 DEF Owners, Movers
  <2> QED BY <2>1, NoCallOf, CallTyped
<1>7. CallsHavePlace'
  BY <1>2, <1>3, <1>6 DEF CallsHavePlace, Indices, Movers
<1>8. "clear" \in Owners /\ "clear" # o
  BY DEF Owners, Movers
<1>9. StopsHavePlace' /\ ClearIsFollowed'
  BY <1>3, <1>8 DEF StopsHavePlace, ClearIsFollowed
<1>10. ClearingExcludes'
  <2>1. Waits("action")' /\ Waits("teleop")'
    BY <1>3 DEF Waits, Movers, Owners
  <2>2. pc'["clear"] = "acquire" =>
          \E i \in Indices' :
            /\ calls'[i].who = "clear"
            /\ \A j \in Indices' : calls'[j].who \in Movers => j > i
            /\ \A j \in Indices' : j > i => calls'[j].want
    <3> SUFFICES ASSUME pc["clear"] = "acquire"
                 PROVE  \E i \in Indices' :
                    /\ calls'[i].who = "clear"
                    /\ \A j \in Indices' : calls'[j].who \in Movers => j > i
                    /\ \A j \in Indices' : j > i => calls'[j].want
      BY <1>3, <1>8
    <3>1. PICK i \in Indices :
            /\ calls[i].who = "clear"
            /\ \A j \in Indices : calls[j].who \in Movers => j > i
            /\ \A j \in Indices : j > i => calls[j].want
      BY DEF ClearingExcludes
    <3>2. /\ \A j \in Indices' : j \in Indices \/ j = Len(calls) + 1
          /\ i \in Indices' /\ Len(calls) + 1 > i
      BY <3>1, <1>2 DEF Indices
    <3>3. calls'[i].who = "clear"
      BY <3>1, <1>2 DEF Indices
    <3>4. ASSUME NEW j \in Indices', calls'[j].who \in Movers
          PROVE  j > i
      <4>1. CASE j \in Indices
        BY <3>1, <3>4, <4>1, <1>2 DEF Indices
      <4>2. CASE j = Len(calls) + 1
        BY <3>2, <4>2
      <4> QED BY <3>2, <4>1, <4>2
    <3>5. ASSUME NEW j \in Indices', j > i
          PROVE  calls'[j].want
      <4>1. CASE j \in Indices
        BY <3>1, <3>5, <4>1, <1>2 DEF Indices
      <4>2. CASE j = Len(calls) + 1
        BY <4>2, <1>2
      <4> QED BY <3>2, <4>1, <4>2
    <3> QED BY <3>2, <3>3, <3>4, <3>5
  <2>3. pc'["clear"] \in {"held", "release"} =>
          /\ reserved'
          /\ \A i \in Indices' : ~calls'[i].want => calls'[i].who = "clear"
    BY <1>2, <1>3, <1>8 DEF ClearingExcludes, Indices
  <2> QED BY <2>1, <2>2, <2>3 DEF ClearingExcludes
<1>11. NoReleaseBehind'
  BY <1>2, <1>6 DEF NoReleaseBehind, Indices, Movers
<1>12. ~Held'
  BY <1>3 DEF Held, MotionHasPlace, Movers, Owners
<1> QED BY <1>4, <1>5, <1>7, <1>9, <1>10, <1>11, <1>12 DEF MotionIsCovered

LEMMA MotionReleases ==
  ASSUME MInv, NEW o \in Movers,
         pc[o] \in {"held", "accepting", "running", "stuck"},
         pc' = [pc EXCEPT ![o] = "release"], Reserve(o, FALSE),
         UNCHANGED <<reserved, latch, stops, goal>>,
         moving' \in BOOLEAN, moving' => moving /\ o = "action",
         device' \in {"none", "sent", "live", "canceling", "refused", "ended"},
         Moves(device') => Moves(device) /\ o = "teleop"
  PROVE  MInv'
<1> USE DEF MInv
<1> DEFINE c == [want |-> FALSE, who |-> o]
<1>1. /\ calls \in Seq(CallSet) /\ c \in CallSet
      /\ calls' = Append(calls, c)
  BY DEF ManualTypes, CallSet, Movers, Owners, Reserve
<1>2. /\ calls' \in Seq(CallSet)
      /\ Len(calls) \in Nat /\ Len(calls') = Len(calls) + 1
      /\ \A i \in 1 .. Len(calls) : calls'[i] = calls[i]
      /\ calls'[Len(calls) + 1].want = FALSE
      /\ calls'[Len(calls) + 1].who = o
  BY <1>1, CallJoins
<1> HIDE DEF c
<1>3. /\ pc'[o] = "release" /\ o \in Owners
      /\ \A q \in Owners : q # o => pc'[q] = pc[q]
      /\ \A q \in Movers : q # o => pc[q] = "idle"
  BY DEF ManualTypes, Owners, Movers, MotionHasPlace
<1>4. ManualTypes'
  BY <1>2, <1>3 DEF ManualTypes, CallSet
<1>5. ~moving' /\ ~Moves(device')
  BY <1>3 DEF MotionHasPlace, Movers, Moves
<1>6. MotionHasPlace' /\ ~Held'
  BY <1>3, <1>5 DEF MotionHasPlace, Movers, Owners, Held, Moves
<1>7. \A i \in 1 .. Len(calls) :
        /\ calls[i].who \in Owners \cup {"nobody"}
        /\ calls[i].who # "action" /\ calls[i].who # "teleop"
  <2>1. /\ "action" \in Owners /\ "teleop" \in Owners
        /\ \A q \in {"action", "teleop"} :
             pc[q] \notin {"acquire", "release", "rerelease"}
    BY <1>3 DEF Owners, Movers
  <2> QED BY <2>1, NoCallOf, CallTyped
<1>8. CallsHavePlace'
  <2>1. o \in {"action", "teleop"} /\ o # "nobody"
        /\ \A i \in Indices' : i \in Indices \/ i = Len(calls) + 1
    BY <1>2 DEF Movers, Indices
  <2>2. ASSUME NEW i \in Indices
        PROVE  /\ calls'[i] = calls[i] /\ calls[i].who # o
               /\ calls[i].who # "nobody" =>
                    pc'[calls[i].who] = pc[calls[i].who]
    BY <1>2, <1>3, <1>7, <2>1 DEF Indices
  <2>3. ASSUME NEW i \in Indices', calls'[i].who # "nobody"
        PROVE  \/ calls'[i].want /\ pc'[calls'[i].who] = "acquire"
               \/ /\ ~calls'[i].want
                  /\ pc'[calls'[i].who] \in {"release", "rerelease"}
    <3>1. CASE i \in Indices
      BY <2>2, <2>3, <3>1 DEF CallsHavePlace
    <3>2. CASE i = Len(calls) + 1
      BY <1>2, <1>3, <3>2
    <3> QED BY <2>1, <3>1, <3>2
  <2>4. ASSUME NEW i \in Indices', NEW j \in Indices',
               calls'[i].who = calls'[j].who, calls'[i].who # "nobody"
        PROVE  i = j
    <3>1. CASE i \in Indices /\ j \in Indices
      BY <2>2, <2>4, <3>1 DEF CallsHavePlace
    <3>2. CASE i = Len(calls) + 1 \/ j = Len(calls) + 1
      BY <1>2, <2>1, <2>2, <2>4, <3>2
    <3> QED BY <2>1, <3>1, <3>2
  <2> QED BY <2>3, <2>4 DEF CallsHavePlace
<1>9. "clear" \in Owners /\ "clear" # o
  BY DEF Owners, Movers
<1>10. StopsHavePlace' /\ ClearIsFollowed'
  BY <1>3, <1>9 DEF StopsHavePlace, ClearIsFollowed
<1>11. pc["clear"] \notin {"acquire", "held", "release"}
  BY DEF ClearingExcludes, Waits, Movers
<1>12. ClearingExcludes'
  BY <1>3, <1>9, <1>11 DEF ClearingExcludes
<1>13. NoReleaseBehind'
  BY <1>2, <1>3, <1>7 DEF NoReleaseBehind, Indices, Movers
<1> QED BY <1>4, <1>6, <1>8, <1>10, <1>12, <1>13 DEF MotionIsCovered

-----------------------------------------------------------------------------
(* The server takes a call *)

(* A call of nobody, of an owner that is refused, or a release.            *)
LEMMA CallIsTaken ==
  ASSUME MInv, calls # << >>, calls' = Tail(calls),
         IF calls[1].who = "nobody" THEN pc' = pc
         ELSE pc' = [pc EXCEPT ![calls[1].who] = "idle"],
         reserved' \in BOOLEAN, calls[1].want => (reserved => reserved'),
         UNCHANGED <<latch, stops, device, moving, goal>>
  PROVE  MInv'
<1> USE DEF MInv
<1> DEFINE w == calls[1].who
<1>1. /\ calls' \in Seq(CallSet) /\ Len(calls) \in Nat
      /\ 1 \in 1 .. Len(calls)
      /\ Len(calls') = Len(calls) - 1 /\ Len(calls') \in Nat
      /\ \A i \in 1 .. Len(calls') : calls'[i] = calls[i + 1]
  BY CallServed, CallTyped
<1>2. w \in Owners \cup {"nobody"}
  BY <1>1, CallTyped
<1>3. /\ pc' \in [Owners -> {"idle", "acquire", "held", "accepting",
                            "running", "release", "relatch", "rerelease",
                            "stuck"}]
      /\ w \in Owners => pc'[w] = "idle" /\
           pc[w] \in {"acquire", "release", "rerelease"}
      /\ \A q \in Owners : q # w => pc'[q] = pc[q]
  <2>1. CASE w = "nobody"
    BY <2>1 DEF ManualTypes, Owners
  <2>2. CASE w # "nobody"
    BY <2>2, <1>1, <1>2 DEF ManualTypes, CallsHavePlace, Indices
  <2> QED BY <2>1, <2>2
<1> HIDE DEF w
<1>4. ManualTypes'
  BY <1>1, <1>3 DEF ManualTypes, CallSet
<1>5. MotionHasPlace'
  BY <1>2, <1>3 DEF MotionHasPlace, Owners
<1>6. CallsHavePlace'
  <2>1. \A i \in 1 .. Len(calls') :
          i + 1 \in 1 .. Len(calls) /\ (calls[i + 1].who = w => w = "nobody")
    BY <1>1 DEF CallsHavePlace, Indices, w
  <2>2. \A i \in 1 .. Len(calls') :
          /\ calls'[i].who \in Owners \cup {"nobody"}
          /\ calls'[i].who # "nobody" =>
               calls'[i].who # w /\ pc'[calls'[i].who] = pc[calls'[i].who]
    BY <1>1, <1>3, <2>1, CallTyped
  <2>3. \A i \in Indices' :
          calls'[i].who # "nobody" =>
            \/ calls'[i].want /\ pc'[calls'[i].who] = "acquire"
            \/ /\ ~calls'[i].want
               /\ pc'[calls'[i].who] \in {"release", "rerelease"}
    BY <1>1, <2>1, <2>2 DEF CallsHavePlace, Indices
  <2>4. \A i, j \in Indices' :
          calls'[i].who = calls'[j].who /\ calls'[i].who # "nobody" => i = j
    <3> SUFFICES ASSUME NEW i \in Indices', NEW j \in Indices',
                        calls'[i].who = calls'[j].who,
                        calls'[i].who # "nobody"
                 PROVE  i = j
      OBVIOUS
    <3>1. i + 1 = j + 1
      BY <1>1, <2>1 DEF CallsHavePlace, Indices
    <3> QED BY <3>1, <1>1 DEF Indices
  <2> QED BY <2>3, <2>4 DEF CallsHavePlace
<1>7. StopsHavePlace' /\ ClearIsFollowed'
  <2>1. w = "clear" => pc["clear"] \notin {"held", "relatch"}
    BY <1>2, <1>3 DEF Owners
  <2> QED BY <2>1, <1>2, <1>3 DEF StopsHavePlace, ClearIsFollowed, Owners
<1>8. ClearingExcludes'
  <2>1. pc'["clear"] \in {"acquire", "held", "release"} =>
          w # "clear" /\ pc["clear"] = pc'["clear"] /\
          Waits("action")' /\ Waits("teleop")'
    BY <1>2, <1>3 DEF ClearingExcludes, Waits, Owners
  <2>2. ASSUME pc'["clear"] = "acquire"
        PROVE  \E i \in Indices' :
                  /\ calls'[i].who = "clear"
                  /\ \A j \in Indices' : calls'[j].who \in Movers => j > i
                  /\ \A j \in Indices' : j > i => calls'[j].want
    <3>1. PICK i \in Indices :
            /\ calls[i].who = "clear"
            /\ \A j \in Indices : calls[j].who \in Movers => j > i
            /\ \A j \in Indices : j > i => calls[j].want
      BY <2>1, <2>2 DEF ClearingExcludes
    <3>2. i # 1
      BY <3>1, <2>1, <2>2 DEF w
    <3>3. i - 1 \in Indices' /\ calls'[i - 1].who = "clear"
      BY <3>1, <3>2, <1>1 DEF Indices
    <3>4. \A j \in Indices' : j + 1 \in Indices /\ calls'[j] = calls[j + 1]
      BY <1>1 DEF Indices
    <3>5. \A j \in Indices' : calls'[j].who \in Movers => j > i - 1
      BY <3>1, <3>4, <1>1 DEF Indices
    <3>6. \A j \in Indices' : j > i - 1 => calls'[j].want
      BY <3>1, <3>4, <1>1 DEF Indices
    <3> QED BY <3>3, <3>5, <3>6
  <2>3. ASSUME pc'["clear"] \in {"held", "release"}
        PROVE  /\ reserved'
               /\ \A i \in Indices' : ~calls'[i].want =>
                                        calls'[i].who = "clear"
    <3>1. /\ reserved
          /\ \A i \in Indices : ~calls[i].want => calls[i].who = "clear"
      BY <2>1, <2>3 DEF ClearingExcludes
    <3>2. calls[1].want
      BY <3>1, <2>1, <2>3, <1>1 DEF Indices, w
    <3> QED BY <3>1, <3>2, <1>1 DEF Indices
  <2> QED BY <2>1, <2>2, <2>3 DEF ClearingExcludes
<1>9. NoReleaseBehind'
  <2> SUFFICES ASSUME NEW k \in Indices', calls'[k].who \in Movers,
                      calls'[k].want
               PROVE  \/ \A j \in Indices' : j > k => calls'[j].want
                      \/ WillBeRefused(k)' \/ Firm'
    BY DEF NoReleaseBehind
  <2>1. k + 1 \in Indices /\ calls[k + 1] = calls'[k]
    BY <1>1 DEF Indices
  <2>2. \A j \in Indices' : j + 1 \in Indices /\ calls'[j] = calls[j + 1]
    BY <1>1 DEF Indices
  <2>3. CASE \A j \in Indices : j > k + 1 => calls[j].want
    BY <2>2, <2>3, <1>1 DEF Indices
  <2>4. CASE WillBeRefused(k + 1)
    <3>1. calls[1].want /\ reserved'
      BY <2>1, <2>4, <1>1 DEF WillBeRefused, Indices
    <3>2. \A j \in Indices' : j < k => calls'[j].want
      BY <2>2, <2>4, <1>1 DEF WillBeRefused, Indices
    <3> QED BY <3>1, <3>2 DEF WillBeRefused
  <2>5. CASE Firm
    BY <2>5 DEF Firm
  <2> QED BY <2>1, <2>3, <2>4, <2>5 DEF NoReleaseBehind
<1>10. MotionIsCovered'
  <2> SUFFICES ASSUME Held'
               PROVE  /\ ~Busy'
                      /\ Firm' \/ (reserved' /\ \A i \in Indices' :
                                                  calls'[i].want)
    BY DEF MotionIsCovered
  <2>1. Held
    BY <1>2, <1>3 DEF Held, Owners
  <2>2. CASE Firm
    BY <2>1, <2>2 DEF MotionIsCovered, Firm, Busy
  <2>3. CASE reserved /\ \A i \in Indices : calls[i].want
    BY <2>1, <2>3, <1>1 DEF MotionIsCovered, Indices, Busy
  <2> QED BY <2>1, <2>2, <2>3 DEF MotionIsCovered
<1> QED BY <1>4, <1>5, <1>6, <1>7, <1>8, <1>9, <1>10

(* A motion is granted the reservation.                                    *)
LEMMA MotionIsGranted ==
  ASSUME MInv, calls # << >>, calls' = Tail(calls),
         calls[1].want, calls[1].who \in Movers, ~reserved, ~Busy,
         pc' = [pc EXCEPT ![calls[1].who] = "held"], reserved' = TRUE,
         UNCHANGED <<latch, stops, device, moving, goal>>
  PROVE  MInv'
<1> USE DEF MInv
<1> DEFINE o == calls[1].who
<1>1. /\ calls' \in Seq(CallSet) /\ Len(calls) \in Nat
      /\ 1 \in 1 .. Len(calls)
      /\ Len(calls') = Len(calls) - 1 /\ Len(calls') \in Nat
      /\ \A i \in 1 .. Len(calls') : calls'[i] = calls[i + 1]
  BY CallServed, CallTyped
<1>2. /\ o \in Owners /\ o \in Movers /\ o # "nobody" /\ o # "clear"
      /\ pc[o] = "acquire" /\ pc'[o] = "held"
      /\ pc' \in [Owners -> {"idle", "acquire", "held", "accepting",
                            "running", "release", "relatch", "rerelease",
                            "stuck"}]
      /\ \A q \in Owners : q # o => pc'[q] = pc[q]
  BY <1>1 DEF ManualTypes, Owners, Movers, CallsHavePlace, Indices
<1>3. \A i \in 1 .. Len(calls') :
        /\ i + 1 \in 1 .. Len(calls) /\ calls[i + 1].who # o
        /\ calls'[i].who \in Owners \cup {"nobody"} /\ calls'[i].who # o
  BY <1>1, <1>2, CallTyped DEF CallsHavePlace, Indices
<1>4. \A q \in Movers : q # o => pc[q] = "idle"
  BY <1>2 DEF MotionHasPlace, Movers
<1>5. \A q \in Movers : q # o =>
        \A i \in 1 .. Len(calls) : calls[i].who # q
  BY <1>4, NoCallOf DEF Movers, Owners
<1>6. \A i \in 1 .. Len(calls') : calls'[i].who \notin Movers
  BY <1>1, <1>3, <1>5
<1>7. pc["clear"] \notin {"acquire", "held", "release"}
  <2>1. pc["clear"] # "acquire"
    BY <1>1, <1>2 DEF ClearingExcludes, Indices
  <2>2. pc["clear"] \notin {"held", "release"}
    BY DEF ClearingExcludes
  <2> QED BY <2>1, <2>2
<1>8. Firm \/ \A i \in Indices : calls[i].want
  <2>1. \/ \A j \in Indices : j > 1 => calls[j].want
        \/ Firm
    BY <1>1, <1>2 DEF NoReleaseBehind, WillBeRefused, Indices
  <2> QED BY <2>1, <1>1 DEF Indices
<1> HIDE DEF o
<1>9. ManualTypes'
  BY <1>1, <1>2 DEF ManualTypes, CallSet
<1>10. MotionHasPlace'
  BY <1>2, <1>4 DEF MotionHasPlace, Movers, Owners
<1>11. CallsHavePlace'
  <2>1. \A i \in Indices' : calls'[i].who # "nobody" =>
          pc'[calls'[i].who] = pc[calls'[i].who]
    BY <1>2, <1>3 DEF Indices
  <2>2. \A i \in Indices' :
          calls'[i].who # "nobody" =>
            \/ calls'[i].want /\ pc'[calls'[i].who] = "acquire"
            \/ /\ ~calls'[i].want
               /\ pc'[calls'[i].who] \in {"release", "rerelease"}
    BY <1>1, <1>3, <2>1 DEF CallsHavePlace, Indices
  <2>3. \A i, j \in Indices' :
          calls'[i].who = calls'[j].who /\ calls'[i].who # "nobody" => i = j
    <3> SUFFICES ASSUME NEW i \in Indices', NEW j \in Indices',
                        calls'[i].who = calls'[j].who,
                        calls'[i].who # "nobody"
                 PROVE  i = j
      OBVIOUS
    <3>1. i + 1 = j + 1
      BY <1>1, <1>3 DEF CallsHavePlace, Indices
    <3> QED BY <3>1, <1>1 DEF Indices
  <2> QED BY <2>2, <2>3 DEF CallsHavePlace
<1>12. StopsHavePlace' /\ ClearIsFollowed'
  <2>1. stops' = stops /\ pc'["clear"] = pc["clear"]
    BY <1>2 DEF Owners
  <2> QED BY <2>1 DEF StopsHavePlace, ClearIsFollowed
<1>13. ClearingExcludes'
  BY <1>2, <1>7 DEF ClearingExcludes, Owners
<1>14. NoReleaseBehind'
  BY <1>6 DEF NoReleaseBehind, Indices
<1>15. MotionIsCovered'
  BY <1>1, <1>8 DEF MotionIsCovered, Firm, Indices, Busy
<1> QED BY <1>9, <1>10, <1>11, <1>12, <1>13, <1>14, <1>15

(* A clearing is granted the reservation, and clears the stop.             *)
LEMMA ClearIsGranted ==
  ASSUME MInv, calls # << >>, calls' = Tail(calls),
         calls[1].want, calls[1].who = "clear", ~reserved,
         pc' = [pc EXCEPT !["clear"] = "held"], reserved' = TRUE,
         CallStop("clear", "clear"),
         UNCHANGED <<latch, device, moving, goal>>
  PROVE  MInv'
<1> USE DEF MInv
<1>1. /\ calls' \in Seq(CallSet) /\ Len(calls) \in Nat
      /\ 1 \in 1 .. Len(calls)
      /\ Len(calls') = Len(calls) - 1 /\ Len(calls') \in Nat
      /\ \A i \in 1 .. Len(calls') : calls'[i] = calls[i + 1]
  BY CallServed, CallTyped
<1>2. /\ "clear" \in Owners
      /\ pc["clear"] = "acquire" /\ pc'["clear"] = "held"
      /\ pc' \in [Owners -> {"idle", "acquire", "held", "accepting",
                            "running", "release", "relatch", "rerelease",
                            "stuck"}]
      /\ \A q \in Owners : q # "clear" => pc'[q] = pc[q]
  BY <1>1 DEF ManualTypes, Owners, CallsHavePlace, Indices
<1>3. \A i \in 1 .. Len(calls') :
        /\ i + 1 \in 1 .. Len(calls) /\ calls[i + 1].who # "clear"
        /\ calls'[i].who \in Owners \cup {"nobody"}
        /\ calls'[i].who # "clear"
  BY <1>1, CallTyped DEF CallsHavePlace, Indices
<1> DEFINE c == [want |-> "clear", who |-> "clear"]
<1>4. /\ stops \in Seq(StopSet) /\ c \in StopSet
      /\ stops' = Append(stops, c)
  BY DEF ManualTypes, StopSet, Waiters, Owners, CallStop
<1>5. /\ stops' \in Seq(StopSet)
      /\ Len(stops) \in Nat /\ Len(stops') = Len(stops) + 1
      /\ \A i \in 1 .. Len(stops) : stops'[i] = stops[i]
      /\ stops'[Len(stops) + 1].want = "clear"
      /\ stops'[Len(stops) + 1].who = "clear"
  BY <1>4, StopJoins
<1> HIDE DEF c
<1>6. /\ Waits("action") /\ Waits("teleop")
      /\ \A j \in Indices : j > 1 => calls[j].want
  <2>1. PICK i \in Indices :
          /\ calls[i].who = "clear"
          /\ \A j \in Indices : j > i => calls[j].want
    BY <1>2 DEF ClearingExcludes
  <2>2. i = 1
    BY <2>1, <1>1 DEF CallsHavePlace, Indices
  <2> QED BY <2>1, <2>2, <1>2 DEF ClearingExcludes
<1>7. \A i \in Indices' : calls'[i].want
  BY <1>1, <1>3, <1>6 DEF Indices
<1>8. ManualTypes'
  BY <1>1, <1>2, <1>5 DEF ManualTypes, CallSet, StopSet
<1>9. MotionHasPlace'
  BY <1>2 DEF MotionHasPlace, Owners
<1>10. CallsHavePlace'
  <2>1. \A i \in Indices' : calls'[i].who # "nobody" =>
          pc'[calls'[i].who] = pc[calls'[i].who]
    BY <1>2, <1>3 DEF Indices
  <2>2. \A i \in Indices' :
          calls'[i].who # "nobody" =>
            \/ calls'[i].want /\ pc'[calls'[i].who] = "acquire"
            \/ /\ ~calls'[i].want
               /\ pc'[calls'[i].who] \in {"release", "rerelease"}
    BY <1>1, <1>3, <2>1 DEF CallsHavePlace, Indices
  <2>3. \A i, j \in Indices' :
          calls'[i].who = calls'[j].who /\ calls'[i].who # "nobody" => i = j
    <3> SUFFICES ASSUME NEW i \in Indices', NEW j \in Indices',
                        calls'[i].who = calls'[j].who,
                        calls'[i].who # "nobody"
                 PROVE  i = j
      OBVIOUS
    <3>1. i + 1 = j + 1
      BY <1>1, <1>3 DEF CallsHavePlace, Indices
    <3> QED BY <3>1, <1>1 DEF Indices
  <2> QED BY <2>2, <2>3 DEF CallsHavePlace
<1>11. \A i \in 1 .. Len(stops) :
         stops[i].who # "clear" /\ stops[i].want # "clear"
  BY <1>2 DEF StopsHavePlace, ClearIsFollowed
<1>12. StopsHavePlace'
  BY <1>2, <1>5, <1>11, CallOfClearJoins
<1>13. ClearIsFollowed'
  BY <1>2, <1>5, <1>11 DEF ClearIsFollowed
<1>14. ClearingExcludes'
  BY <1>2, <1>6, <1>7 DEF ClearingExcludes, Waits, Owners
<1>15. NoReleaseBehind'
  BY <1>7 DEF NoReleaseBehind
<1>16. ~Held'
  BY <1>2, <1>6 DEF Held, Waits, Owners, MotionHasPlace
<1> QED BY <1>8, <1>9, <1>10, <1>12, <1>13, <1>14, <1>15, <1>16
        DEF MotionIsCovered

LEMMA ReservationServed ==
  ASSUME MInv, ServeReservation
  PROVE  MInv'
<1> DEFINE c == calls[1]
           granted == c.want => ~Busy /\ ~reserved
<1>1. Head(calls) = calls[1] /\ calls # << >> /\ calls' = Tail(calls)
  BY CallTyped, CallServed DEF ServeReservation
<1>2. /\ c.want \in BOOLEAN /\ c.who \in Owners \cup {"nobody"}
      /\ reserved \in BOOLEAN
  BY <1>1, CallTyped, CallServed DEF MInv, ManualTypes
<1>3. /\ reserved' = IF granted THEN c.want ELSE reserved
      /\ IF c.who = "nobody" THEN UNCHANGED <<pc, preempt>>
         ELSE IF c.want /\ granted
         THEN Goto(c.who, "held") /\ UNCHANGED preempt
         ELSE Leave(c.who)
      /\ IF c.who = "clear" /\ c.want /\ granted
         THEN CallStop("clear", "clear") ELSE UNCHANGED stops
      /\ UNCHANGED <<latch, device, moving, goal>>
  BY <1>1 DEF ServeReservation, tasks
<1>4. CASE c.who # "nobody" /\ c.want /\ granted
  <2>1. pc' = [pc EXCEPT ![c.who] = "held"] /\ reserved' = TRUE
        /\ ~reserved /\ ~Busy
    BY <1>3, <1>4 DEF Goto
  <2>2. CASE c.who \in Movers
    <3>1. UNCHANGED stops
      BY <1>3, <2>2 DEF Movers
    <3> QED BY <1>1, <1>3, <1>4, <2>1, <2>2, <3>1, MotionIsGranted
  <2>3. CASE c.who = "clear"
    <3>1. CallStop("clear", "clear")
      BY <1>3, <1>4, <2>3
    <3> QED BY <1>1, <1>3, <1>4, <2>1, <2>3, <3>1, ClearIsGranted
  <2> QED BY <1>2, <1>4, <2>2, <2>3 DEF Owners, Movers
<1>5. CASE ~(c.who # "nobody" /\ c.want /\ granted)
  <2>1. UNCHANGED stops
    BY <1>3, <1>5
  <2>2. IF c.who = "nobody" THEN pc' = pc
        ELSE pc' = [pc EXCEPT ![c.who] = "idle"]
    BY <1>3, <1>5 DEF Leave, Goto
  <2>3. reserved' \in BOOLEAN /\ (c.want => (reserved => reserved'))
    BY <1>2, <1>3
  <2> QED BY <1>1, <1>3, <2>1, <2>2, <2>3, CallIsTaken
<1> QED BY <1>4, <1>5

-----------------------------------------------------------------------------
(* A caller gives up *)

(* What is left of the queue keeps its order, and the call that was given  *)
(* up is nobody's or gone: f says where each call was.                     *)
Kept(i, f) ==
  /\ calls' \in Seq(CallSet)
  /\ f \in [1 .. Len(calls') -> 1 .. Len(calls)]
  /\ \A k \in 1 .. Len(calls') :
       /\ calls'[k].want = calls[f[k]].want
       /\ f[k] = i => calls'[k].who = "nobody"
       /\ f[k] # i => calls'[k].who = calls[f[k]].who
  /\ \A j, k \in 1 .. Len(calls') : (j < k) <=> (f[j] < f[k])
  /\ \A j, k \in 1 .. Len(calls') : f[j] = f[k] => j = k
  /\ \A m \in 1 .. Len(calls) :
       m # i => \E k \in 1 .. Len(calls') : f[k] = m

LEMMA GivenUpKeeps ==
  ASSUME calls \in Seq(CallSet), NEW i \in 1 .. Len(calls),
         \/ calls' = [calls EXCEPT ![i].who = "nobody"]
         \/ calls' = SubSeq(calls, 1, i - 1)
                       \o SubSeq(calls, i + 1, Len(calls))
  PROVE  \E f : Kept(i, f)
<1>1. CASE calls' = [calls EXCEPT ![i].who = "nobody"]
  <2> DEFINE f == [k \in 1 .. Len(calls') |-> k]
  <2>1. /\ calls' \in Seq(CallSet)
        /\ Len(calls) \in Nat /\ Len(calls') = Len(calls)
        /\ \A k \in 1 .. Len(calls) : k # i => calls'[k] = calls[k]
        /\ calls'[i].want = calls[i].want /\ calls'[i].who = "nobody"
    BY <1>1, CallForgotten
  <2>2. /\ f \in [1 .. Len(calls') -> 1 .. Len(calls)]
        /\ \A k \in 1 .. Len(calls') : f[k] = k
    BY <2>1
  <2> HIDE DEF f
  <2>3. Kept(i, f)
    BY <2>1, <2>2 DEF Kept
  <2> QED BY <2>3
<1>2. CASE calls' = SubSeq(calls, 1, i - 1)
                      \o SubSeq(calls, i + 1, Len(calls))
  <2> DEFINE f == [k \in 1 .. Len(calls') |-> IF k < i THEN k ELSE k + 1]
  <2>1. /\ calls' \in Seq(CallSet)
        /\ Len(calls) \in Nat /\ Len(calls') = Len(calls) - 1
        /\ Len(calls') \in Nat
        /\ \A k \in 1 .. Len(calls') :
             /\ k < i => calls'[k] = calls[k]
             /\ k >= i => calls'[k] = calls[k + 1]
    BY <1>2, CallLost
  <2>0. /\ Len(calls) \in Nat /\ Len(calls') \in Nat
        /\ Len(calls') = Len(calls) - 1 /\ i \in 1 .. Len(calls)
    BY <2>1
  <2>2. /\ f \in [1 .. Len(calls') -> 1 .. Len(calls)]
        /\ \A k \in 1 .. Len(calls') : f[k] = IF k < i THEN k ELSE k + 1
    BY <2>0
  <2> HIDE DEF f
  <2>3. \A k \in 1 .. Len(calls') : f[k] # i /\ calls'[k] = calls[f[k]]
    <3> SUFFICES ASSUME NEW k \in 1 .. Len(calls')
                 PROVE  f[k] # i /\ calls'[k] = calls[f[k]]
      OBVIOUS
    <3>1. CASE k < i
      BY <3>1, <2>1, <2>2
    <3>2. CASE k >= i
      BY <3>2, <2>1, <2>2
    <3> QED BY <3>1, <3>2, <2>1
  <2>4. \A m \in 1 .. Len(calls) :
          m # i => \E k \in 1 .. Len(calls') : f[k] = m
    <3> SUFFICES ASSUME NEW m \in 1 .. Len(calls), m # i
                 PROVE  \E k \in 1 .. Len(calls') : f[k] = m
      OBVIOUS
    <3>1. CASE m < i
      <4>1. m \in 1 .. Len(calls')
        BY <3>1, <2>0
      <4>2. f[m] = m
        BY <3>1, <2>2, <4>1
      <4> QED BY <4>1, <4>2
    <3>2. CASE m > i
      <4>1. /\ m - 1 \in 1 .. Len(calls') /\ ~(m - 1 < i)
            /\ (m - 1) + 1 = m
        BY <3>2, <2>0
      <4>2. f[m - 1] = m
        BY <2>2, <4>1
      <4> QED BY <4>1, <4>2
    <3> QED BY <3>1, <3>2
  <2>5. ASSUME NEW j \in 1 .. Len(calls'), NEW k \in 1 .. Len(calls')
        PROVE  ((j < k) <=> (f[j] < f[k])) /\ (f[j] = f[k] => j = k)
    <3>1. /\ f[j] = IF j < i THEN j ELSE j + 1
          /\ f[k] = IF k < i THEN k ELSE k + 1
      BY <2>2
    <3> QED BY <2>0, <3>1
  <2>6. Kept(i, f)
    BY <2>1, <2>2, <2>3, <2>4, <2>5 DEF Kept
  <2> QED BY <2>6
<1> QED BY <1>1, <1>2

(* The owner whose call was given up goes to p; a clearing whose release   *)
(* was given up latches the stop again.                                    *)
LEMMA CallIsGivenUp ==
  ASSUME MInv, NEW i \in 1 .. Len(calls), NEW f, Kept(i, f),
         NEW o \in Owners, calls[i].who = o,
         NEW p \in {"idle", "stuck", "relatch"},
         p = "stuck" => o \in Movers /\ ~calls[i].want,
         IF p = "relatch"
         THEN o = "clear" /\ CallStop("clear", "latched")
         ELSE UNCHANGED stops,
         pc' = [pc EXCEPT ![o] = p],
         UNCHANGED <<reserved, latch, device, moving, goal>>
  PROVE  MInv'
<1> USE DEF MInv
<1>1. /\ calls' \in Seq(CallSet) /\ Len(calls') \in Nat /\ Len(calls) \in Nat
      /\ \A k \in 1 .. Len(calls') :
           /\ f[k] \in 1 .. Len(calls)
           /\ calls'[k].want = calls[f[k]].want
           /\ f[k] = i => calls'[k].who = "nobody"
           /\ f[k] # i => calls'[k].who = calls[f[k]].who
      /\ \A j, k \in 1 .. Len(calls') : (j < k) <=> (f[j] < f[k])
      /\ \A j, k \in 1 .. Len(calls') : f[j] = f[k] => j = k
      /\ \A m \in 1 .. Len(calls) :
           m # i => \E k \in 1 .. Len(calls') : f[k] = m
  <2>1. Len(calls') \in Nat /\ Len(calls) \in Nat
    BY CallTyped DEF Kept
  <2> QED BY <2>1 DEF Kept
<1>2. /\ o # "nobody"
      /\ \/ calls[i].want /\ pc[o] = "acquire"
         \/ ~calls[i].want /\ pc[o] \in {"release", "rerelease"}
      /\ pc' \in [Owners -> {"idle", "acquire", "held", "accepting",
                            "running", "release", "relatch", "rerelease",
                            "stuck"}]
      /\ pc'[o] = p
      /\ \A q \in Owners : q # o => pc'[q] = pc[q]
  BY DEF ManualTypes, Owners, CallsHavePlace, Indices
<1>3. \A k \in 1 .. Len(calls') :
        /\ calls'[k].who \in Owners \cup {"nobody"} /\ calls'[k].who # o
        /\ calls'[k].who # "nobody" => f[k] # i
  <2> SUFFICES ASSUME NEW k \in 1 .. Len(calls')
               PROVE  /\ calls'[k].who \in Owners \cup {"nobody"}
                      /\ calls'[k].who # o
                      /\ calls'[k].who # "nobody" => f[k] # i
    OBVIOUS
  <2>1. CASE f[k] = i
    BY <1>1, <1>2, <2>1
  <2>2. CASE f[k] # i
    <3>1. f[k] \in 1 .. Len(calls) /\ calls'[k].who = calls[f[k]].who
      BY <1>1, <2>2
    <3>2. calls[f[k]].who # o
      BY <1>2, <2>2, <3>1 DEF CallsHavePlace, Indices
    <3> QED BY <2>2, <3>1, <3>2, CallTyped
  <2> QED BY <2>1, <2>2
<1>4. stops \in Seq(StopSet) /\ Len(stops) \in Nat
  <2>1. stops \in Seq(StopSet)
    BY DEF ManualTypes, StopSet
  <2> QED BY <2>1
<1>5. /\ stops' \in Seq(StopSet)
      /\ \/ stops' = stops
         \/ /\ p = "relatch" /\ o = "clear"
            /\ Len(stops') = Len(stops) + 1
            /\ \A k \in 1 .. Len(stops) : stops'[k] = stops[k]
            /\ stops'[Len(stops) + 1].want = "latched"
            /\ stops'[Len(stops) + 1].who = "clear"
  <2>1. CASE p # "relatch"
    BY <2>1, <1>4
  <2>2. CASE p = "relatch"
    <3> DEFINE c == [want |-> "latched", who |-> "clear"]
    <3>1. c \in StopSet /\ stops' = Append(stops, c)
      BY <2>2 DEF StopSet, Waiters, Owners, CallStop
    <3> QED BY <2>2, <3>1, <1>4, StopJoins
  <2> QED BY <2>1, <2>2
<1>6. ManualTypes'
  BY <1>1, <1>2, <1>5 DEF ManualTypes, CallSet, StopSet
<1>7. MotionHasPlace'
  BY <1>2 DEF MotionHasPlace, Owners, Movers
<1>8. CallsHavePlace'
  <2>1. \A k \in Indices' : calls'[k].who # "nobody" =>
          /\ calls'[k].who = calls[f[k]].who
          /\ pc'[calls'[k].who] = pc[calls'[k].who]
    BY <1>1, <1>2, <1>3 DEF Indices
  <2>2. \A k \in Indices' :
          calls'[k].who # "nobody" =>
            \/ calls'[k].want /\ pc'[calls'[k].who] = "acquire"
            \/ /\ ~calls'[k].want
               /\ pc'[calls'[k].who] \in {"release", "rerelease"}
    <3> SUFFICES ASSUME NEW k \in Indices', calls'[k].who # "nobody"
                 PROVE  \/ calls'[k].want /\ pc'[calls'[k].who] = "acquire"
                        \/ /\ ~calls'[k].want
                           /\ pc'[calls'[k].who] \in {"release", "rerelease"}
      OBVIOUS
    <3>1. f[k] \in Indices /\ calls'[k].want = calls[f[k]].want
      BY <1>1 DEF Indices
    <3>2. \/ calls[f[k]].want /\ pc[calls[f[k]].who] = "acquire"
          \/ /\ ~calls[f[k]].want
             /\ pc[calls[f[k]].who] \in {"release", "rerelease"}
      BY <2>1, <3>1 DEF CallsHavePlace
    <3> QED BY <2>1, <3>1, <3>2
  <2>3. \A k, j \in Indices' :
          calls'[k].who = calls'[j].who /\ calls'[k].who # "nobody" => k = j
    <3> SUFFICES ASSUME NEW k \in Indices', NEW j \in Indices',
                        calls'[k].who = calls'[j].who,
                        calls'[k].who # "nobody"
                 PROVE  k = j
      OBVIOUS
    <3>1. f[k] \in Indices /\ f[j] \in Indices
      BY <1>1 DEF Indices
    <3>2. /\ calls[f[k]].who = calls[f[j]].who
          /\ calls[f[k]].who # "nobody"
      BY <2>1
    <3>3. f[k] = f[j]
      BY <3>1, <3>2 DEF CallsHavePlace
    <3> QED BY <3>3, <1>1 DEF Indices
  <2> QED BY <2>2, <2>3 DEF CallsHavePlace
<1>9. StopsHavePlace' /\ ClearIsFollowed'
  <2>1. CASE o # "clear"
    <3>1. stops' = stops /\ pc'["clear"] = pc["clear"]
      BY <2>1, <1>2, <1>5 DEF Owners
    <3> QED BY <3>1 DEF StopsHavePlace, ClearIsFollowed
  <2>2. CASE o = "clear"
    <3>1. \A k \in 1 .. Len(stops) :
            stops[k].who # "clear" /\ stops[k].want # "clear"
      BY <2>2, <1>2 DEF StopsHavePlace, ClearIsFollowed
    <3>2. StopsHavePlace'
      <4>1. CASE stops' = stops
        BY <3>1, <4>1 DEF StopsHavePlace
      <4>2. CASE stops' # stops
        BY <2>2, <3>1, <4>2, <1>2, <1>4, <1>5, CallOfClearJoins
      <4> QED BY <4>1, <4>2
    <3>3. ClearIsFollowed'
      BY <2>2, <3>1, <1>2, <1>4, <1>5 DEF ClearIsFollowed
    <3> QED BY <3>2, <3>3
  <2> QED BY <2>1, <2>2
<1>10. ClearingExcludes'
  <2>1. pc'["clear"] \in {"acquire", "held", "release"} =>
          o # "clear" /\ pc["clear"] = pc'["clear"] /\
          Waits("action")' /\ Waits("teleop")'
    BY <1>2 DEF ClearingExcludes, Waits, Owners, Movers
  <2>2. ASSUME pc'["clear"] = "acquire"
        PROVE  \E m \in Indices' :
                  /\ calls'[m].who = "clear"
                  /\ \A j \in Indices' : calls'[j].who \in Movers => j > m
                  /\ \A j \in Indices' : j > m => calls'[j].want
    <3>1. PICK n \in Indices :
            /\ calls[n].who = "clear"
            /\ \A j \in Indices : calls[j].who \in Movers => j > n
            /\ \A j \in Indices : j > n => calls[j].want
      BY <2>1, <2>2 DEF ClearingExcludes
    <3>2. n # i
      BY <3>1, <2>1, <2>2
    <3>3. PICK m \in Indices' : f[m] = n
      BY <3>1, <3>2, <1>1 DEF Indices
    <3>4. calls'[m].who = "clear"
      BY <3>1, <3>2, <3>3, <1>1 DEF Indices
    <3>5. \A j \in Indices' : calls'[j].who \in Movers => j > m
      BY <3>1, <3>3, <1>1, <1>3 DEF Indices, Movers
    <3>6. ASSUME NEW j \in Indices', j > m
          PROVE  calls'[j].want
      <4>1. j \in 1 .. Len(calls') /\ m \in 1 .. Len(calls') /\ m < j
        BY <3>6, <1>1 DEF Indices
      <4>2. /\ f[j] \in 1 .. Len(calls) /\ f[m] < f[j]
            /\ calls'[j].want = calls[f[j]].want
        BY <4>1, <1>1
      <4>3. f[j] \in Indices /\ f[j] > n
        BY <3>1, <3>3, <4>2 DEF Indices
      <4> QED BY <3>1, <4>2, <4>3
    <3> QED BY <3>4, <3>5, <3>6
  <2>3. ASSUME pc'["clear"] \in {"held", "release"}
        PROVE  /\ reserved'
               /\ \A k \in Indices' : ~calls'[k].want =>
                                        calls'[k].who = "clear"
    <3>1. /\ reserved
          /\ \A k \in Indices : ~calls[k].want => calls[k].who = "clear"
      BY <2>1, <2>3 DEF ClearingExcludes
    <3>2. \A k \in Indices : ~calls[k].want => k # i
      BY <3>1, <2>1, <2>3
    <3> QED BY <3>1, <3>2, <1>1 DEF Indices
  <2> QED BY <2>1, <2>2, <2>3 DEF ClearingExcludes
<1>11. Firm => Firm'
  BY <1>4, <1>5 DEF Firm
<1>12. NoReleaseBehind'
  <2> SUFFICES ASSUME NEW k \in Indices', calls'[k].who \in Movers,
                      calls'[k].want
               PROVE  \/ \A j \in Indices' : j > k => calls'[j].want
                      \/ WillBeRefused(k)' \/ Firm'
    BY DEF NoReleaseBehind
  <2>1. f[k] \in Indices /\ calls[f[k]].who \in Movers /\ calls[f[k]].want
    BY <1>1, <1>3 DEF Indices, Movers
  <2>2. \A j \in Indices' : f[j] \in Indices /\ calls'[j].want = calls[f[j]].want
    BY <1>1 DEF Indices
  <2>3. CASE \A j \in Indices : j > f[k] => calls[j].want
    BY <2>2, <2>3, <1>1 DEF Indices
  <2>4. CASE WillBeRefused(f[k])
    BY <2>2, <2>4, <1>1 DEF WillBeRefused, Indices
  <2>5. CASE Firm
    BY <2>5, <1>11
  <2> QED BY <2>1, <2>3, <2>4, <2>5 DEF NoReleaseBehind
<1>13. MotionIsCovered'
  <2> SUFFICES ASSUME Held'
               PROVE  /\ ~Busy'
                      /\ Firm' \/ (reserved' /\ \A k \in Indices' :
                                                  calls'[k].want)
    BY DEF MotionIsCovered
  <2>1. Held
    BY <1>2 DEF Held, Owners
  <2> QED BY <2>1, <1>1, <1>11 DEF MotionIsCovered, Indices, Busy
<1> QED BY <1>6, <1>7, <1>8, <1>9, <1>10, <1>12, <1>13

LEMMA ReservationGivenUp ==
  ASSUME MInv, ReservationTimeout
  PROVE  MInv'
<1>1. PICK i \in 1 .. Len(calls) :
        LET c == calls[i]
        IN  /\ c.who # "nobody"
            /\ \/ calls' = [calls EXCEPT ![i].who = "nobody"]
               \/ calls' = SubSeq(calls, 1, i - 1)
                             \o SubSeq(calls, i + 1, Len(calls))
            /\ IF c.want \/ pc[c.who] = "rerelease"
               THEN Leave(c.who) /\ UNCHANGED stops
               ELSE /\ UNCHANGED preempt
                    /\ IF c.who = "clear"
                       THEN Goto("clear", "relatch")
                            /\ CallStop("clear", "latched")
                       ELSE Goto(c.who, "stuck") /\ UNCHANGED stops
  BY DEF ReservationTimeout
<1>2. UNCHANGED <<reserved, latch, device, moving, goal>>
  BY DEF ReservationTimeout, tasks
<1>3. PICK f : Kept(i, f)
  BY <1>1, GivenUpKeeps, CallTyped
<1>4. calls[i].who \in Owners
  BY <1>1, CallTyped
<1>5. CASE calls[i].want \/ pc[calls[i].who] = "rerelease"
  <2>1. pc' = [pc EXCEPT ![calls[i].who] = "idle"] /\ UNCHANGED stops
    BY <1>1, <1>5 DEF Leave, Goto
  <2> QED BY <2>1, <1>2, <1>3, <1>4, CallIsGivenUp
<1>6. CASE ~(calls[i].want \/ pc[calls[i].who] = "rerelease")
  <2>1. CASE calls[i].who = "clear"
    <3>1. /\ pc' = [pc EXCEPT !["clear"] = "relatch"]
          /\ CallStop("clear", "latched")
      BY <1>1, <1>6, <2>1 DEF Goto
    <3> QED BY <2>1, <3>1, <1>2, <1>3, <1>4, CallIsGivenUp
  <2>2. CASE calls[i].who # "clear"
    <3>1. /\ pc' = [pc EXCEPT ![calls[i].who] = "stuck"]
          /\ UNCHANGED stops
      BY <1>1, <1>6, <2>2 DEF Goto
    <3>2. calls[i].who \in Movers
      BY <1>4, <2>2 DEF Owners, Movers
    <3> QED BY <3>1, <3>2, <1>2, <1>3, <1>4, <1>6, CallIsGivenUp
  <2> QED BY <2>1, <2>2
<1> QED BY <1>5, <1>6

-----------------------------------------------------------------------------
(* The stop of the base *)

(* Calls to the stop that do not change what the reservation rests on.     *)
LEMMA StopsChange ==
  ASSUME MInv, StopsHavePlace', ClearIsFollowed',
         stops' \in Seq(StopSet), latch' \in {"latched", "clear"},
         Firm => Firm',
         UNCHANGED <<reserved, calls, pc, device, goal>>,
         moving' \in BOOLEAN, moving' => moving
  PROVE  MInv'
<1> USE DEF MInv
<1>1. ManualTypes' /\ MotionHasPlace'
  BY DEF ManualTypes, MotionHasPlace, StopSet
<1>2. CallsHavePlace' /\ ClearingExcludes'
  BY DEF CallsHavePlace, ClearingExcludes, Waits, Indices
<1>3. NoReleaseBehind'
  BY DEF NoReleaseBehind, WillBeRefused, Indices
<1>4. MotionIsCovered'
  BY DEF MotionIsCovered, Held, Busy, Indices
<1> QED BY <1>1, <1>2, <1>3, <1>4

LEMMA HaltAsks ==
  ASSUME MInv, CallStop("halt", "latched"),
         UNCHANGED <<reserved, latch, calls, pc, device, goal, moving>>
  PROVE  MInv'
<1> DEFINE c == [want |-> "latched", who |-> "halt"]
<1>1. stops \in Seq(StopSet) /\ c \in StopSet /\ stops' = Append(stops, c)
  BY DEF MInv, ManualTypes, StopSet, Waiters, CallStop
<1>2. /\ stops' \in Seq(StopSet)
      /\ Len(stops) \in Nat /\ Len(stops') = Len(stops) + 1
      /\ \A i \in 1 .. Len(stops) : stops'[i] = stops[i]
      /\ stops'[Len(stops) + 1].want = "latched"
      /\ stops'[Len(stops) + 1].who = "halt"
  BY <1>1, StopJoins
<1> HIDE DEF c
<1>3. StopsHavePlace'
  BY <1>2 DEF MInv, StopsHavePlace
<1>4. ClearIsFollowed'
  BY <1>2 DEF MInv, ClearIsFollowed
<1>5. Firm => Firm'
  BY <1>2 DEF Firm
<1>6. latch' \in {"latched", "clear"} /\ moving' \in BOOLEAN
  BY DEF MInv, ManualTypes
<1> QED BY <1>2, <1>3, <1>4, <1>5, <1>6, StopsChange

(* A clearing gives the reservation back: it has cleared the stop, or has  *)
(* latched it again.                                                       *)
LEMMA ClearReleases ==
  ASSUME MInv, NEW p \in {"release", "rerelease"},
         IF p = "release" THEN pc["clear"] = "held"
         ELSE pc["clear"] = "relatch" /\ Firm',
         pc' = [pc EXCEPT !["clear"] = p], Reserve("clear", FALSE),
         stops' \in Seq(StopSet), latch' \in {"latched", "clear"},
         Len(stops') \in Nat,
         \A i \in 1 .. Len(stops') :
           /\ stops'[i].want # "clear" /\ stops'[i].who # "clear"
           /\ stops'[i].who \notin Movers
           /\ stops'[i].who = "halt" => stops'[i].want = "latched",
         UNCHANGED <<reserved, device, moving, goal>>
  PROVE  MInv'
<1> USE DEF MInv
<1> DEFINE c == [want |-> FALSE, who |-> "clear"]
<1>1. /\ calls \in Seq(CallSet) /\ c \in CallSet
      /\ calls' = Append(calls, c)
  BY DEF ManualTypes, CallSet, Owners, Reserve
<1>2. /\ calls' \in Seq(CallSet)
      /\ Len(calls) \in Nat /\ Len(calls') = Len(calls) + 1
      /\ \A i \in 1 .. Len(calls) : calls'[i] = calls[i]
      /\ calls'[Len(calls) + 1].want = FALSE
      /\ calls'[Len(calls) + 1].who = "clear"
  BY <1>1, CallJoins
<1> HIDE DEF c
<1>3. /\ "clear" \in Owners /\ pc'["clear"] = p
      /\ pc' \in [Owners -> {"idle", "acquire", "held", "accepting",
                            "running", "release", "relatch", "rerelease",
                            "stuck"}]
      /\ \A q \in Owners : q # "clear" => pc'[q] = pc[q]
  BY DEF ManualTypes, Owners
<1>4. \A i \in 1 .. Len(calls) :
        calls[i].who # "clear" /\ calls[i].who \in Owners \cup {"nobody"}
  <2>1. pc["clear"] \notin {"acquire", "release", "rerelease"}
    OBVIOUS
  <2> QED BY <2>1, <1>3, NoCallOf, CallTyped
<1>5. ManualTypes'
  BY <1>2, <1>3 DEF ManualTypes, CallSet, StopSet
<1>6. MotionHasPlace'
  BY <1>3 DEF MotionHasPlace, Owners
<1>7. CallsHavePlace'
  <2>1. \A i \in 1 .. Len(calls) : calls[i].who # "nobody" =>
          pc'[calls[i].who] = pc[calls[i].who]
    BY <1>3, <1>4
  <2>2. \A i \in Indices' : i \in Indices \/ i = Len(calls) + 1
    BY <1>2 DEF Indices
  <2>3. \A i \in Indices' :
          calls'[i].who # "nobody" =>
            \/ calls'[i].want /\ pc'[calls'[i].who] = "acquire"
            \/ /\ ~calls'[i].want
               /\ pc'[calls'[i].who] \in {"release", "rerelease"}
    <3> SUFFICES ASSUME NEW i \in Indices', calls'[i].who # "nobody"
                 PROVE  \/ calls'[i].want /\ pc'[calls'[i].who] = "acquire"
                        \/ /\ ~calls'[i].want
                           /\ pc'[calls'[i].who] \in {"release", "rerelease"}
      OBVIOUS
    <3>1. CASE i \in Indices
      <4>1. calls'[i] = calls[i] /\ pc'[calls[i].who] = pc[calls[i].who]
        BY <3>1, <1>2, <2>1 DEF Indices
      <4> QED BY <3>1, <4>1 DEF CallsHavePlace
    <3>2. CASE i = Len(calls) + 1
      BY <3>2, <1>2, <1>3
    <3> QED BY <2>2, <3>1, <3>2
  <2>4. \A i, j \in Indices' :
          calls'[i].who = calls'[j].who /\ calls'[i].who # "nobody" => i = j
    <3> SUFFICES ASSUME NEW i \in Indices', NEW j \in Indices',
                        calls'[i].who = calls'[j].who,
                        calls'[i].who # "nobody"
                 PROVE  i = j
      OBVIOUS
    <3>1. \A k \in Indices : calls'[k] = calls[k] /\ calls[k].who # "clear"
      BY <1>2, <1>4 DEF Indices
    <3>2. CASE i \in Indices /\ j \in Indices
      <4>1. calls[i].who = calls[j].who /\ calls[i].who # "nobody"
        BY <3>1, <3>2
      <4> QED BY <3>2, <4>1 DEF CallsHavePlace
    <3>3. CASE i \in Indices /\ j = Len(calls) + 1
      BY <3>1, <3>3, <1>2
    <3>4. CASE i = Len(calls) + 1 /\ j \in Indices
      BY <3>1, <3>4, <1>2
    <3>5. CASE i = Len(calls) + 1 /\ j = Len(calls) + 1
      BY <3>5
    <3> QED BY <2>2, <3>2, <3>3, <3>4, <3>5
  <2> QED BY <2>3, <2>4 DEF CallsHavePlace
<1>8. StopsHavePlace' /\ ClearIsFollowed'
  BY DEF StopsHavePlace, ClearIsFollowed, Movers
<1>9. ClearingExcludes'
  <2>1. CASE p = "release"
    <3>1. /\ reserved /\ Waits("action") /\ Waits("teleop")
          /\ \A i \in Indices : ~calls[i].want => calls[i].who = "clear"
      BY <2>1 DEF ClearingExcludes
    <3> QED BY <2>1, <3>1, <1>2, <1>3
            DEF ClearingExcludes, Waits, Owners, Indices
  <2>2. CASE p = "rerelease"
    BY <2>2, <1>3 DEF ClearingExcludes
  <2> QED BY <2>1, <2>2
<1>10. NoReleaseBehind'
  <2>1. CASE p = "release"
    <3>1. reserved' /\ \A i \in 1 .. Len(calls) : calls'[i].want
      BY <2>1, <1>2, <1>4 DEF ClearingExcludes, Indices
    <3> SUFFICES ASSUME NEW k \in Indices', calls'[k].who \in Movers
                 PROVE  WillBeRefused(k)'
      BY DEF NoReleaseBehind
    <3> QED BY <3>1, <1>2 DEF WillBeRefused, Indices, Movers
  <2>2. CASE p = "rerelease"
    BY <2>2 DEF NoReleaseBehind
  <2> QED BY <2>1, <2>2
<1>11. MotionIsCovered'
  <2>1. CASE p = "release"
    <3>1. ~Held'
      BY <2>1, <1>3 DEF Held, ClearingExcludes, Waits, MotionHasPlace, Owners
    <3> QED BY <3>1 DEF MotionIsCovered
  <2>2. CASE p = "rerelease"
    <3>1. Held' => Held
      BY <1>3 DEF Held, Owners
    <3> QED BY <2>2, <3>1 DEF MotionIsCovered, Busy
  <2> QED BY <2>1, <2>2
<1> QED BY <1>5, <1>6, <1>7, <1>8, <1>9, <1>10, <1>11

LEMMA NoClearBehind ==
  ASSUME MInv, stops # << >>, stops' = Tail(stops), stops[1].who = "clear"
  PROVE  \A i \in 1 .. Len(stops') :
           stops'[i].who # "clear" /\ stops'[i].want # "clear"
<1> USE DEF MInv
<1> SUFFICES ASSUME NEW i \in 1 .. Len(stops')
             PROVE  stops'[i].who # "clear" /\ stops'[i].want # "clear"
  OBVIOUS
<1>1. stops \in Seq(StopSet)
  BY DEF ManualTypes, StopSet
<1>2. /\ Len(stops) \in Nat /\ 1 \in 1 .. Len(stops)
      /\ i + 1 \in 1 .. Len(stops) /\ i + 1 # 1 /\ stops'[i] = stops[i + 1]
  BY <1>1, StopServed
<1>3. stops[i + 1].who # "clear"
  BY <1>2 DEF StopsHavePlace
<1>4. ASSUME stops[i + 1].want = "clear" PROVE FALSE
  <2>1. PICK j \in 1 .. Len(stops) : j > i + 1 /\ stops[j].who = "clear"
    BY <1>2, <1>3, <1>4 DEF ClearIsFollowed
  <2>2. j = 1
    BY <2>1, <1>2 DEF StopsHavePlace
  <2> QED BY <2>1, <2>2
<1> QED BY <1>2, <1>3, <1>4

LEMMA StopIsServed ==
  ASSUME MInv, ServeStop
  PROVE  MInv'
<1> USE DEF MInv
<1> DEFINE c == stops[1]
<1>1. /\ stops \in Seq(StopSet) /\ stops # << >> /\ stops' = Tail(stops)
  BY DEF ServeStop, ManualTypes, StopSet
<1>2. /\ stops' \in Seq(StopSet) /\ Head(stops) = stops[1]
      /\ Len(stops) \in Nat /\ 1 \in 1 .. Len(stops)
      /\ Len(stops') = Len(stops) - 1 /\ Len(stops') \in Nat
      /\ stops[1] \in StopSet
      /\ \A i \in 1 .. Len(stops') : stops'[i] = stops[i + 1]
  BY <1>1, StopServed
<1>3. /\ latch' = c.want /\ latch' \in {"latched", "clear"}
      /\ UNCHANGED <<reserved, device, goal>>
  BY <1>2 DEF ServeStop, StopSet, tasks
<1>4. /\ c.who \in {"nobody", "halt", "clear"}
      /\ c.who = "nobody" => UNCHANGED <<pc, calls, moving>>
      /\ c.who = "halt" => moving' = FALSE /\ UNCHANGED <<pc, calls>>
      /\ c.who = "clear" =>
           /\ ReleaseClear(IF c.want = "clear" THEN "release"
                                               ELSE "rerelease")
           /\ UNCHANGED moving
  <2>1. c.who \in {"nobody", "halt", "clear"}
    BY <1>2 DEF StopsHavePlace, StopSet, Waiters, Owners
  <2> QED BY <1>2, <2>1 DEF ServeStop
<1>5. \A i \in 1 .. Len(stops') : i + 1 \in 1 .. Len(stops)
  BY <1>2
<1>6. CASE c.who # "clear"
  <2>1. UNCHANGED <<pc, calls>> /\ moving' \in BOOLEAN /\ (moving' => moving)
    <3>1. CASE c.who = "nobody"
      BY <3>1, <1>4 DEF ManualTypes
    <3>2. CASE c.who = "halt"
      BY <3>2, <1>4 DEF ManualTypes
    <3> QED BY <3>1, <3>2, <1>4, <1>6
  <2>2. StopsHavePlace'
    <3>1. \A i \in 1 .. Len(stops') :
           /\ stops'[i].who \in {"action", "teleop"} => FALSE
           /\ stops'[i].who = "halt" => stops'[i].want = "latched"
           /\ stops'[i].who = "clear" =>
                \/ pc'["clear"] = "held" /\ stops'[i].want = "clear"
                \/ pc'["clear"] = "relatch" /\ stops'[i].want = "latched"
      BY <1>2, <1>5, <2>1 DEF StopsHavePlace
    <3>2. \A i, j \in 1 .. Len(stops') :
            stops'[i].who = "clear" /\ stops'[j].who = "clear" => i = j
      <4> SUFFICES ASSUME NEW i \in 1 .. Len(stops'),
                          NEW j \in 1 .. Len(stops'),
                          stops'[i].who = "clear", stops'[j].who = "clear"
                   PROVE  i = j
        OBVIOUS
      <4>1. i + 1 = j + 1
        BY <1>2, <1>5 DEF StopsHavePlace
      <4> QED BY <4>1
    <3> QED BY <3>1, <3>2 DEF StopsHavePlace
  <2>3. ClearIsFollowed'
    <3> SUFFICES ASSUME NEW i \in 1 .. Len(stops'),
                        stops'[i].want = "clear"
                 PROVE  \/ pc'["clear"] = "held" /\ stops'[i].who = "clear"
                        \/ /\ pc'["clear"] = "relatch"
                           /\ \E j \in 1 .. Len(stops') :
                                j > i /\ stops'[j].who = "clear"
      BY DEF ClearIsFollowed
    <3>1. \/ pc["clear"] = "held" /\ stops[i + 1].who = "clear"
          \/ /\ pc["clear"] = "relatch"
             /\ \E j \in 1 .. Len(stops) :
                  j > i + 1 /\ stops[j].who = "clear"
      BY <1>2, <1>5 DEF ClearIsFollowed
    <3>2. CASE pc["clear"] = "held" /\ stops[i + 1].who = "clear"
      BY <3>2, <1>2, <2>1
    <3>3. CASE /\ pc["clear"] = "relatch"
               /\ \E j \in 1 .. Len(stops) :
                    j > i + 1 /\ stops[j].who = "clear"
      <4>1. PICK j \in 1 .. Len(stops) : j > i + 1 /\ stops[j].who = "clear"
        BY <3>3
      <4>2. /\ j - 1 \in 1 .. Len(stops') /\ j - 1 > i
            /\ stops'[j - 1].who = "clear"
        BY <4>1, <1>2
      <4> QED BY <3>3, <4>2, <2>1
    <3> QED BY <3>1, <3>2, <3>3
  <2>4. Firm => Firm'
    BY <1>2, <1>3, <1>5 DEF Firm, StopSet
  <2> QED BY <1>2, <1>3, <2>1, <2>2, <2>3, <2>4, StopsChange
<1>7. CASE c.who = "clear"
  <2>1. \A i \in 1 .. Len(stops') :
          /\ stops'[i].who # "clear"
          /\ stops'[i].who \notin Movers
          /\ stops'[i].who = "halt" => stops'[i].want = "latched"
    <3> SUFFICES ASSUME NEW i \in 1 .. Len(stops')
                 PROVE  /\ stops'[i].who # "clear"
                        /\ stops'[i].who \notin Movers
                        /\ stops'[i].who = "halt" =>
                             stops'[i].want = "latched"
      OBVIOUS
    <3>1. i + 1 \in 1 .. Len(stops) /\ i + 1 # 1 /\ stops'[i] = stops[i + 1]
      BY <1>2
    <3>2. stops[i + 1].who # "clear"
      BY <3>1, <1>2, <1>7 DEF StopsHavePlace
    <3> QED BY <3>1, <3>2 DEF StopsHavePlace, Movers
  <2>2. \A i \in 1 .. Len(stops') : stops'[i].want # "clear"
    BY <1>1, <1>7, NoClearBehind
  <2>3. CASE c.want = "clear"
    <3>1. pc["clear"] = "held"
      BY <2>3, <1>2, <1>7 DEF StopsHavePlace
    <3>2. /\ pc' = [pc EXCEPT !["clear"] = "release"]
          /\ Reserve("clear", FALSE) /\ UNCHANGED moving
      BY <2>3, <1>4, <1>7 DEF ReleaseClear, Goto
    <3> QED BY <1>2, <1>3, <2>1, <2>2, <3>1, <3>2, ClearReleases
  <2>4. CASE c.want = "latched"
    <3>1. pc["clear"] = "relatch"
      BY <2>4, <1>2, <1>7 DEF StopsHavePlace
    <3>2. /\ pc' = [pc EXCEPT !["clear"] = "rerelease"]
          /\ Reserve("clear", FALSE) /\ UNCHANGED moving
      BY <2>4, <1>4, <1>7 DEF ReleaseClear, Goto
    <3>3. Firm'
      BY <2>2, <2>4, <1>3 DEF Firm
    <3> QED BY <1>2, <1>3, <2>1, <2>2, <3>1, <3>2, <3>3, ClearReleases
  <2> QED BY <1>2, <2>3, <2>4 DEF StopSet
<1> QED BY <1>6, <1>7

(* The caller of the stop gives up.  A clearing that gave up twice is what *)
(* RelatchedFirst excludes, unless the stop was latched by someone else.   *)
LEMMA StopIsGivenUp ==
  ASSUME MInv, StopTimeout, RelatchedFirst'
  PROVE  MInv'
<1> USE DEF MInv
<1>1. stops \in Seq(StopSet)
  BY DEF ManualTypes, StopSet
<1>2. PICK i \in 1 .. Len(stops) :
        LET given == [stops EXCEPT ![i].who = "nobody"]
        IN  \/ /\ stops[i].who = "halt"
               /\ stops' = given /\ halt' = "idle"
               /\ UNCHANGED <<pc, calls>>
            \/ /\ stops[i].who = "clear" /\ pc["clear"] = "relatch"
               /\ stops' = given /\ ReleaseClear("rerelease")
               /\ UNCHANGED halt
            \/ /\ stops[i].who = "clear" /\ pc["clear"] # "relatch"
               /\ stops' = Append(given, [want |-> "latched",
                                          who |-> "clear"])
               /\ Goto("clear", "relatch")
               /\ UNCHANGED <<calls, halt>>
  BY DEF StopTimeout
<1> DEFINE given == [stops EXCEPT ![i].who = "nobody"]
<1>3. UNCHANGED <<reserved, latch, device, goal, moving>>
  BY DEF StopTimeout, tasks
<1>4. /\ given \in Seq(StopSet)
      /\ Len(stops) \in Nat /\ Len(given) = Len(stops)
      /\ \A k \in 1 .. Len(stops) : k # i => given[k] = stops[k]
      /\ given[i].want = stops[i].want /\ given[i].who = "nobody"
  BY <1>1, StopForgotten
<1>5. /\ stops[i].who \in {"nobody", "halt", "clear"}
      /\ stops[i].who = "clear" =>
           \/ pc["clear"] = "held" /\ stops[i].want = "clear"
           \/ pc["clear"] = "relatch" /\ stops[i].want = "latched"
      /\ stops[i].who = "halt" => stops[i].want = "latched"
  <2>1. stops[i] \in StopSet
    BY <1>1
  <2> QED BY <2>1 DEF StopsHavePlace, StopSet, Waiters, Owners
<1>6. stops[i].who # "nobody"
  BY <1>2
<1>7. CASE stops[i].who = "halt"
  <2>1. stops' = given /\ UNCHANGED <<pc, calls>>
    BY <1>2, <1>7
  <2> HIDE DEF given
  <2>2. StopsHavePlace'
    <3>1. \A k \in 1 .. Len(stops') : stops'[k].who # "nobody" => k # i
      BY <1>4, <2>1
    <3> QED BY <1>4, <2>1, <3>1 DEF StopsHavePlace
  <2>3. ClearIsFollowed'
    <3> SUFFICES ASSUME NEW k \in 1 .. Len(stops),
                        stops'[k].want = "clear"
                 PROVE  \/ pc["clear"] = "held" /\ stops'[k].who = "clear"
                        \/ /\ pc["clear"] = "relatch"
                           /\ \E j \in 1 .. Len(stops) :
                                j > k /\ stops'[j].who = "clear"
      BY <1>4, <2>1 DEF ClearIsFollowed
    <3>1. k # i /\ stops'[k] = stops[k]
      BY <1>4, <1>5, <1>7, <2>1
    <3>2. \A j \in 1 .. Len(stops) :
            stops[j].who = "clear" => stops'[j].who = "clear"
      BY <1>4, <1>7, <2>1
    <3> QED BY <3>1, <3>2 DEF ClearIsFollowed
  <2>4. Firm => Firm'
    BY <1>3, <1>4, <1>5, <1>7, <2>1 DEF Firm
  <2>5. latch' \in {"latched", "clear"} /\ moving' \in BOOLEAN
    BY <1>3 DEF ManualTypes
  <2> QED BY <1>3, <1>4, <2>1, <2>2, <2>3, <2>4, <2>5, StopsChange
<1>8. CASE stops[i].who = "clear" /\ pc["clear"] = "relatch"
  <2>1. stops' = given /\ ReleaseClear("rerelease")
    BY <1>2, <1>8
  <2>2. /\ pc' = [pc EXCEPT !["clear"] = "rerelease"]
        /\ Reserve("clear", FALSE)
    BY <2>1 DEF ReleaseClear, Goto
  <2> HIDE DEF given
  <2>3. pc'["clear"] = "rerelease"
    BY <2>2 DEF ManualTypes, Owners
  <2>4. Firm'
    BY <2>3 DEF RelatchedFirst
  <2>5. \A k \in 1 .. Len(stops') :
          /\ stops'[k].want # "clear" /\ stops'[k].who # "clear"
          /\ stops'[k].who \notin Movers
          /\ stops'[k].who = "halt" => stops'[k].want = "latched"
    <3> SUFFICES ASSUME NEW k \in 1 .. Len(stops)
                 PROVE  /\ stops'[k].who # "clear"
                        /\ stops'[k].who \notin Movers
                        /\ stops'[k].who = "halt" =>
                             stops'[k].want = "latched"
      BY <1>4, <2>1, <2>4 DEF Firm
    <3>1. CASE k = i
      BY <3>1, <1>4, <2>1 DEF Movers
    <3>2. CASE k # i
      BY <3>2, <1>4, <1>8, <2>1 DEF StopsHavePlace, Movers
    <3> QED BY <3>1, <3>2
  <2>6. latch' \in {"latched", "clear"} /\ Len(stops') \in Nat
    BY <1>3, <1>4, <2>1 DEF ManualTypes
  <2> QED BY <1>3, <1>4, <1>8, <2>1, <2>2, <2>4, <2>5, <2>6, ClearReleases
<1>9. CASE stops[i].who = "clear" /\ pc["clear"] # "relatch"
  <2> DEFINE c == [want |-> "latched", who |-> "clear"]
  <2>1. /\ stops' = Append(given, c) /\ UNCHANGED calls
        /\ pc' = [pc EXCEPT !["clear"] = "relatch"]
    BY <1>2, <1>9 DEF Goto
  <2>2. c \in StopSet /\ c.want = "latched" /\ c.who = "clear"
    BY DEF StopSet, Waiters, Owners
  <2> HIDE DEF given, c
  <2>3. /\ stops' \in Seq(StopSet) /\ Len(stops') = Len(stops) + 1
        /\ \A k \in 1 .. Len(stops) : stops'[k] = given[k]
        /\ stops'[Len(stops) + 1] = c
    <3>1. /\ given \in Seq(StopSet) /\ c \in StopSet
          /\ stops' = Append(given, c)
      BY <1>4, <2>1, <2>2
    <3>2. /\ stops' \in Seq(StopSet) /\ Len(stops') = Len(given) + 1
          /\ \A k \in 1 .. Len(given) : stops'[k] = given[k]
          /\ stops'[Len(given) + 1] = c
      BY ONLY <3>1, RelatchJoins
    <3> QED BY <1>4, <3>2, Zenon
  <2>4. pc["clear"] = "held" /\ stops[i].want = "clear"
    BY <1>5, <1>9
  <2>5. /\ "clear" \in Owners /\ pc'["clear"] = "relatch"
        /\ pc' \in [Owners -> {"idle", "acquire", "held", "accepting",
                              "running", "release", "relatch", "rerelease",
                              "stuck"}]
        /\ \A q \in Owners : q # "clear" => pc'[q] = pc[q]
    BY <2>1 DEF ManualTypes, Owners
  <2>6. \A k \in 1 .. Len(stops) :
          /\ stops'[k].who # "clear"
          /\ k # i => stops'[k] = stops[k] /\ stops[k].want # "clear"
    <3> SUFFICES ASSUME NEW k \in 1 .. Len(stops)
                 PROVE  /\ stops'[k].who # "clear"
                        /\ k # i => stops'[k] = stops[k]
                                      /\ stops[k].want # "clear"
      OBVIOUS
    <3>1. CASE k = i
      BY <3>1, <1>4, <2>3
    <3>2. CASE k # i
      <4>1. stops'[k] = stops[k] /\ stops[k].who # "clear"
        BY <3>2, <1>4, <1>9, <2>3 DEF StopsHavePlace
      <4>2. stops[k].want # "clear"
        BY <4>1, <2>4 DEF ClearIsFollowed
      <4> QED BY <4>1, <4>2
    <3> QED BY <3>1, <3>2
  <2>7. ManualTypes'
    BY <1>3, <2>1, <2>3, <2>5 DEF ManualTypes, StopSet
  <2>8. MotionHasPlace'
    BY <1>3, <2>5 DEF MotionHasPlace, Owners
  <2>9. CallsHavePlace'
    <3>1. \A k \in 1 .. Len(calls) :
            /\ calls[k].who # "clear"
            /\ calls[k].who \in Owners \cup {"nobody"}
      BY <2>4, <2>5, NoCallOf, CallTyped
    <3> QED BY <2>1, <2>5, <3>1 DEF CallsHavePlace, Indices
  <2>10. StopsHavePlace'
    <3>1. \A k \in 1 .. Len(stops') :
            k \in 1 .. Len(stops) \/ k = Len(stops) + 1
      BY <1>4, <2>3
    <3>2. \A k \in 1 .. Len(stops) :
            /\ stops'[k].who \in {"action", "teleop"} => FALSE
            /\ stops'[k].who = "halt" => stops'[k].want = "latched"
      BY <1>4, <2>3, <2>6 DEF StopsHavePlace
    <3> QED BY <2>2, <2>3, <2>5, <2>6, <3>1, <3>2 DEF StopsHavePlace
  <2>11. ClearIsFollowed'
    <3> SUFFICES ASSUME NEW k \in 1 .. Len(stops'),
                        stops'[k].want = "clear"
                 PROVE  \E j \in 1 .. Len(stops') :
                          j > k /\ stops'[j].who = "clear"
      BY <2>5 DEF ClearIsFollowed
    <3>1. k \in 1 .. Len(stops)
      BY <1>4, <2>2, <2>3
    <3>2. /\ Len(stops) + 1 \in 1 .. Len(stops') /\ Len(stops) + 1 > k
          /\ stops'[Len(stops) + 1].who = "clear"
      BY <1>4, <2>2, <2>3, <3>1
    <3> QED BY <3>2
  <2>12. ClearingExcludes'
    BY <2>5 DEF ClearingExcludes
  <2>13. ~Firm
    BY <2>4 DEF Firm
  <2>14. NoReleaseBehind'
    BY <1>3, <2>1, <2>13 DEF NoReleaseBehind, WillBeRefused, Indices
  <2>15. ~Held'
    BY <1>3, <2>4, <2>5 DEF Held, ClearingExcludes, Waits, MotionHasPlace,
                           Owners
  <2> QED BY <2>7, <2>8, <2>9, <2>10, <2>11, <2>12, <2>14, <2>15
          DEF MotionIsCovered
<1> QED BY <1>5, <1>6, <1>7, <1>8, <1>9

(* A clearing begins where nothing else is under way.                      *)
LEMMA ClearAsks ==
  ASSUME MInv, BeginClear
  PROVE  MInv'
<1> USE DEF MInv
<1> DEFINE c == [want |-> TRUE, who |-> "clear"]
<1>1. /\ calls \in Seq(CallSet) /\ c \in CallSet
      /\ calls' = Append(calls, c)
  BY DEF ManualTypes, CallSet, Owners, Reserve, BeginClear
<1>2. /\ calls' \in Seq(CallSet)
      /\ Len(calls) \in Nat /\ Len(calls') = Len(calls) + 1
      /\ \A i \in 1 .. Len(calls) : calls'[i] = calls[i]
      /\ calls'[Len(calls) + 1].want = TRUE
      /\ calls'[Len(calls) + 1].who = "clear"
  BY <1>1, CallJoins
<1> HIDE DEF c
<1>3. /\ pc' = [pc EXCEPT !["clear"] = "acquire"]
      /\ pc["clear"] = "idle" /\ pc["action"] = "idle"
      /\ pc["teleop"] = "idle"
      /\ UNCHANGED <<reserved, latch, stops, device, goal, moving>>
  BY DEF BeginClear, Goto, operator_idle, action_active, teleop_active,
         drive, tasks
<1>4. /\ "clear" \in Owners /\ pc'["clear"] = "acquire"
      /\ pc' \in [Owners -> {"idle", "acquire", "held", "accepting",
                            "running", "release", "relatch", "rerelease",
                            "stuck"}]
      /\ \A q \in Owners : q # "clear" => pc'[q] = pc[q]
  BY <1>3 DEF ManualTypes, Owners
<1>5. \A i \in 1 .. Len(calls) : calls[i].who = "nobody"
  <2>1. \A q \in Owners : pc[q] = "idle"
    BY <1>3 DEF Owners
  <2>2. \A q \in Owners : \A i \in 1 .. Len(calls) : calls[i].who # q
    BY <2>1, NoCallOf
  <2> QED BY <2>2, CallTyped
<1>6. ManualTypes'
  BY <1>2, <1>3, <1>4 DEF ManualTypes, CallSet
<1>7. MotionHasPlace' /\ ~Held'
  BY <1>3, <1>4 DEF MotionHasPlace, Held, Owners
<1>8. CallsHavePlace'
  BY <1>2, <1>4, <1>5 DEF CallsHavePlace, Indices
<1>9. \A i \in 1 .. Len(stops) :
        stops[i].who # "clear" /\ stops[i].want # "clear"
  BY <1>3 DEF StopsHavePlace, ClearIsFollowed
<1>10. StopsHavePlace' /\ ClearIsFollowed'
  BY <1>3, <1>9 DEF StopsHavePlace, ClearIsFollowed
<1>11. ClearingExcludes'
  <2>1. Waits("action")' /\ Waits("teleop")'
    BY <1>3, <1>4 DEF Waits, Owners
  <2>2. /\ Len(calls) + 1 \in Indices'
        /\ \A j \in Indices' : j \in 1 .. Len(calls) \/ j = Len(calls) + 1
    BY <1>2 DEF Indices
  <2>3. \A j \in Indices' : calls'[j].who \notin Movers
    BY <1>2, <1>5, <2>2 DEF Movers
  <2>4. \A j \in Indices' : ~(j > Len(calls) + 1)
    BY <1>2 DEF Indices
  <2> QED BY <1>2, <1>4, <2>1, <2>2, <2>3, <2>4 DEF ClearingExcludes
<1>12. NoReleaseBehind'
  BY <1>2, <1>5 DEF NoReleaseBehind, Indices, Movers
<1> QED BY <1>6, <1>7, <1>8, <1>10, <1>11, <1>12 DEF MotionIsCovered

-----------------------------------------------------------------------------
(* Steps that leave the queues and the places alone *)

GoalsTyped == goal \in [Goals -> GoalStates]

(* What the server, its clients and the console's tracking of tasks do.    *)
LEMMA TasksAreApart ==
  ASSUME MInv, UNCHANGED queues, UNCHANGED device,
         moving' = moving \/ moving' = FALSE, Busy' => Busy \/ ~Held
  PROVE  MInv'
<1>1. /\ device' \in {"none", "sent", "live", "canceling", "refused", "ended"}
      /\ moving \in BOOLEAN /\ (moving => pc["teleop"] = "held")
  BY DEF MInv, ManualTypes, MotionHasPlace
<1>2. moving' \in BOOLEAN /\ (moving' => pc["teleop"] = "held")
  <2>1. CASE moving' = moving
    BY <1>1, <2>1
  <2>2. CASE moving' = FALSE
    BY <2>2
  <2> QED BY <2>1, <2>2
<1>3. Moves(device') => Moves(device)
  OBVIOUS
<1> QED BY <1>1, <1>2, <1>3, NothingQueued

(* A goal is admitted where the server is not reserved and the base may    *)
(* move: there no motion has the reservation.                              *)
LEMMA AdmissionFindsNobody ==
  ASSUME MInv, NEW g \in Goals, Admit(g)
  PROVE  MInv'
<1>1. ~Held
  BY DEF Admit, MInv, MotionIsCovered, Firm
<1> QED BY <1>1, TasksAreApart DEF Admit, queues, manual, drive

LEMMA ServerSteps ==
  ASSUME MInv, GoalsTyped, NEW g \in Goals, ServerStep(g)
  PROVE  MInv'
<1>1. CASE Admit(g)
  BY <1>1, AdmissionFindsNobody
<1>2. CASE Refuse(g)
  <2>1. Busy' => Busy
    BY <1>2 DEF Refuse, Busy, GoalsTyped, Closing, Verdicts
  <2> QED BY <1>2, <2>1, TasksAreApart DEF Refuse, queues, manual, drive
<1>3. CASE ServeCancel(g)
  <2>1. Busy' => Busy
    BY <1>3 DEF ServeCancel, Busy
  <2> QED BY <1>3, <2>1, TasksAreApart DEF ServeCancel, queues, manual, drive
<1>4. CASE Finish(g)
  <2>1. Busy
    BY <1>4 DEF Finish, Busy
  <2> QED BY <1>4, <2>1, TasksAreApart DEF Finish, queues, manual, drive
<1>5. CASE Close(g)
  <2>1. Busy
    BY <1>5 DEF Close, Busy
  <2> QED BY <1>5, <2>1, TasksAreApart DEF Close, queues, manual, drive
<1> QED BY <1>1, <1>2, <1>3, <1>4, <1>5 DEF ServerStep

LEMMA SubmitSteps ==
  ASSUME MInv, GoalsTyped, NEW g \in Own, SubmitStep(g)
  PROVE  MInv'
<1>1. CASE Submit(g)
  <2>1. UNCHANGED <<queues, device, moving, goal>>
    BY <1>1 DEF Submit, server, queues, manual, drive
  <2> QED BY <2>1, TasksAreApart DEF Busy
<1>2. CASE SendGoal(g)
  <2>1. UNCHANGED <<queues, device, moving>>
    BY <1>2 DEF SendGoal, queues, manual, drive
  <2>2. Busy' => Busy
    BY <1>2 DEF SendGoal, Busy, GoalsTyped, Closing, Verdicts
  <2> QED BY <2>1, <2>2, TasksAreApart
<1>3. CASE LoseReply(g)
  <2>1. UNCHANGED <<queues, device, moving, goal>>
    BY <1>3 DEF LoseReply, queues, manual, drive
  <2> QED BY <2>1, TasksAreApart DEF Busy
<1>4. CASE AcceptTimeout(g)
  <2>1. UNCHANGED <<queues, device, moving, goal>>
    BY <1>4 DEF AcceptTimeout, server, queues, manual, drive
  <2> QED BY <2>1, TasksAreApart DEF Busy
<1>5. CASE Resume(g)
  <2>1. UNCHANGED <<queues, device, moving, goal>>
    BY <1>5 DEF Resume, server, queues, manual, drive
  <2> QED BY <2>1, TasksAreApart DEF Busy
<1>6. CASE _on_task_result(g)
  <2>1. UNCHANGED <<queues, device, moving, goal>>
    BY <1>6 DEF _on_task_result, server, queues, manual, drive
  <2> QED BY <2>1, TasksAreApart DEF Busy
<1> QED BY <1>1, <1>2, <1>3, <1>4, <1>5, <1>6 DEF SubmitStep

LEMMA EventAndCancel ==
  ASSUME MInv, DeliverEvent \/ cancel_task
  PROVE  MInv'
<1>1. /\ UNCHANGED <<queues, device, goal>>
      /\ moving' = moving \/ moving' = FALSE
  BY DEF DeliverEvent, cancel_task, server, queues, manual, drive
<1> QED BY <1>1, TasksAreApart DEF Busy

-----------------------------------------------------------------------------
(* Steps of the manual action, the joystick and the stop *)

LEMMA ActionSteps ==
  ASSUME MInv, ActionStep
  PROVE  MInv'
<1>1. pc["action"] # "idle" => pc["teleop"] = "idle"
  BY DEF MInv, MotionHasPlace
<1>2. CASE BeginAction
  <2>1. /\ pc["action"] = "idle" /\ pc["teleop"] = "idle"
        /\ pc' = [pc EXCEPT !["action"] = "acquire"]
        /\ Reserve("action", TRUE) /\ device' = "none"
    BY <1>2 DEF BeginAction, action_active, teleop_active, Goto
  <2>2. UNCHANGED <<reserved, latch, stops, goal, moving>>
    BY <1>2 DEF BeginAction, tasks, drive
  <2> QED BY <2>1, <2>2, MotionAsks DEF Movers
<1>3. CASE ActionSend
  <2>1. /\ UNCHANGED <<reserved, latch, stops, goal, moving>>
        /\ pc["action"] = "held"
    BY <1>3 DEF ActionSend, tasks, drive
  <2>2. CASE Goto("action", "accepting") /\ device' = "sent"
               /\ UNCHANGED calls
    BY <2>1, <2>2, MotionGoesOn DEF Goto
  <2>3. CASE ReleaseAction /\ UNCHANGED device
    <3>1. ~Moves(device) /\ ~moving
      BY <1>1, <2>1 DEF MInv, MotionHasPlace, Moves
    <3>2. /\ pc' = [pc EXCEPT !["action"] = "release"]
          /\ Reserve("action", FALSE)
          /\ moving' \in BOOLEAN
          /\ device' \in {"none", "sent", "live", "canceling", "refused",
                          "ended"}
      BY <2>1, <2>3 DEF ReleaseAction, Goto, MInv, ManualTypes
    <3> QED BY <2>1, <2>3, <3>1, <3>2, MotionReleases DEF Movers
  <2> QED BY <1>3, <2>2, <2>3 DEF ActionSend
<1>4. CASE ActionAnswered
  <2>1. /\ UNCHANGED <<reserved, latch, stops, goal, moving>>
        /\ device = "sent" /\ device' \in {"live", "refused"}
        /\ moving' \in BOOLEAN
    BY <1>4 DEF ActionAnswered, tasks, drive, MInv, ManualTypes
  <2>2. CASE pc["action"] # "accepting"
    <3>1. UNCHANGED queues /\ goal' = goal
      BY <1>4, <2>1, <2>2 DEF ActionAnswered, queues
    <3> QED BY <2>1, <3>1, NothingQueued
            DEF Moves, MInv, MotionHasPlace, Busy
  <2>3. CASE pc["action"] = "accepting" /\ device' = "live"
    <3>1. pc' = [pc EXCEPT !["action"] = "running"] /\ UNCHANGED calls
      BY <1>4, <2>3 DEF ActionAnswered, Goto
    <3> QED BY <2>1, <2>3, <3>1, MotionGoesOn
  <2>4. CASE pc["action"] = "accepting" /\ device' # "live"
    <3>1. /\ pc' = [pc EXCEPT !["action"] = "release"]
          /\ Reserve("action", FALSE)
      BY <1>4, <2>4 DEF ActionAnswered, ReleaseAction, Goto
    <3>2. ~moving
      BY <1>1, <2>4 DEF MInv, MotionHasPlace
    <3> QED BY <2>1, <2>4, <3>1, <3>2, MotionReleases DEF Movers, Moves
  <2> QED BY <2>2, <2>3, <2>4
<1>5. CASE ActionTimeout
  <2>1. UNCHANGED <<queues, device, moving, goal>>
    BY <1>5 DEF ActionTimeout, queues, tasks, drive
  <2> QED BY <2>1, TasksAreApart DEF Busy
<1>6. CASE ActionCancel
  <2>1. /\ UNCHANGED <<queues, moving, goal>>
        /\ device = "live" /\ device' = "canceling"
    BY <1>6 DEF ActionCancel, queues, tasks, drive
  <2>2. moving \in BOOLEAN /\ (moving => pc["teleop"] = "held")
    BY DEF MInv, ManualTypes, MotionHasPlace
  <2> QED BY <2>1, <2>2, NothingQueued DEF Moves, Busy
<1>7. CASE ActionEnds
  <2>1. /\ UNCHANGED <<reserved, latch, stops, goal, moving>>
        /\ device \in {"live", "canceling"} /\ device' = "ended"
        /\ moving' \in BOOLEAN
    BY <1>7 DEF ActionEnds, tasks, drive, MInv, ManualTypes
  <2>2. CASE pc["action"] # "running"
    <3>1. UNCHANGED queues /\ goal' = goal
      BY <1>7, <2>1, <2>2 DEF ActionEnds, queues
    <3> QED BY <2>1, <3>1, NothingQueued
            DEF Moves, MInv, MotionHasPlace, Busy
  <2>3. CASE pc["action"] = "running"
    <3>1. /\ pc' = [pc EXCEPT !["action"] = "release"]
          /\ Reserve("action", FALSE)
      BY <1>7, <2>3 DEF ActionEnds, ReleaseAction, Goto
    <3>2. ~moving
      BY <1>1, <2>3 DEF MInv, MotionHasPlace
    <3> QED BY <2>1, <2>3, <3>1, <3>2, MotionReleases DEF Movers, Moves
  <2> QED BY <2>2, <2>3
<1>8. CASE ActionUnproven
  <2>1. /\ UNCHANGED <<reserved, latch, calls, stops, goal, moving, device>>
        /\ pc["action"] \in {"accepting", "running"}
        /\ pc' = [pc EXCEPT !["action"] = "stuck"]
    BY <1>8 DEF ActionUnproven, tasks, drive, Goto
  <2> QED BY <2>1, MotionGoesOn DEF MInv, ManualTypes
<1> QED BY <1>2, <1>3, <1>4, <1>5, <1>6, <1>7, <1>8 DEF ActionStep

LEMMA TeleopSteps ==
  ASSUME MInv, TeleopStep
  PROVE  MInv'
<1>1. UNCHANGED <<reserved, latch, stops, goal, device>>
  BY DEF TeleopStep, ClaimTeleop, CommandTeleop, EndTeleop, tasks, drive
<1>2. device' \in {"none", "sent", "live", "canceling", "refused", "ended"}
  BY <1>1 DEF MInv, ManualTypes
<1>3. CASE ClaimTeleop
  <2>1. /\ pc["action"] = "idle" /\ pc["teleop"] = "idle"
        /\ pc' = [pc EXCEPT !["teleop"] = "acquire"]
        /\ Reserve("teleop", TRUE) /\ UNCHANGED moving
    BY <1>3 DEF ClaimTeleop, action_active, teleop_active, Goto
  <2> QED BY <1>1, <2>1, MotionAsks DEF Movers
<1>4. ASSUME pc["teleop"] = "held", LeaveTeleop
      PROVE  MInv'
  <2>1. /\ pc' = [pc EXCEPT !["teleop"] = "release"]
        /\ Reserve("teleop", FALSE) /\ moving' = FALSE
    BY <1>4 DEF LeaveTeleop, Goto
  <2> QED BY <1>1, <1>2, <1>4, <2>1, MotionReleases DEF Movers
<1>5. CASE CommandTeleop
  <2>1. CASE moving' = TRUE /\ UNCHANGED <<pc, calls>>
    <3>1. UNCHANGED queues /\ pc["teleop"] = "held"
      BY <1>1, <1>5, <2>1 DEF queues, CommandTeleop
    <3> QED BY <1>1, <1>2, <2>1, <3>1, NothingQueued DEF Moves, Busy
  <2> QED BY <1>4, <1>5, <2>1 DEF CommandTeleop
<1>6. CASE EndTeleop
  BY <1>4, <1>6 DEF EndTeleop
<1> QED BY <1>3, <1>5, <1>6 DEF TeleopStep

LEMMA StopSteps ==
  ASSUME MInv, RelatchedFirst', StopStep
  PROVE  MInv'
<1>1. CASE ServeStop
  BY <1>1, StopIsServed
<1>2. CASE StopTimeout
  BY <1>2, StopIsGivenUp
<1>3. CASE BeginClear
  BY <1>3, ClearAsks
<1>4. CASE BeginHalt
  <2>1. /\ CallStop("halt", "latched")
        /\ UNCHANGED <<reserved, latch, calls, pc, device, goal, moving>>
    BY <1>4 DEF BeginHalt, tasks, manual
  <2> QED BY <2>1, HaltAsks
<1>5. CASE _on_drive_stop_latched \/ HaltAnswers \/ HaltGivesUp
  <2>1. UNCHANGED <<queues, device, moving, goal>>
    BY <1>5 DEF _on_drive_stop_latched, HaltAnswers, HaltGivesUp, queues,
                tasks, manual, drive
  <2> QED BY <2>1, TasksAreApart DEF Busy
<1>6. CASE HaltDrains
  <2>1. UNCHANGED <<reserved, latch, stops, goal, moving, device>>
    BY <1>6 DEF HaltDrains, server, drive
  <2>2. CASE UNCHANGED <<pc, calls>>
    <3>1. UNCHANGED <<queues, device, moving, goal>>
      BY <2>1, <2>2 DEF queues
    <3> QED BY <3>1, TasksAreApart DEF Busy
  <2>3. CASE /\ pc["teleop"] = "stuck"
             /\ Goto("teleop", "release") /\ Reserve("teleop", FALSE)
    <3>1. /\ ~moving /\ moving' \in BOOLEAN
          /\ device' \in {"none", "sent", "live", "canceling", "refused",
                          "ended"}
      BY <2>1, <2>3 DEF MInv, ManualTypes, MotionHasPlace
    <3> QED BY <2>1, <2>3, <3>1, MotionReleases DEF Movers, Goto
  <2> QED BY <1>6, <2>2, <2>3 DEF HaltDrains
<1> QED BY <1>1, <1>2, <1>3, <1>4, <1>5, <1>6 DEF StopStep

LEMMA StepKeepsMInv ==
  ASSUME MInv, GoalsTyped, RelatchedFirst', [Next]_vars
  PROVE  MInv'
<1>1. ASSUME NEW g \in Goals, ServerStep(g) PROVE MInv'
  BY <1>1, ServerSteps
<1>2. ASSUME NEW g \in Own, SubmitStep(g) PROVE MInv'
  BY <1>2, SubmitSteps
<1>3. CASE DeliverEvent \/ cancel_task
  BY <1>3, EventAndCancel
<1>4. CASE ReservationStep
  BY <1>4, ReservationServed, ReservationGivenUp DEF ReservationStep
<1>5. CASE ActionStep
  BY <1>5, ActionSteps
<1>6. CASE TeleopStep
  BY <1>6, TeleopSteps
<1>7. CASE StopStep
  BY <1>7, StopSteps
<1>8. CASE UNCHANGED vars
  <2>1. UNCHANGED <<queues, device, moving, goal>>
    BY <1>8 DEF vars, queues
  <2> QED BY <2>1, TasksAreApart DEF Busy
<1> QED BY <1>1, <1>2, <1>3, <1>4, <1>5, <1>6, <1>7, <1>8 DEF Next

-----------------------------------------------------------------------------
(* The beginning, and the goals *)

LEMMA InitMInv ==
  ASSUME Init
  PROVE  MInv /\ GoalsTyped
<1>1. /\ calls = << >> /\ stops = << >> /\ \A o \in Owners : pc[o] = "idle"
      /\ reserved = FALSE /\ latch \in {"latched", "clear"}
      /\ device = "none" /\ moving = FALSE
      /\ pc = [o \in Owners |-> "idle"]
  BY DEF Init
<1>2. ManualTypes
  <2>1. pc \in [Owners -> {"idle", "acquire", "held", "accepting", "running",
                           "release", "relatch", "rerelease", "stuck"}]
    BY <1>1
  <2>2. reserved \in BOOLEAN /\ moving \in BOOLEAN
    BY <1>1
  <2>3. /\ calls \in Seq([want : BOOLEAN, who : Owners \cup {"nobody"}])
        /\ stops \in Seq([want : {"latched", "clear"}, who : Waiters])
    BY <1>1
  <2> QED BY <1>1, <2>1, <2>2, <2>3 DEF ManualTypes
<1>3. MotionHasPlace /\ ~Held
  BY <1>1 DEF MotionHasPlace, Held, Owners
<1>4. /\ CallsHavePlace /\ StopsHavePlace /\ ClearIsFollowed
      /\ ClearingExcludes /\ NoReleaseBehind
  BY <1>1 DEF CallsHavePlace, StopsHavePlace, ClearIsFollowed,
              ClearingExcludes, NoReleaseBehind, Indices, Owners
<1>5. GoalsTyped
  BY DEF Init, GoalsTyped, GoalStates
<1> QED BY <1>2, <1>3, <1>4, <1>5 DEF MInv, MotionIsCovered

LEMMA GoalsStayTyped ==
  ASSUME GoalsTyped, [Next]_vars
  PROVE  GoalsTyped'
<1>1. ASSUME NEW g \in Goals, ServerStep(g) PROVE GoalsTyped'
  BY <1>1 DEF ServerStep, Admit, Refuse, ServeCancel, Finish, Close,
              GoalsTyped, GoalStates, Verdicts
<1>2. ASSUME NEW g \in Own, SubmitStep(g) PROVE GoalsTyped'
  <2>1. \/ goal' = goal
        \/ goal' = [goal EXCEPT ![g] = "sent"]
    BY <1>2 DEF SubmitStep, Submit, SendGoal, LoseReply, AcceptTimeout,
                Resume, _on_task_result, server
  <2> QED BY <2>1 DEF GoalsTyped, GoalStates
<1>3. CASE DeliverEvent \/ cancel_task
  BY <1>3 DEF DeliverEvent, cancel_task, server, GoalsTyped
<1>4. CASE ReservationStep
  BY <1>4 DEF ReservationStep, ServeReservation, ReservationTimeout, tasks,
              GoalsTyped
<1>5. CASE ActionStep
  BY <1>5 DEF ActionStep, BeginAction, ActionSend, ActionAnswered,
              ActionTimeout, ActionCancel, ActionEnds, ActionUnproven,
              tasks, GoalsTyped
<1>6. CASE TeleopStep
  BY <1>6 DEF TeleopStep, ClaimTeleop, CommandTeleop, EndTeleop, tasks,
              GoalsTyped
<1>7. CASE StopStep
  BY <1>7 DEF StopStep, ServeStop, StopTimeout, _on_drive_stop_latched,
              BeginClear, BeginHalt, HaltDrains, HaltAnswers, HaltGivesUp,
              tasks, server, GoalsTyped
<1>8. CASE UNCHANGED vars
  BY <1>8 DEF vars, GoalsTyped
<1> QED BY <1>1, <1>2, <1>3, <1>4, <1>5, <1>6, <1>7, <1>8 DEF Next

-----------------------------------------------------------------------------
(* What one call that times out can do *)

(* A clearing latches the stop again only after a call of it timed out,    *)
(* so that with one timeout it does so before it gives its place back.     *)
LateInv ==
  /\ late \in Nat
  /\ pc["clear"] = "relatch" => late >= 1
  /\ late <= 1 => MInv /\ RelatchedFirst

(* Steps that leave the clearing alone.                                    *)
LEMMA ClearingIsApart ==
  ASSUME LateInv, UNCHANGED <<late, latch, stops>>,
         pc'["clear"] = pc["clear"], late' <= 1
  PROVE  RelatchedFirst'
BY DEF LateInv, RelatchedFirst, Firm

LEMMA PlaceOfOthers ==
  ASSUME MInv, NEW o \in Owners, o # "clear", NEW p, Goto(o, p)
  PROVE  pc'["clear"] = pc["clear"]
BY DEF MInv, ManualTypes, Goto, Owners

LEMMA RelatchedByReservation ==
  ASSUME MInv, RelatchedFirst, ReservationStep
  PROVE  RelatchedFirst'
<1> SUFFICES ASSUME pc'["clear"] = "rerelease" PROVE Firm'
  BY DEF RelatchedFirst
<1>1. CASE ServeReservation
  <2> DEFINE c == Head(calls)
             granted == c.want => ~Busy /\ ~reserved
  <2>1. /\ calls # << >> /\ latch' = latch
        /\ \/ c.who = "nobody" /\ UNCHANGED <<pc, stops>>
           \/ c.who # "nobody" /\ c.want /\ granted /\ Goto(c.who, "held")
                /\ (c.who # "clear" => UNCHANGED stops)
           \/ c.who # "nobody" /\ Leave(c.who) /\ ~(c.want /\ granted)
                /\ UNCHANGED stops
    BY <1>1 DEF ServeReservation
  <2>2. c.who \in Owners \cup {"nobody"}
    BY <2>1, CallTyped, CallServed DEF CallSet
  <2>3. CASE c.who = "nobody"
    BY <2>1, <2>3 DEF RelatchedFirst, Firm
  <2>4. CASE c.who # "nobody"
    <3>1. c.who \in Owners
      BY <2>2, <2>4
    <3>2. PICK p \in {"held", "idle"} :
            pc' = [pc EXCEPT ![c.who] = p] /\ (c.who # "clear" => UNCHANGED stops)
      BY <2>1, <2>4 DEF Goto, Leave
    <3>3. c.who # "clear"
      BY <3>2 DEF MInv, ManualTypes, Owners
    <3>4. pc["clear"] = "rerelease" /\ UNCHANGED stops
      BY <3>1, <3>2, <3>3, PlaceOfOthers DEF Goto
    <3> QED BY <2>1, <3>4 DEF RelatchedFirst, Firm
  <2> QED BY <2>3, <2>4
<1>2. CASE ReservationTimeout
  <2>1. PICK i \in 1 .. Len(calls) :
          /\ calls[i].who # "nobody"
          /\ \/ Leave(calls[i].who) /\ UNCHANGED stops
             \/ /\ calls[i].who = "clear" /\ Goto("clear", "relatch")
             \/ /\ calls[i].who # "clear"
                /\ Goto(calls[i].who, "stuck") /\ UNCHANGED stops
    BY <1>2 DEF ReservationTimeout
  <2>2. calls[i].who \in Owners /\ latch' = latch
    BY <1>2, <2>1, CallTyped DEF ReservationTimeout
  <2>3. PICK p \in {"idle", "relatch", "stuck"} :
          /\ pc' = [pc EXCEPT ![calls[i].who] = p]
          /\ calls[i].who # "clear" => UNCHANGED stops
    BY <2>1 DEF Goto, Leave
  <2>4. calls[i].who # "clear"
    BY <2>3 DEF MInv, ManualTypes, Owners
  <2>5. pc["clear"] = "rerelease" /\ UNCHANGED stops
    BY <2>2, <2>3, <2>4, PlaceOfOthers DEF Goto
  <2> QED BY <2>2, <2>5 DEF RelatchedFirst, Firm
<1> QED BY <1>1, <1>2 DEF ReservationStep

LEMMA RelatchedByStop ==
  ASSUME MInv, RelatchedFirst, ServeStop
  PROVE  RelatchedFirst'
<1> SUFFICES ASSUME pc'["clear"] = "rerelease" PROVE Firm'
  BY DEF RelatchedFirst
<1>1. /\ stops \in Seq(StopSet) /\ stops # << >> /\ stops' = Tail(stops)
  BY DEF ServeStop, MInv, ManualTypes, StopSet
<1>2. /\ Head(stops) = stops[1] /\ 1 \in 1 .. Len(stops)
      /\ Len(stops) \in Nat /\ Len(stops') = Len(stops) - 1
      /\ \A k \in 1 .. Len(stops') : stops'[k] = stops[k + 1]
      /\ stops[1] \in StopSet
  BY <1>1, StopServed
<1>3. /\ latch' = stops[1].want
      /\ stops[1].who = "clear" =>
           pc' = [pc EXCEPT !["clear"] = IF stops[1].want = "clear"
                                         THEN "release" ELSE "rerelease"]
      /\ stops[1].who \in {"nobody", "halt"} => UNCHANGED pc
  BY <1>2 DEF ServeStop, ReleaseClear, Goto
<1>4. CASE stops[1].who = "clear"
  <2>1. stops[1].want # "clear"
    BY <1>3, <1>4 DEF MInv, ManualTypes, Owners
  <2>2. latch' = "latched"
    BY <1>2, <1>3, <2>1 DEF StopSet
  <2> QED BY <1>1, <1>4, <2>2, NoClearBehind DEF Firm
<1>5. CASE stops[1].who # "clear"
  <2>1. stops[1].who \in {"nobody", "halt"}
    BY <1>2, <1>5 DEF MInv, StopsHavePlace, StopSet, Waiters, Owners
  <2>2. Firm
    BY <1>3, <2>1 DEF RelatchedFirst
  <2>3. latch' = "latched"
    BY <1>2, <1>3, <2>2 DEF Firm, StopSet
  <2>4. \A k \in 1 .. Len(stops') : stops'[k].want # "clear"
    BY <1>2, <2>2 DEF Firm
  <2> QED BY <2>3, <2>4 DEF Firm
<1> QED BY <1>4, <1>5

LEMMA RelatchedByTimeout ==
  ASSUME LateInv, MInv, RelatchedFirst, StopTimeout, late' <= 1
  PROVE  RelatchedFirst'
<1> SUFFICES ASSUME pc'["clear"] = "rerelease" PROVE Firm'
  BY DEF RelatchedFirst
<1>1. PICK i \in 1 .. Len(stops) :
        \/ /\ stops[i].who = "halt"
           /\ stops' = [stops EXCEPT ![i].who = "nobody"]
           /\ UNCHANGED pc
        \/ stops[i].who = "clear" /\ pc["clear"] = "relatch"
        \/ Goto("clear", "relatch")
  BY DEF StopTimeout
<1>2. late' = late + 1 /\ latch' = latch
  BY DEF StopTimeout
<1>3. pc["clear"] # "relatch"
  BY <1>2 DEF LateInv
<1>4. ~Goto("clear", "relatch")
  BY DEF Goto, MInv, ManualTypes, Owners
<1>5. Firm
  BY <1>1, <1>3, <1>4 DEF RelatchedFirst
<1>6. stops \in Seq(StopSet) /\ stops' = [stops EXCEPT ![i].who = "nobody"]
  BY <1>1, <1>3, <1>4 DEF MInv, ManualTypes, StopSet
<1>7. /\ Len(stops') = Len(stops)
      /\ \A k \in 1 .. Len(stops) : k # i => stops'[k] = stops[k]
      /\ stops'[i].want = stops[i].want
  BY <1>6, StopForgotten
<1> QED BY <1>2, <1>5, <1>7 DEF Firm

LEMMA RelatchedByOthers ==
  ASSUME LateInv, MInv, RelatchedFirst, late' <= 1, StopStep,
         ~ServeStop, ~StopTimeout
  PROVE  RelatchedFirst'
<1>1. CASE BeginClear
  <2>1. pc'["clear"] = "acquire"
    BY <1>1 DEF BeginClear, Goto, MInv, ManualTypes, Owners
  <2> QED BY <2>1 DEF RelatchedFirst
<1>2. CASE BeginHalt
  <2> SUFFICES ASSUME pc'["clear"] = "rerelease" PROVE Firm'
    BY DEF RelatchedFirst
  <2> DEFINE c == [want |-> "latched", who |-> "halt"]
  <2>1. /\ stops \in Seq(StopSet) /\ c \in StopSet /\ stops' = Append(stops, c)
        /\ c.want = "latched"
        /\ pc' = pc /\ latch' = latch
    BY <1>2 DEF BeginHalt, CallStop, manual, MInv, ManualTypes, StopSet,
                Waiters
  <2> HIDE DEF c
  <2>2. /\ Len(stops) \in Nat /\ Len(stops') = Len(stops) + 1
        /\ \A i \in 1 .. Len(stops) : stops'[i] = stops[i]
        /\ stops'[Len(stops) + 1] = c
    BY <2>1, StopJoins
  <2>3. Firm
    BY <2>1 DEF RelatchedFirst
  <2> QED BY <2>1, <2>2, <2>3 DEF Firm
<1>3. CASE _on_drive_stop_latched \/ HaltAnswers \/ HaltGivesUp
  BY <1>3, ClearingIsApart
     DEF _on_drive_stop_latched, HaltAnswers, HaltGivesUp, manual, drive
<1>4. CASE HaltDrains
  <2>1. /\ UNCHANGED <<late, latch, stops>>
        /\ UNCHANGED pc \/ Goto("teleop", "release")
    BY <1>4 DEF HaltDrains, drive
  <2>2. pc'["clear"] = pc["clear"]
    BY <2>1, PlaceOfOthers DEF Owners
  <2> QED BY <2>1, <2>2, ClearingIsApart
<1> QED BY <1>1, <1>2, <1>3, <1>4 DEF StopStep

LEMMA StepKeepsRelatched ==
  ASSUME LateInv, [Next]_vars, late' <= 1, MInv, RelatchedFirst
  PROVE  RelatchedFirst'
<1>1. ASSUME NEW g \in Goals, ServerStep(g) PROVE RelatchedFirst'
  BY <1>1, ClearingIsApart
     DEF ServerStep, Admit, Refuse, ServeCancel, Finish, Close, manual, drive
<1>2. ASSUME NEW g \in Own, SubmitStep(g) PROVE RelatchedFirst'
  <2>1. UNCHANGED <<late, manual, drive>>
    BY <1>2 DEF SubmitStep, Submit, SendGoal, LoseReply, AcceptTimeout,
                Resume, _on_task_result
  <2> QED BY <2>1, ClearingIsApart DEF manual, drive
<1>3. CASE DeliverEvent \/ cancel_task
  BY <1>3, ClearingIsApart DEF DeliverEvent, cancel_task, manual, drive
<1>4. CASE ReservationStep
  BY <1>4, RelatchedByReservation
<1>5. CASE ActionStep
  <2>1. /\ UNCHANGED <<late, latch, stops>>
        /\ UNCHANGED pc \/ \E p : Goto("action", p)
    BY <1>5 DEF ActionStep, BeginAction, ActionSend, ActionAnswered,
                ActionTimeout, ActionCancel, ActionEnds, ActionUnproven,
                ReleaseAction, drive
  <2>2. pc'["clear"] = pc["clear"]
    BY <2>1, PlaceOfOthers DEF Owners
  <2> QED BY <2>1, <2>2, ClearingIsApart
<1>6. CASE TeleopStep
  <2>1. /\ UNCHANGED <<late, latch, stops>>
        /\ UNCHANGED pc \/ \E p : Goto("teleop", p)
    BY <1>6 DEF TeleopStep, ClaimTeleop, CommandTeleop, EndTeleop,
                LeaveTeleop, drive
  <2>2. pc'["clear"] = pc["clear"]
    BY <2>1, PlaceOfOthers DEF Owners
  <2> QED BY <2>1, <2>2, ClearingIsApart
<1>7. CASE StopStep
  BY <1>7, RelatchedByStop, RelatchedByTimeout, RelatchedByOthers
<1>8. CASE UNCHANGED vars
  BY <1>8, ClearingIsApart DEF vars
<1> QED BY <1>1, <1>2, <1>3, <1>4, <1>5, <1>6, <1>7, <1>8 DEF Next

(* The number of timeouts only grows, and whoever begins to latch the stop *)
(* again has just given up a call.                                         *)
LEMMA LateGrows ==
  ASSUME late \in Nat, [Next]_vars
  PROVE  late' \in Nat /\ (late' = late \/ late' = late + 1)
<1>1. CASE UNCHANGED vars
  BY <1>1 DEF vars
<1>2. CASE ReservationTimeout \/ StopTimeout
  BY <1>2 DEF ReservationTimeout, StopTimeout
<1>3. ASSUME NEW g \in Own, SubmitStep(g) PROVE late' = late
  BY <1>3 DEF SubmitStep, Submit, SendGoal, LoseReply, AcceptTimeout, Resume,
              _on_task_result
<1>4. ASSUME NEW g \in Goals, ServerStep(g) PROVE late' = late
  BY <1>4 DEF ServerStep, Admit, Refuse, ServeCancel, Finish, Close
<1>5. CASE Next /\ ~ReservationTimeout /\ ~StopTimeout
  BY <1>3, <1>4, <1>5
     DEF Next, DeliverEvent, cancel_task, ReservationStep, ServeReservation,
         ActionStep, BeginAction, ActionSend, ActionAnswered, ActionTimeout,
         ActionCancel, ActionEnds, ActionUnproven, TeleopStep, ClaimTeleop,
         CommandTeleop, EndTeleop, StopStep, ServeStop,
         _on_drive_stop_latched, BeginClear, BeginHalt, HaltDrains,
         HaltAnswers, HaltGivesUp
<1> QED BY <1>1, <1>2, <1>5

LEMMA RelatchIsLate ==
  ASSUME MInv, LateInv, [Next]_vars, pc'["clear"] = "relatch"
  PROVE  late' >= 1
<1>1. late \in Nat /\ (late' = late \/ late' = late + 1)
  BY LateGrows DEF LateInv
<1> SUFFICES ASSUME pc["clear"] # "relatch", late' = late PROVE FALSE
  BY <1>1 DEF LateInv
<1>2. /\ pc \in [Owners -> {"idle", "acquire", "held", "accepting",
                            "running", "release", "relatch", "rerelease",
                            "stuck"}]
      /\ {"action", "teleop", "clear"} = Owners
  BY DEF MInv, ManualTypes, Owners
<1>3. ~ReservationTimeout /\ ~StopTimeout
  BY <1>1 DEF ReservationTimeout, StopTimeout
<1>4. CASE ServeReservation
  <2>1. PICK o, p : p # "relatch" /\ (UNCHANGED pc \/ Goto(o, p))
    BY <1>4 DEF ServeReservation, Leave
  <2> QED BY <1>2, <2>1 DEF Goto
<1>5. CASE ServeStop
  <2>1. PICK o, p : p # "relatch" /\ (UNCHANGED pc \/ Goto(o, p))
    <3>1. \/ UNCHANGED pc
          \/ pc' = [pc EXCEPT !["clear"] = "release"]
          \/ pc' = [pc EXCEPT !["clear"] = "rerelease"]
      <4>1. stops \in Seq(StopSet) /\ stops # << >> /\ stops' = Tail(stops)
        BY <1>5 DEF ServeStop, MInv, ManualTypes, StopSet
      <4>2. Head(stops) = stops[1] /\ 1 \in 1 .. Len(stops)
            /\ stops[1] \in StopSet
        BY <4>1, StopServed
      <4>3. Head(stops).who \in {"nobody", "halt", "clear"}
        BY <4>2 DEF MInv, StopsHavePlace, StopSet, Waiters, Owners
      <4> QED BY <1>5, <4>3 DEF ServeStop, ReleaseClear, Goto
    <3> QED BY <3>1 DEF Goto
  <2> QED BY <1>2, <2>1 DEF Goto
<1>6. CASE BeginClear \/ HaltDrains
  BY <1>2, <1>6 DEF BeginClear, HaltDrains, Goto
<1>7. CASE ActionStep
  BY <1>2, <1>7 DEF ActionStep, BeginAction, ActionSend, ActionAnswered,
                    ActionTimeout, ActionCancel, ActionEnds, ActionUnproven,
                    ReleaseAction, Goto
<1>8. CASE TeleopStep
  BY <1>2, <1>8 DEF TeleopStep, ClaimTeleop, CommandTeleop, EndTeleop,
                    LeaveTeleop, Goto
<1>9. CASE DeliverEvent \/ cancel_task \/ BeginHalt \/ UNCHANGED vars
           \/ _on_drive_stop_latched \/ HaltAnswers \/ HaltGivesUp
  BY <1>9 DEF DeliverEvent, cancel_task, BeginHalt, _on_drive_stop_latched,
              HaltAnswers, HaltGivesUp, vars, manual
<1>10. ASSUME NEW g \in Goals, ServerStep(g) PROVE FALSE
  BY <1>10 DEF ServerStep, Admit, Refuse, ServeCancel, Finish, Close, manual
<1>11. ASSUME NEW g \in Own, SubmitStep(g) PROVE FALSE
  BY <1>11 DEF SubmitStep, Submit, SendGoal, LoseReply, AcceptTimeout,
               Resume, _on_task_result, manual
<1> QED BY <1>3, <1>4, <1>5, <1>6, <1>7, <1>8, <1>9, <1>10, <1>11
        DEF Next, ReservationStep, StopStep

-----------------------------------------------------------------------------
(* The theorems *)

LEMMA MInvExcludes ==
  ASSUME MInv
  PROVE  ManualExcludesTask
<1>1. ManualMotion => Held
  BY DEF ManualMotion, Held, MInv, MotionHasPlace
<1> QED BY <1>1 DEF ManualExcludesTask, MInv, MotionIsCovered

(* No task runs while manual control may move the robot, as long as a      *)
(* clearing that failed gives the reservation back only once the stop is   *)
(* latched again: for any number of calls that time out, are lost or are   *)
(* served late, and however the clients of the server interleave.          *)
THEOREM ExclusionGivenRelatch ==
  Spec /\ []RelatchedFirst => []ManualExcludesTask
<1>1. Init => MInv /\ GoalsTyped
  BY InitMInv
<1>2. /\ MInv /\ GoalsTyped /\ [Next]_vars
      /\ RelatchedFirst /\ RelatchedFirst'
      => (MInv /\ GoalsTyped)'
  BY StepKeepsMInv, GoalsStayTyped
<1>3. MInv => ManualExcludesTask
  BY MInvExcludes
<1> QED BY <1>1, <1>2, <1>3, PTL DEF Spec

(* With one call that times out the assumption holds by itself: until a    *)
(* second call of the console times out no task runs beside manual control.*)
THEOREM ExclusionUntilSecondTimeout ==
  Spec => [](late <= 1 => ManualExcludesTask)
<1>1. Init => LateInv /\ GoalsTyped
  <2> SUFFICES ASSUME Init PROVE LateInv /\ GoalsTyped
    OBVIOUS
  <2>1. late = 0 /\ pc["clear"] = "idle"
    BY DEF Init, Owners
  <2> QED BY <2>1, InitMInv DEF LateInv, RelatchedFirst
<1>2. LateInv /\ GoalsTyped /\ [Next]_vars => (LateInv /\ GoalsTyped)'
  <2> SUFFICES ASSUME LateInv, GoalsTyped, [Next]_vars
               PROVE  LateInv' /\ GoalsTyped'
    OBVIOUS
  <2>1. GoalsTyped' /\ late' \in Nat /\ (late' = late \/ late' = late + 1)
    BY LateGrows, GoalsStayTyped DEF LateInv
  <2>2. CASE late' <= 1
    <3>1. MInv /\ RelatchedFirst
      BY <2>1, <2>2 DEF LateInv
    <3>2. RelatchedFirst'
      BY <2>2, <3>1, StepKeepsRelatched
    <3>3. MInv'
      BY <3>1, <3>2, StepKeepsMInv
    <3>4. pc'["clear"] = "relatch" => late' >= 1
      BY <3>1, RelatchIsLate
    <3> QED BY <2>1, <3>2, <3>3, <3>4 DEF LateInv
  <2>3. CASE ~(late' <= 1)
    BY <2>1, <2>3 DEF LateInv
  <2> QED BY <2>1, <2>2, <2>3
<1>3. LateInv => (late <= 1 => ManualExcludesTask)
  BY MInvExcludes DEF LateInv
<1> QED BY <1>1, <1>2, <1>3, PTL DEF Spec

-----------------------------------------------------------------------------
(* The tracking of own goals *)

(* No other client asks for what the console asks for: an event of such a  *)
(* twin is taken for news of the goal that the console tracks.             *)
NoTwins == \A g \in Own : \A h \in Goals \ Own : Content[h] # Content[g]

(* While a task is open nothing is left that says that an earlier one has  *)
(* ended: the end of any task the console owned ends the open record.      *)
NoOldNews ==
  Live(active) =>
    \A g \in Own \ {active.goal} :
      /\ ~(submit[g] = "watching" /\ result[g] \in Verdicts)
      /\ \A i \in 1 .. Len(events) :
           events[i].goal = g => events[i].status \notin Terminal

(* The part of TypeOK that the tracking is about.                          *)
TrackTypes ==
  /\ goal \in [Goals -> GoalStates]
  /\ events \in Seq(TaskEvents)
  /\ reply \in [Own -> {"none", "pending", "accepted", "rejected", "lost"}]
  /\ result \in [Own -> {"none"} \cup Verdicts]
  /\ submit \in [Own -> {"idle", "sending", "waiting", "watching", "done"}]

(* The console tracks, and takes for its own, only what it submitted.      *)
RecordsAreOwn ==
  /\ active = NoTask \/ active \in [goal : Own, status : Statuses]
  /\ owned \subseteq Own

Known == {"running"} \cup Verdicts \cup {"ended"}
Over == Verdicts \cup {"ended"}

(* An event of an own goal says no more than the server has done.          *)
EventsAreTrue ==
  \A i \in 1 .. Len(events) : events[i].goal \in Own =>
    /\ goal[events[i].goal] \in Known
    /\ events[i].status \in Terminal => goal[events[i].goal] \in Over

(* Neither do the response and the result of its futures.                  *)
AnswersAreTrue ==
  \A g \in Own :
    /\ result[g] \in Verdicts => goal[g] = "ended"
    /\ reply[g] = "rejected" => goal[g] = "refused"

(* The record is there before the goal is sent, and until the console has  *)
(* learnt that it was refused.                                             *)
Answerless(g) ==
  submit[g] = "sending" \/ (submit[g] = "waiting" /\ goal[g] = "refused")

SubmissionIsRecorded ==
  \A g \in Own :
    /\ submit[g] \in {"idle", "sending"} => goal[g] = "unsent"
    /\ Answerless(g) => active.goal = g /\ Live(active)

TrackInv ==
  /\ TrackTypes
  /\ RecordsAreOwn
  /\ EventsAreTrue
  /\ AnswersAreTrue
  /\ SubmissionIsRecorded
  /\ OwnGoalIsTracked

(* What a server may still do with a goal the console knows.               *)
GoesOn ==
  \A h \in Own : /\ goal[h] \in Known => goal'[h] \in Known
                 /\ goal[h] \in Over => goal'[h] \in Over

LEMMA EventJoins ==
  ASSUME TrackInv, NEW g \in Goals, NEW s \in {"RUNNING"} \cup Verdicts,
         Publish(g, s), GoesOn,
         g \in Own => goal'[g] \in Known /\ (s \in Verdicts => goal'[g] \in Over)
  PROVE  EventsAreTrue' /\ events' \in Seq(TaskEvents)
<1> DEFINE e == [goal |-> g, status |-> s]
<1>1. events \in Seq(TaskEvents) /\ e \in TaskEvents
  BY DEF TrackInv, TrackTypes, TaskEvents
<1>2. /\ events' \in Seq(TaskEvents)
      /\ Len(events) \in Nat /\ Len(events') = Len(events) + 1
      /\ \A i \in 1 .. Len(events) : events'[i] = events[i]
      /\ events'[Len(events) + 1] = e
  BY <1>1 DEF Publish
<1>3. ASSUME NEW i \in 1 .. Len(events'), events'[i].goal \in Own
      PROVE  /\ goal'[events'[i].goal] \in Known
             /\ events'[i].status \in Terminal =>
                  goal'[events'[i].goal] \in Over
  <2>1. CASE i \in 1 .. Len(events)
    BY <1>2, <1>3, <2>1 DEF TrackInv, EventsAreTrue, GoesOn
  <2>2. CASE i = Len(events) + 1
    BY <1>2, <1>3, <2>2 DEF Terminal, Verdicts
  <2> QED BY <1>2, <2>1, <2>2
<1> QED BY <1>2, <1>3 DEF EventsAreTrue

LEMMA EventsGoOn ==
  ASSUME TrackInv, GoesOn, UNCHANGED events
  PROVE  EventsAreTrue'
BY DEF TrackInv, EventsAreTrue, GoesOn

(* Steps that leave the goals and what the console knows of them alone.    *)
tracking == <<goal, events, reply, result, submit, active, owned>>

LEMMA NothingTracked ==
  ASSUME TrackInv, UNCHANGED tracking
  PROVE  TrackInv'
BY DEF TrackInv, TrackTypes, RecordsAreOwn, EventsAreTrue, AnswersAreTrue,
       SubmissionIsRecorded, Answerless, OwnGoalIsTracked, tracking

LEMMA ServerTracks ==
  ASSUME TrackInv, NEW g \in Goals, ServerStep(g)
  PROVE  TrackInv'
<1> USE DEF TrackInv
<1>t. goal \in [Goals -> GoalStates] /\ Own \subseteq Goals
  BY GoalsAssumption DEF TrackTypes
<1>1. CASE Admit(g)
  <2>1. /\ goal' = [goal EXCEPT ![g] = "running"] /\ Publish(g, "RUNNING")
        /\ goal[g] \in {"sent", "unsent"} /\ (g \in Own => goal[g] = "sent")
        /\ UNCHANGED <<result, submit, active, owned>>
    BY <1>1 DEF Admit, tracks
  <2>2. GoesOn
    BY <1>t, <2>1 DEF GoesOn, Known, Over, Verdicts
  <2>3. EventsAreTrue' /\ events' \in Seq(TaskEvents)
    BY <1>t, <2>1, <2>2, EventJoins DEF Known, Verdicts
  <2>4. /\ reply' \in [Own -> {"none", "pending", "accepted", "rejected",
                               "lost"}]
        /\ \A h \in Own : reply'[h] = "rejected" => reply[h] = "rejected"
    BY <1>1 DEF Admit, TrackTypes
  <2>5. TrackTypes'
    BY <1>t, <2>1, <2>3, <2>4 DEF TrackTypes, GoalStates
  <2>6. AnswersAreTrue'
    BY <1>t, <2>1, <2>4 DEF AnswersAreTrue
  <2>7. SubmissionIsRecorded' /\ RecordsAreOwn'
    BY <1>t, <2>1 DEF SubmissionIsRecorded, Answerless, RecordsAreOwn
  <2>8. OwnGoalIsTracked'
    BY <1>t, <2>1 DEF OwnGoalIsTracked
  <2> QED BY <2>3, <2>5, <2>6, <2>7, <2>8
<1>2. CASE Refuse(g)
  <2>1. /\ goal' = [goal EXCEPT ![g] = "refused"] /\ goal[g] = "sent"
        /\ UNCHANGED <<events, result, submit, active, owned>>
    BY <1>2 DEF Refuse, tracks
  <2>2. GoesOn
    BY <1>t, <2>1 DEF GoesOn, Known, Over, Verdicts
  <2>3. EventsAreTrue'
    BY <2>1, <2>2, EventsGoOn
  <2>4. /\ reply' \in [Own -> {"none", "pending", "accepted", "rejected",
                               "lost"}]
        /\ \A h \in Own : h # g => reply'[h] = reply[h]
    BY <1>2 DEF Refuse, TrackTypes
  <2>5. TrackTypes'
    BY <1>t, <2>1, <2>4 DEF TrackTypes, GoalStates
  <2>6. AnswersAreTrue'
    BY <1>t, <2>1, <2>4 DEF AnswersAreTrue
  <2>7. SubmissionIsRecorded' /\ RecordsAreOwn'
    BY <1>t, <2>1 DEF SubmissionIsRecorded, Answerless, RecordsAreOwn,
                      OwnGoalIsTracked
  <2>8. OwnGoalIsTracked'
    BY <1>t, <2>1 DEF OwnGoalIsTracked
  <2> QED BY <2>3, <2>5, <2>6, <2>7, <2>8
<1>3. CASE ServeCancel(g)
  <2>1. UNCHANGED <<goal, reply, result, submit, active, owned>>
    BY <1>3 DEF ServeCancel, tracks
  <2>2. GoesOn
    BY <2>1 DEF GoesOn
  <2>3. EventsAreTrue' /\ events' \in Seq(TaskEvents)
    <3>1. CASE Publish(g, "RUNNING") /\ goal[g] \in {"running"} \cup Closing
      <4>1. goal'[g] \in Known /\ "RUNNING" \notin Verdicts
        BY <2>1, <3>1 DEF Known, Closing, Verdicts
      <4> QED BY <2>2, <3>1, <4>1, EventJoins
    <3>2. CASE UNCHANGED events
      BY <2>2, <3>2, EventsGoOn DEF TrackTypes
    <3> QED BY <1>3, <3>1, <3>2 DEF ServeCancel
  <2> QED BY <2>1, <2>3 DEF TrackTypes, RecordsAreOwn, AnswersAreTrue,
                            SubmissionIsRecorded, Answerless, OwnGoalIsTracked
<1>4. CASE Finish(g)
  <2>1. PICK v \in Verdicts : goal' = [goal EXCEPT ![g] = v] /\ Publish(g, v)
    BY <1>4 DEF Finish
  <2>2. /\ goal[g] = "running"
        /\ UNCHANGED <<reply, result, submit, active, owned>>
    BY <1>4 DEF Finish, tracks
  <2>3. GoesOn
    BY <1>t, <2>1, <2>2 DEF GoesOn, Known, Over, Verdicts
  <2>4. EventsAreTrue' /\ events' \in Seq(TaskEvents)
    BY <1>t, <2>1, <2>3, EventJoins DEF Known, Over
  <2>5. TrackTypes'
    BY <1>t, <2>1, <2>2, <2>4 DEF TrackTypes, GoalStates
  <2>6. AnswersAreTrue'
    BY <1>t, <2>1, <2>2 DEF AnswersAreTrue
  <2>7. SubmissionIsRecorded' /\ RecordsAreOwn'
    BY <1>t, <2>1, <2>2 DEF SubmissionIsRecorded, Answerless, RecordsAreOwn,
                            Verdicts
  <2>8. OwnGoalIsTracked'
    BY <1>t, <2>1, <2>2 DEF OwnGoalIsTracked, Verdicts
  <2> QED BY <2>4, <2>5, <2>6, <2>7, <2>8
<1>5. CASE Close(g)
  <2>1. /\ goal' = [goal EXCEPT ![g] = "ended"] /\ goal[g] \in Verdicts
        /\ UNCHANGED <<events, reply, submit, active, owned>>
    BY <1>5 DEF Close, Closing, tracks
  <2>2. GoesOn
    BY <1>t, <2>1 DEF GoesOn, Known, Over, Verdicts
  <2>3. EventsAreTrue'
    BY <2>1, <2>2, EventsGoOn
  <2>4. /\ result' \in [Own -> {"none"} \cup Verdicts]
        /\ \A h \in Own : h # g => result'[h] = result[h]
    BY <1>5, <2>1 DEF Close, TrackTypes
  <2>5. TrackTypes'
    BY <1>t, <2>1, <2>4 DEF TrackTypes, GoalStates
  <2>6. AnswersAreTrue'
    BY <1>t, <2>1, <2>4 DEF AnswersAreTrue, Verdicts
  <2>7. SubmissionIsRecorded' /\ RecordsAreOwn'
    BY <1>t, <2>1 DEF SubmissionIsRecorded, Answerless, RecordsAreOwn, Verdicts
  <2>8. OwnGoalIsTracked'
    BY <1>t, <2>1 DEF OwnGoalIsTracked
  <2> QED BY <2>3, <2>5, <2>6, <2>7, <2>8
<1> QED BY <1>1, <1>2, <1>3, <1>4, <1>5 DEF ServerStep

(* A task that ends, and what cannot be known of one.                      *)
LEMMA RecordEnds ==
  ASSUME RecordsAreOwn, NEW s \in Terminal, FinishTask(s)
  PROVE  /\ active' = NoTask \/ active' \in [goal : Own, status : Statuses]
         /\ ~Live(active')
<1>1. CASE Live(active)
  <2>1. active \in [goal : Own, status : Statuses]
    BY <1>1 DEF RecordsAreOwn, Live, NoTask, Terminal
  <2>2. active' = [active EXCEPT !.status = s]
    BY <1>1 DEF FinishTask
  <2> QED BY <2>1, <2>2 DEF Statuses, Live
<1>2. CASE ~Live(active)
  BY <1>2 DEF FinishTask, RecordsAreOwn
<1> QED BY <1>1, <1>2

LEMMA RecordIsUnknown ==
  ASSUME RecordsAreOwn,
         NEW s \in {"ACCEPTANCE_UNKNOWN", "RESULT_UNKNOWN"}, MarkUnknown(s)
  PROVE  /\ active' = NoTask \/ active' \in [goal : Own, status : Statuses]
         /\ Live(active) => active'.goal = active.goal /\ Live(active')
<1>1. CASE Live(active)
  <2>1. active \in [goal : Own, status : Statuses]
    BY <1>1 DEF RecordsAreOwn, Live, NoTask, Terminal
  <2>2. active' = [active EXCEPT !.status = s]
    BY <1>1 DEF MarkUnknown
  <2> QED BY <2>1, <2>2 DEF Statuses, Live, Terminal, Verdicts
<1>2. CASE ~Live(active)
  BY <1>2 DEF MarkUnknown, RecordsAreOwn
<1> QED BY <1>1, <1>2

(* The record of g ends where g is not awaited: with no other own goal,    *)
(* because an open record is the record of the goal that is awaited.       *)
LEMMA RecordMayEnd ==
  ASSUME TrackInv, NEW g \in Own, NEW s \in Terminal, FinishTask(s),
         Live(active) => active.goal = g,
         UNCHANGED <<goal, result, reply>>, EventsAreTrue',
         events' \in Seq(TaskEvents), owned' \subseteq Own,
         submit' \in [Own -> {"idle", "sending", "waiting", "watching",
                              "done"}],
         \A h \in Own \ {g} : submit'[h] = submit[h],
         submit'[g] \notin {"idle", "sending"},
         submit'[g] = "waiting" => goal[g] # "refused",
         goal[g] \notin {"sent", "running"}
  PROVE  TrackInv'
<1> USE DEF TrackInv
<1>1. active' = NoTask \/ active' \in [goal : Own, status : Statuses]
  BY RecordEnds
<1>2. TrackTypes' /\ RecordsAreOwn' /\ AnswersAreTrue'
  BY <1>1 DEF TrackTypes, RecordsAreOwn, AnswersAreTrue
<1>3. ~Live(active) => active' = active
  BY DEF FinishTask
<1>4. SubmissionIsRecorded'
  BY <1>3 DEF SubmissionIsRecorded, Answerless
<1>5. OwnGoalIsTracked'
  BY <1>3 DEF OwnGoalIsTracked
<1> QED BY <1>2, <1>4, <1>5

(* A record that stays open stays the record of the same goal.             *)
LEMMA RecordGoesOn ==
  ASSUME TrackInv, NEW g \in Own,
         UNCHANGED <<goal, result, reply>>, EventsAreTrue',
         events' \in Seq(TaskEvents), owned' \subseteq Own,
         active' = NoTask \/ active' \in [goal : Own, status : Statuses],
         Live(active) => active'.goal = active.goal /\ Live(active'),
         submit' \in [Own -> {"idle", "sending", "waiting", "watching",
                              "done"}],
         \A h \in Own \ {g} : submit'[h] = submit[h],
         \/ submit'[g] = submit[g]
         \/ submit'[g] \in {"watching", "done"}
  PROVE  TrackInv'
<1> USE DEF TrackInv
<1>1. TrackTypes' /\ RecordsAreOwn' /\ AnswersAreTrue'
  BY DEF TrackTypes, RecordsAreOwn, AnswersAreTrue
<1>2. SubmissionIsRecorded'
  BY DEF SubmissionIsRecorded, Answerless
<1>3. OwnGoalIsTracked'
  BY DEF OwnGoalIsTracked
<1> QED BY <1>1, <1>2, <1>3

LEMMA SubmitTracks ==
  ASSUME TrackInv, NoOldNews, NEW g \in Own, SubmitStep(g)
  PROVE  TrackInv'
<1> USE DEF TrackInv
<1>o. g \in Goals
  BY GoalsAssumption
<1>t. /\ goal \in [Goals -> GoalStates] /\ events \in Seq(TaskEvents)
      /\ submit \in [Own -> {"idle", "sending", "waiting", "watching",
                             "done"}]
      /\ reply \in [Own -> {"none", "pending", "accepted", "rejected",
                            "lost"}]
  BY DEF TrackTypes
<1>e. UNCHANGED <<goal, events>> => EventsAreTrue'
  BY EventsGoOn DEF GoesOn
<1>w. owned \subseteq Own
  BY DEF RecordsAreOwn
<1>1. CASE Submit(g)
  <2>1. /\ active' = [goal |-> g, status |-> "ACCEPTING"] /\ ~Live(active)
        /\ submit[g] = "idle" /\ submit' = [submit EXCEPT ![g] = "sending"]
        /\ UNCHANGED <<goal, events, reply, result, owned>>
    BY <1>1 DEF Submit, server
  <2>2. TrackTypes' /\ AnswersAreTrue'
    BY <1>t, <2>1 DEF TrackTypes, AnswersAreTrue
  <2>3. RecordsAreOwn' /\ Live(active') /\ active'.goal = g
    BY <2>1 DEF RecordsAreOwn, Statuses, Live, Terminal, Verdicts
  <2>4. SubmissionIsRecorded'
    BY <1>t, <2>1, <2>3 DEF SubmissionIsRecorded, Answerless
  <2>5. OwnGoalIsTracked'
    BY <2>1, <2>3 DEF OwnGoalIsTracked
  <2> QED BY <1>e, <2>1, <2>2, <2>3, <2>4, <2>5
<1>2. CASE SendGoal(g)
  <2>1. /\ active.goal = g /\ Live(active)
        /\ goal[g] = "unsent" /\ submit[g] = "sending"
    BY <1>2 DEF SendGoal, SubmissionIsRecorded, Answerless
  <2>2. UNCHANGED <<events, result, owned>>
    BY <1>2 DEF SendGoal
  <2>3. CASE /\ goal' = [goal EXCEPT ![g] = "sent"]
             /\ reply' = [reply EXCEPT ![g] = "pending"]
             /\ submit' = [submit EXCEPT ![g] = "waiting"]
             /\ UNCHANGED <<active, serverId, handle, cancelFlag>>
    <3>1. GoesOn
      BY <1>o, <1>t, <2>1, <2>3 DEF GoesOn, Known, Over, Verdicts
    <3>2. EventsAreTrue'
      BY <2>2, <3>1, EventsGoOn
    <3>3. TrackTypes' /\ RecordsAreOwn'
      BY <1>o, <1>t, <2>2, <2>3 DEF TrackTypes, GoalStates, RecordsAreOwn
    <3>4. AnswersAreTrue'
      BY <1>o, <1>t, <2>1, <2>2, <2>3 DEF AnswersAreTrue
    <3>5. SubmissionIsRecorded'
      BY <1>o, <1>t, <2>1, <2>3, GoalsAssumption
         DEF SubmissionIsRecorded, Answerless
    <3>6. OwnGoalIsTracked'
      BY <1>o, <1>t, <2>1, <2>3, GoalsAssumption DEF OwnGoalIsTracked
    <3> QED BY <3>2, <3>3, <3>4, <3>5, <3>6
  <2>4. CASE /\ FinishTask("FAILED")
             /\ submit' = [submit EXCEPT ![g] = "done"]
             /\ UNCHANGED <<goal, reply>>
    <3>1. "FAILED" \in Terminal
      BY DEF Terminal, Verdicts
    <3> QED BY <1>t, <1>e, <1>w, <2>1, <2>2, <2>4, <3>1, RecordMayEnd
  <2> QED BY <1>2, <2>3, <2>4 DEF SendGoal
<1>3. CASE LoseReply(g)
  <2>1. /\ reply' = [reply EXCEPT ![g] = "lost"]
        /\ UNCHANGED <<goal, events, result, submit, active, owned>>
    BY <1>3 DEF LoseReply, tracks
  <2> QED BY <1>t, <2>1 DEF TrackTypes, RecordsAreOwn, EventsAreTrue,
            AnswersAreTrue, SubmissionIsRecorded, Answerless,
            OwnGoalIsTracked
<1>4. CASE AcceptTimeout(g)
  <2>1. UNCHANGED tracking
    BY <1>4 DEF AcceptTimeout, server, tracking
  <2> QED BY <2>1, NothingTracked
<1>5. CASE Resume(g)
  <2>1. /\ UNCHANGED <<goal, events, reply, result>> /\ submit[g] = "waiting"
        /\ EventsAreTrue' /\ events' \in Seq(TaskEvents)
    BY <1>5, <1>e, <1>t DEF Resume, server
  <2>2. CASE reply[g] = "lost"
    <3>1. /\ MarkUnknown("ACCEPTANCE_UNKNOWN") /\ owned' = owned
          /\ submit' = [submit EXCEPT ![g] = "done"]
      BY <1>5, <2>2 DEF Resume
    <3>2. /\ active' = NoTask
             \/ active' \in [goal : Own, status : Statuses]
          /\ Live(active) => active'.goal = active.goal /\ Live(active')
      BY <3>1, RecordIsUnknown
    <3> QED BY <1>t, <1>w, <2>1, <3>1, <3>2, RecordGoesOn
  <2>3. CASE reply[g] = "rejected"
    <3>1. /\ FinishTask("REJECTED") /\ owned' = owned
          /\ submit' = [submit EXCEPT ![g] = "done"]
      BY <1>5, <2>3 DEF Resume
    <3>2. goal[g] = "refused" /\ active.goal = g /\ "REJECTED" \in Terminal
      BY <2>1, <2>3 DEF AnswersAreTrue, SubmissionIsRecorded, Answerless,
                        Terminal
    <3> QED BY <1>t, <1>w, <2>1, <3>1, <3>2, RecordMayEnd
  <2>4. CASE reply[g] \notin {"lost", "rejected"}
    <3>1. /\ owned' = owned \cup {g}
          /\ IF Live(active)
             THEN /\ active' = [active EXCEPT !.status = "RUNNING"]
                  /\ submit' = [submit EXCEPT ![g] = "watching"]
             ELSE /\ submit' = [submit EXCEPT ![g] = "done"]
                  /\ UNCHANGED active
      BY <1>5, <2>4 DEF Resume
    <3>2. /\ submit' \in [Own -> {"idle", "sending", "waiting", "watching",
                                  "done"}]
          /\ submit'[g] \in {"watching", "done"}
          /\ \A h \in Own \ {g} : submit'[h] = submit[h]
      BY <1>t, <3>1
    <3>3. owned' \subseteq Own
      BY <1>w, <3>1
    <3>4. CASE Live(active)
      <4>1. active \in [goal : Own, status : Statuses]
        BY <3>4 DEF RecordsAreOwn, Live, NoTask, Terminal
      <4>2. active' \in [goal : Own, status : Statuses] /\ Live(active')
            /\ active'.goal = active.goal
        BY <3>1, <3>4, <4>1 DEF Live, Statuses, Terminal, Verdicts
      <4> QED BY <2>1, <3>2, <3>3, <4>2, RecordGoesOn
    <3>5. CASE ~Live(active)
      <4>1. active' = NoTask \/ active' \in [goal : Own, status : Statuses]
        BY <3>1, <3>5 DEF RecordsAreOwn
      <4> QED BY <2>1, <3>2, <3>3, <3>5, <4>1, RecordGoesOn
    <3> QED BY <3>4, <3>5
  <2> QED BY <2>2, <2>3, <2>4
<1>6. CASE _on_task_result(g)
  <2>1. /\ goal[g] = "ended" /\ result[g] \in Terminal
        /\ UNCHANGED <<goal, events, reply, result, owned>>
        /\ submit' = [submit EXCEPT ![g] = "done"]
        /\ EventsAreTrue' /\ events' \in Seq(TaskEvents)
    BY <1>6, <1>e, <1>t DEF _on_task_result, server, AnswersAreTrue, Terminal
  <2>2. Live(active) => active.goal = g
    BY <1>6 DEF _on_task_result, NoOldNews
  <2>3. CASE FinishTask(result[g])
    BY <1>t, <1>w, <2>1, <2>2, <2>3, RecordMayEnd
  <2>4. CASE MarkUnknown("RESULT_UNKNOWN")
    <3>1. /\ active' = NoTask
             \/ active' \in [goal : Own, status : Statuses]
          /\ Live(active) => active'.goal = active.goal /\ Live(active')
      BY <2>4, RecordIsUnknown
    <3> QED BY <1>t, <1>w, <2>1, <3>1, RecordGoesOn
  <2> QED BY <1>6, <2>3, <2>4 DEF _on_task_result
<1> QED BY <1>1, <1>2, <1>3, <1>4, <1>5, <1>6 DEF SubmitStep

(* An event of an own goal ends the record only where the server has ended *)
(* that goal, and the open record is of that goal.                         *)
LEMMA EventTracks ==
  ASSUME TrackInv, NoTwins, NoOldNews, DeliverEvent
  PROVE  TrackInv'
<1> USE DEF TrackInv
<1> DEFINE e == Head(events)
           ours == Adopts(e) \/ e.goal \in owned
<1>1. /\ events # << >> /\ events' = Tail(events) /\ _on_task_event(e)
      /\ UNCHANGED <<goal, reply, result, submit>>
  BY DEF DeliverEvent, server
<1>2. /\ events' \in Seq(TaskEvents) /\ e = events[1]
      /\ Len(events) \in Nat /\ 1 \in 1 .. Len(events)
      /\ Len(events') = Len(events) - 1
      /\ \A i \in 1 .. Len(events') : events'[i] = events[i + 1]
      /\ e \in TaskEvents
  <2>1. events \in Seq(TaskEvents)
    BY DEF TrackTypes
  <2> QED BY <1>1, <2>1
<1>3. EventsAreTrue'
  <2>1. \A i \in 1 .. Len(events') : i + 1 \in 1 .. Len(events)
    BY <1>2
  <2> QED BY <1>1, <1>2, <2>1 DEF EventsAreTrue
<1>4. submit \in [Own -> {"idle", "sending", "waiting", "watching", "done"}]
  BY DEF TrackTypes
<1> HIDE DEF e
<1>5. e.goal \in Goals /\ e.status \in {"RUNNING"} \cup Verdicts
  BY <1>2 DEF TaskEvents
<1>6. ASSUME ours
      PROVE  e.goal \in Own /\ goal[e.goal] \in Known
             /\ (e.status \in Terminal => goal[e.goal] \in Over)
  <2>1. e.goal \in Own
    <3>1. CASE Adopts(e)
      <4>1. active \in [goal : Own, status : Statuses]
        BY <3>1 DEF Adopts, RecordsAreOwn, NoTask
      <4> QED BY <3>1, <4>1, <1>5 DEF Adopts, NoTwins
    <3>2. CASE e.goal \in owned
      BY <3>2 DEF RecordsAreOwn
    <3> QED BY <1>6, <3>1, <3>2
  <2> QED BY <1>2, <2>1 DEF EventsAreTrue
<1>7. owned' \subseteq Own
  BY <1>1, <1>6 DEF _on_task_event, RecordsAreOwn
<1>8. CASE ~ours
  <2>1. active' = active
    BY <1>1, <1>8 DEF _on_task_event
  <2> QED BY <1>1, <1>2, <1>3, <1>7, <2>1 DEF TrackTypes, RecordsAreOwn,
            AnswersAreTrue, SubmissionIsRecorded, Answerless,
            OwnGoalIsTracked
<1>9. CASE ours
  <2>1. e.goal \in Own /\ goal[e.goal] \in Known
    BY <1>6, <1>9
  <2>2. submit[e.goal] \notin {"idle", "sending"} /\ goal[e.goal] # "refused"
    BY <2>1 DEF SubmissionIsRecorded, Known, Verdicts
  <2>3. CASE Live(active) /\ e.status \in Terminal
    <3>1. FinishTask(e.status)
      BY <1>1, <1>9, <2>3 DEF _on_task_event
    <3>2. goal[e.goal] \notin {"sent", "running"}
      BY <1>6, <1>9, <2>3 DEF Over, Verdicts
    <3>3. active.goal = e.goal
      BY <1>2, <2>1, <2>3 DEF NoOldNews
    <3> QED BY <1>1, <1>2, <1>3, <1>4, <1>7, <2>1, <2>2, <2>3, <3>1, <3>2,
               <3>3, RecordMayEnd
  <2>4. CASE ~(Live(active) /\ e.status \in Terminal)
    <3>1. active' = IF active.status \in {"ACCEPTING", "ACCEPTANCE_UNKNOWN",
                                          "RESULT_UNKNOWN"}
                    THEN [active EXCEPT !.status = e.status] ELSE active
      BY <1>1, <1>9, <2>4 DEF _on_task_event
    <3>2. CASE active.status \in {"ACCEPTING", "ACCEPTANCE_UNKNOWN",
                                  "RESULT_UNKNOWN"}
      <4>1. Live(active) /\ active \in [goal : Own, status : Statuses]
        BY <3>2 DEF Live, Terminal, Verdicts, RecordsAreOwn, NoTask
      <4>2. e.status = "RUNNING"
        BY <1>5, <2>4, <4>1 DEF Terminal
      <4>3. /\ active' \in [goal : Own, status : Statuses]
            /\ active'.goal = active.goal /\ Live(active')
        BY <3>1, <3>2, <4>1, <4>2 DEF Statuses, Live, Terminal, Verdicts
      <4> QED BY <1>1, <1>2, <1>3, <1>4, <1>7, <2>1, <4>3, RecordGoesOn
    <3>3. CASE active' = active
      <4>1. active' = NoTask \/ active' \in [goal : Own, status : Statuses]
        BY <3>3 DEF RecordsAreOwn
      <4> QED BY <1>1, <1>2, <1>3, <1>4, <1>7, <2>1, <3>3, <4>1,
                 RecordGoesOn
    <3> QED BY <3>1, <3>2, <3>3
  <2> QED BY <2>3, <2>4
<1> QED BY <1>8, <1>9

(* Manual control and the stop ask for cancellations, and no more.         *)
LEMMA OthersTrack ==
  ASSUME TrackInv,
         cancel_task \/ ReservationStep \/ ActionStep \/ TeleopStep
           \/ StopStep \/ UNCHANGED vars
  PROVE  TrackInv'
<1>1. CASE cancel_task
  BY <1>1, NothingTracked DEF cancel_task, server, tracking
<1>2. CASE ReservationStep
  BY <1>2, NothingTracked DEF ReservationStep, ServeReservation,
     ReservationTimeout, tasks, tracks, tracking
<1>3. CASE ActionStep
  BY <1>3, NothingTracked DEF ActionStep, BeginAction, ActionSend,
     ActionAnswered, ActionTimeout, ActionCancel, ActionEnds,
     ActionUnproven, tasks, tracks, tracking
<1>4. CASE TeleopStep
  BY <1>4, NothingTracked DEF TeleopStep, ClaimTeleop, CommandTeleop,
     EndTeleop, tasks, tracks, tracking
<1>5. CASE StopStep
  BY <1>5, NothingTracked DEF StopStep, ServeStop, StopTimeout,
     _on_drive_stop_latched, BeginClear, BeginHalt, HaltDrains, HaltAnswers,
     HaltGivesUp, tasks, tracks, server, tracking
<1>6. CASE UNCHANGED vars
  BY <1>6, NothingTracked DEF vars, tracks, tracking
<1> QED BY <1>1, <1>2, <1>3, <1>4, <1>5, <1>6

LEMMA StepKeepsTracking ==
  ASSUME TrackInv, NoTwins, NoOldNews, [Next]_vars
  PROVE  TrackInv'
<1>1. ASSUME NEW g \in Goals, ServerStep(g) PROVE TrackInv'
  BY <1>1, ServerTracks
<1>2. ASSUME NEW g \in Own, SubmitStep(g) PROVE TrackInv'
  BY <1>2, SubmitTracks
<1>3. CASE DeliverEvent
  BY <1>3, EventTracks
<1> QED BY <1>1, <1>2, <1>3, OthersTrack DEF Next

LEMMA TrackingBegins ==
  ASSUME Init
  PROVE  TrackInv
<1>1. TrackTypes
  BY DEF Init, TrackTypes, GoalStates
<1>2. RecordsAreOwn
  BY DEF Init, RecordsAreOwn
<1>3. EventsAreTrue
  BY DEF Init, EventsAreTrue
<1>4. AnswersAreTrue
  BY DEF Init, AnswersAreTrue, Verdicts
<1>5. SubmissionIsRecorded
  BY GoalsAssumption DEF Init, SubmissionIsRecorded, Answerless
<1>6. OwnGoalIsTracked
  BY GoalsAssumption DEF Init, OwnGoalIsTracked
<1> QED BY <1>1, <1>2, <1>3, <1>4, <1>5, <1>6 DEF TrackInv

(* The only goal of a console has no earlier one.                          *)
LEMMA NoNewsIsOld ==
  ASSUME TrackInv, \A g, h \in Own : g = h
  PROVE  NoOldNews
<1> SUFFICES ASSUME Live(active), NEW g \in Own \ {active.goal} PROVE FALSE
  BY DEF NoOldNews
<1>1. active \in [goal : Own, status : Statuses]
  BY DEF TrackInv, RecordsAreOwn, Live, NoTask, Terminal
<1> QED BY <1>1

(* Every goal of the console is tracked until the server has ended it,     *)
(* whatever the other clients do, and whichever of response, events and    *)
(* result are lost or late: for any number of goals, as long as a task is  *)
(* submitted only when the news of the end of those before has arrived.    *)
THEOREM OwnGoalsTrackedGivenNews ==
  ASSUME NoTwins
  PROVE  Spec /\ []NoOldNews => []OwnGoalIsTracked
<1>1. Init => TrackInv
  BY TrackingBegins
<1>2. TrackInv /\ NoOldNews /\ [Next]_vars => TrackInv'
  BY StepKeepsTracking
<1>3. TrackInv => OwnGoalIsTracked
  BY DEF TrackInv
<1> QED BY <1>1, <1>2, <1>3, PTL DEF Spec

(* For one goal of the console the assumption holds by itself.             *)
THEOREM OwnGoalStaysTracked ==
  ASSUME NoTwins, \A g, h \in Own : g = h
  PROVE  Spec => []OwnGoalIsTracked
<1>1. Init => TrackInv
  BY TrackingBegins
<1>2. TrackInv /\ [Next]_vars => TrackInv'
  BY StepKeepsTracking, NoNewsIsOld
<1>3. TrackInv => OwnGoalIsTracked
  BY DEF TrackInv
<1> QED BY <1>1, <1>2, <1>3, PTL DEF Spec

-----------------------------------------------------------------------------
(* The answer of the stop *)

(* The places of the two owners that move the robot.  Unlike MInv this     *)
(* needs no assumption on clearing: a release that comes too late takes    *)
(* the reservation from an owner, never its place.                         *)
PlaceTypes ==
  /\ calls \in Seq(CallSet)
  /\ pc \in [Owners -> {"idle", "acquire", "held", "accepting", "running",
                        "release", "relatch", "rerelease", "stuck"}]

MotionPlaced ==
  /\ moving => pc["teleop"] = "held"
  /\ Moves(device) => pc["action"] \in {"accepting", "running", "stuck"}

(* An answer can only reach the mover that waits for it.                   *)
MoverCallsPlaced ==
  /\ \A i \in Indices : calls[i].who \in Movers =>
       pc[calls[i].who] \in {"acquire", "release"}
  /\ \A i, j \in Indices :
       calls[i].who \in Movers /\ calls[i].who = calls[j].who => i = j

(* Only the stop itself and a clearing call the stop.                      *)
StopCalls == [want : {"latched", "clear"}, who : {"nobody", "halt", "clear"}]

StopCallers == stops \in Seq(StopCalls)

PlaceInv == PlaceTypes /\ MotionPlaced /\ MoverCallsPlaced

(* Queue and places alone.                                                 *)
LEMMA PlacesStay ==
  ASSUME PlaceInv, UNCHANGED <<calls, pc>>, MotionPlaced'
  PROVE  PlaceInv'
BY DEF PlaceInv, PlaceTypes, MoverCallsPlaced, Indices

(* An owner that awaits no answer goes on.                                 *)
LEMMA OwnerGoesOn ==
  ASSUME PlaceInv, NEW o \in Owners,
         NEW p \in {"idle", "acquire", "held", "accepting", "running",
                    "release", "relatch", "rerelease", "stuck"},
         o \in Movers => pc[o] \notin {"acquire", "release"},
         pc' = [pc EXCEPT ![o] = p], calls' = calls, MotionPlaced'
  PROVE  PlaceInv'
<1>1. /\ pc' \in [Owners -> {"idle", "acquire", "held", "accepting",
                            "running", "release", "relatch", "rerelease",
                            "stuck"}]
      /\ \A q \in Owners : q # o => pc'[q] = pc[q]
  BY DEF PlaceInv, PlaceTypes
<1>2. Movers \subseteq Owners
  BY DEF Movers, Owners
<1> QED BY <1>1, <1>2 DEF PlaceInv, PlaceTypes, MoverCallsPlaced, Indices

(* ... or asks, and waits.                                                 *)
LEMMA OwnerAsks ==
  ASSUME PlaceInv, NEW o \in Owners, NEW want \in BOOLEAN,
         NEW p \in {"acquire", "release", "rerelease"},
         o \in Movers => /\ pc[o] \notin {"acquire", "release"}
                         /\ p \in {"acquire", "release"},
         pc' = [pc EXCEPT ![o] = p], Reserve(o, want), MotionPlaced'
  PROVE  PlaceInv'
<1> DEFINE c == [want |-> want, who |-> o]
<1>1. c \in CallSet /\ calls \in Seq(CallSet) /\ calls' = Append(calls, c)
  BY DEF CallSet, PlaceInv, PlaceTypes, Reserve
<1>2. /\ calls' \in Seq(CallSet)
      /\ Len(calls) \in Nat /\ Len(calls') = Len(calls) + 1
      /\ \A i \in 1 .. Len(calls) : calls'[i] = calls[i]
      /\ calls'[Len(calls) + 1] = c
  BY <1>1, CallJoins
<1>3. /\ pc' \in [Owners -> {"idle", "acquire", "held", "accepting",
                            "running", "release", "relatch", "rerelease",
                            "stuck"}]
      /\ pc'[o] = p
      /\ \A q \in Owners : q # o => pc'[q] = pc[q]
  BY DEF PlaceInv, PlaceTypes
<1>4. c.who = o /\ Movers \subseteq Owners
  BY DEF Movers, Owners
<1> HIDE DEF c
<1>5. o \in Movers => \A i \in 1 .. Len(calls) : calls[i].who # o
  BY DEF PlaceInv, MoverCallsPlaced, Indices
<1>6. MoverCallsPlaced'
  <2>1. ASSUME NEW i \in 1 .. Len(calls'), calls'[i].who \in Movers
        PROVE  pc'[calls'[i].who] \in {"acquire", "release"}
    <3>1. CASE i \in 1 .. Len(calls)
      BY <1>2, <1>3, <1>4, <1>5, <2>1, <3>1
         DEF PlaceInv, MoverCallsPlaced, Indices
    <3>2. CASE i = Len(calls) + 1
      BY <1>2, <1>3, <1>4, <2>1, <3>2
    <3> QED BY <1>2, <3>1, <3>2
  <2>2. ASSUME NEW i \in 1 .. Len(calls'), NEW j \in 1 .. Len(calls'),
               calls'[i].who \in Movers, calls'[i].who = calls'[j].who
        PROVE  i = j
    <3>1. CASE i \in 1 .. Len(calls) /\ j \in 1 .. Len(calls)
      BY <1>2, <2>2, <3>1 DEF PlaceInv, MoverCallsPlaced, Indices
    <3>2. CASE i = Len(calls) + 1
      BY <1>2, <1>4, <1>5, <2>2, <3>2
    <3>3. CASE j = Len(calls) + 1
      BY <1>2, <1>4, <1>5, <2>2, <3>3
    <3> QED BY <1>2, <3>1, <3>2, <3>3
  <2> QED BY <2>1, <2>2 DEF MoverCallsPlaced, Indices
<1> QED BY <1>2, <1>3, <1>6 DEF PlaceInv, PlaceTypes

(* The owner of the call that leaves the queue goes to p, and no other     *)
(* call is of that owner: f says where each call was.                      *)
LEMMA WaiterLeaves ==
  ASSUME PlaceInv, NEW i \in 1 .. Len(calls), NEW f,
         calls' \in Seq(CallSet),
         f \in [1 .. Len(calls') -> 1 .. Len(calls)],
         \A k \in 1 .. Len(calls') :
           /\ f[k] = i => calls'[k].who = "nobody"
           /\ f[k] # i => calls'[k].who = calls[f[k]].who,
         \A j, k \in 1 .. Len(calls') : f[j] = f[k] => j = k,
         NEW p \in {"idle", "held", "relatch", "stuck"},
         \/ calls[i].who \in Owners /\ pc' = [pc EXCEPT ![calls[i].who] = p]
         \/ calls[i].who = "nobody" /\ pc' = pc,
         UNCHANGED <<moving, device>>
  PROVE  PlaceInv'
<1> DEFINE o == calls[i].who
<1>1. /\ pc' \in [Owners -> {"idle", "acquire", "held", "accepting",
                            "running", "release", "relatch", "rerelease",
                            "stuck"}]
      /\ \A q \in Owners : q # o => pc'[q] = pc[q]
  BY DEF PlaceInv, PlaceTypes, Owners
<1>2. "nobody" \notin Movers /\ Movers \subseteq Owners
  BY DEF Movers, Owners
<1>3. o \in Movers => pc[o] \in {"acquire", "release"}
  BY DEF PlaceInv, MoverCallsPlaced, Indices
<1>4. MotionPlaced'
  <2>1. pc["teleop"] = "held" => pc'["teleop"] = "held"
    BY <1>1, <1>3 DEF Movers, Owners
  <2>2. pc["action"] \in {"accepting", "running", "stuck"} =>
          pc'["action"] = pc["action"]
    BY <1>1, <1>3 DEF Movers, Owners
  <2> QED BY <2>1, <2>2 DEF PlaceInv, MotionPlaced
<1>5. ASSUME NEW k \in 1 .. Len(calls'), calls'[k].who \in Movers
      PROVE  /\ f[k] \in 1 .. Len(calls) /\ f[k] # i
             /\ calls'[k].who = calls[f[k]].who /\ calls'[k].who # o
  <2>1. f[k] \in 1 .. Len(calls) /\ f[k] # i
    BY <1>2, <1>5
  <2>2. calls'[k].who = calls[f[k]].who
    BY <2>1
  <2> QED BY <1>5, <2>1, <2>2 DEF PlaceInv, MoverCallsPlaced, Indices
<1>6. MoverCallsPlaced'
  <2>1. ASSUME NEW k \in 1 .. Len(calls'), calls'[k].who \in Movers
        PROVE  pc'[calls'[k].who] \in {"acquire", "release"}
    BY <1>1, <1>2, <1>5, <2>1 DEF PlaceInv, MoverCallsPlaced, Indices
  <2>2. ASSUME NEW j \in 1 .. Len(calls'), NEW k \in 1 .. Len(calls'),
               calls'[j].who \in Movers, calls'[j].who = calls'[k].who
        PROVE  j = k
    <3>1. /\ f[j] \in Indices /\ f[k] \in Indices
          /\ calls[f[j]].who \in Movers /\ calls[f[j]].who = calls[f[k]].who
      BY <1>5, <2>2 DEF Indices
    <3>2. f[j] = f[k]
      BY <3>1, Zenon DEF PlaceInv, MoverCallsPlaced
    <3> QED BY <3>2
  <2> QED BY <2>1, <2>2 DEF MoverCallsPlaced, Indices
<1> QED BY <1>1, <1>4, <1>6 DEF PlaceInv, PlaceTypes

LEMMA PlacesOfCalls ==
  ASSUME PlaceInv
  PROVE  /\ calls \in Seq(CallSet) /\ Len(calls) \in Nat
         /\ \A i \in 1 .. Len(calls) :
              calls[i].want \in BOOLEAN
              /\ calls[i].who \in Owners \cup {"nobody"}
<1>1. calls \in Seq(CallSet)
  BY DEF PlaceInv, PlaceTypes
<1>2. Len(calls) \in Nat /\ \A i \in 1 .. Len(calls) : calls[i] \in CallSet
  BY <1>1
<1> QED BY <1>1, <1>2 DEF CallSet

LEMMA ReservationPlaces ==
  ASSUME PlaceInv, ReservationStep
  PROVE  PlaceInv'
<1>m. UNCHANGED <<moving, device>>
  BY DEF ReservationStep, ServeReservation, ReservationTimeout
<1>1. CASE ServeReservation
  <2> DEFINE c == Head(calls)
             granted == c.want => ~Busy /\ ~reserved
             f == [k \in 1 .. Len(calls') |-> k + 1]
  <2>1. /\ calls # << >> /\ calls' = Tail(calls)
        /\ IF c.who = "nobody" THEN UNCHANGED <<pc, preempt>>
           ELSE IF c.want /\ granted
           THEN Goto(c.who, "held") /\ UNCHANGED preempt
           ELSE Leave(c.who)
    BY <1>1 DEF ServeReservation
  <2>2. /\ calls' \in Seq(CallSet) /\ c = calls[1]
        /\ Len(calls) \in Nat /\ 1 \in 1 .. Len(calls)
        /\ Len(calls') = Len(calls) - 1 /\ Len(calls') \in Nat
        /\ \A i \in 1 .. Len(calls') : calls'[i] = calls[i + 1]
    BY <2>1, CallServed, PlacesOfCalls
  <2>3. c.who \in Owners \cup {"nobody"}
    BY <2>2, PlacesOfCalls
  <2>4. PICK p \in {"idle", "held", "relatch", "stuck"} :
          \/ c.who \in Owners /\ pc' = [pc EXCEPT ![c.who] = p]
          \/ c.who = "nobody" /\ pc' = pc
    <3>1. CASE c.who = "nobody"
      BY <2>1, <3>1
    <3>2. CASE c.who # "nobody" /\ c.want /\ granted
      <4>1. pc' = [pc EXCEPT ![c.who] = "held"]
        BY <2>1, <3>2 DEF Goto
      <4> QED BY <2>3, <3>2, <4>1
    <3>3. CASE c.who # "nobody" /\ ~(c.want /\ granted)
      <4>1. pc' = [pc EXCEPT ![c.who] = "idle"]
        BY <2>1, <3>3 DEF Leave, Goto
      <4> QED BY <2>3, <3>3, <4>1
    <3> QED BY <3>1, <3>2, <3>3
  <2>5. /\ f \in [1 .. Len(calls') -> 1 .. Len(calls)]
        /\ \A k \in 1 .. Len(calls') :
             f[k] = k + 1 /\ f[k] # 1 /\ calls'[k].who = calls[f[k]].who
        /\ \A j, k \in 1 .. Len(calls') : f[j] = f[k] => j = k
    BY <2>2
  <2>6. \A k \in 1 .. Len(calls') :
          /\ f[k] = 1 => calls'[k].who = "nobody"
          /\ f[k] # 1 => calls'[k].who = calls[f[k]].who
    BY <2>5
  <2>7. \/ calls[1].who \in Owners /\ pc' = [pc EXCEPT ![calls[1].who] = p]
        \/ calls[1].who = "nobody" /\ pc' = pc
    BY <2>2, <2>4
  <2>8. calls' \in Seq(CallSet) /\ 1 \in 1 .. Len(calls)
    BY <2>2
  <2>9. /\ f \in [1 .. Len(calls') -> 1 .. Len(calls)]
        /\ \A j, k \in 1 .. Len(calls') : f[j] = f[k] => j = k
    BY <2>5
  <2> HIDE DEF f, c, granted
  <2> QED BY <1>m, <2>6, <2>7, <2>8, <2>9, WaiterLeaves
<1>2. CASE ReservationTimeout
  <2>1. PICK i \in 1 .. Len(calls) :
          LET c == calls[i]
          IN  /\ c.who # "nobody"
              /\ \/ calls' = [calls EXCEPT ![i].who = "nobody"]
                 \/ calls' = SubSeq(calls, 1, i - 1)
                               \o SubSeq(calls, i + 1, Len(calls))
              /\ IF c.want \/ pc[c.who] = "rerelease"
                 THEN Leave(c.who) /\ UNCHANGED stops
                 ELSE /\ UNCHANGED preempt
                      /\ IF c.who = "clear"
                         THEN Goto("clear", "relatch")
                              /\ CallStop("clear", "latched")
                         ELSE Goto(c.who, "stuck") /\ UNCHANGED stops
    BY <1>2 DEF ReservationTimeout
  <2>2. PICK f : Kept(i, f)
    BY <2>1, GivenUpKeeps, PlacesOfCalls
  <2>3. calls[i].who \in Owners
    BY <2>1, PlacesOfCalls
  <2>4. PICK p \in {"idle", "held", "relatch", "stuck"} :
          pc' = [pc EXCEPT ![calls[i].who] = p]
    <3>1. CASE calls[i].want \/ pc[calls[i].who] = "rerelease"
      BY <2>1, <3>1 DEF Leave, Goto
    <3>2. CASE ~(calls[i].want \/ pc[calls[i].who] = "rerelease")
      BY <2>1, <3>2 DEF Goto
    <3> QED BY <3>1, <3>2
  <2>5. /\ calls' \in Seq(CallSet)
        /\ f \in [1 .. Len(calls') -> 1 .. Len(calls)]
        /\ \A k \in 1 .. Len(calls') :
             /\ f[k] = i => calls'[k].who = "nobody"
             /\ f[k] # i => calls'[k].who = calls[f[k]].who
        /\ \A j, k \in 1 .. Len(calls') : f[j] = f[k] => j = k
    BY <2>2 DEF Kept
  <2> QED BY <1>m, <2>3, <2>4, <2>5, WaiterLeaves, Zenon
<1> QED BY <1>1, <1>2 DEF ReservationStep

LEMMA ActionPlaces ==
  ASSUME PlaceInv, ActionStep
  PROVE  PlaceInv'
<1> USE DEF PlaceInv, MotionPlaced
<1>o. "action" \in Owners /\ "action" \in Movers /\ "teleop" \in Owners
  BY DEF Owners, Movers
<1>p. pc \in [Owners -> {"idle", "acquire", "held", "accepting", "running",
                         "release", "relatch", "rerelease", "stuck"}]
  BY DEF PlaceTypes
<1>m. moving' = moving
  BY DEF ActionStep, BeginAction, ActionSend, ActionAnswered, ActionTimeout,
         ActionCancel, ActionEnds, ActionUnproven
<1>1. CASE BeginAction
  <2>1. /\ pc["action"] = "idle" /\ pc' = [pc EXCEPT !["action"] = "acquire"]
        /\ Reserve("action", TRUE) /\ ~Moves(device')
    BY <1>1 DEF BeginAction, action_active, Goto, Moves
  <2>2. MotionPlaced'
    BY <1>o, <1>p, <1>m, <2>1
  <2> QED BY <1>o, <2>1, <2>2, OwnerAsks
<1>2. CASE ActionSend
  <2>1. pc["action"] = "held"
    BY <1>2 DEF ActionSend
  <2>2. CASE Goto("action", "accepting") /\ UNCHANGED calls
    <3>1. pc' = [pc EXCEPT !["action"] = "accepting"]
      BY <2>2 DEF Goto
    <3>2. MotionPlaced'
      BY <1>o, <1>p, <1>m, <3>1
    <3> QED BY <1>o, <2>1, <2>2, <3>1, <3>2, OwnerGoesOn
  <2>3. CASE ReleaseAction /\ UNCHANGED device
    <3>1. /\ pc' = [pc EXCEPT !["action"] = "release"]
          /\ Reserve("action", FALSE)
      BY <2>3 DEF ReleaseAction, Goto
    <3>2. MotionPlaced'
      BY <1>o, <1>p, <1>m, <2>1, <2>3, <3>1
    <3> QED BY <1>o, <2>1, <3>1, <3>2, OwnerAsks
  <2> QED BY <1>2, <2>2, <2>3 DEF ActionSend
<1>3. CASE ActionAnswered
  <2>1. Moves(device) /\ device' \in {"live", "refused"}
    BY <1>3 DEF ActionAnswered, Moves
  <2>2. CASE UNCHANGED <<pc, calls>>
    <3>1. MotionPlaced'
      BY <1>m, <2>1, <2>2
    <3> QED BY <2>2, <3>1, PlacesStay
  <2>3. CASE pc["action"] = "accepting" /\ device' = "live"
    <3>1. pc' = [pc EXCEPT !["action"] = "running"] /\ UNCHANGED calls
      BY <1>3, <2>3 DEF ActionAnswered, Goto
    <3>2. MotionPlaced'
      BY <1>o, <1>p, <1>m, <3>1
    <3> QED BY <1>o, <2>3, <3>1, <3>2, OwnerGoesOn
  <2>4. CASE pc["action"] = "accepting" /\ device' = "refused"
    <3>1. /\ pc' = [pc EXCEPT !["action"] = "release"]
          /\ Reserve("action", FALSE)
      BY <1>3, <2>4 DEF ActionAnswered, ReleaseAction, Goto
    <3>2. MotionPlaced'
      BY <1>o, <1>p, <1>m, <2>4, <3>1 DEF Moves
    <3> QED BY <1>o, <2>4, <3>1, <3>2, OwnerAsks
  <2> QED BY <1>3, <2>1, <2>2, <2>3, <2>4 DEF ActionAnswered
<1>4. CASE ActionTimeout
  <2>1. UNCHANGED <<calls, pc, device>>
    BY <1>4 DEF ActionTimeout
  <2>2. MotionPlaced'
    BY <1>m, <2>1
  <2> QED BY <2>1, <2>2, PlacesStay
<1>5. CASE ActionCancel
  <2>1. UNCHANGED <<calls, pc>> /\ Moves(device)
    BY <1>5 DEF ActionCancel, Moves
  <2>2. MotionPlaced'
    BY <1>m, <2>1
  <2> QED BY <2>1, <2>2, PlacesStay
<1>6. CASE ActionEnds
  <2>1. ~Moves(device')
    BY <1>6 DEF ActionEnds, Moves
  <2>2. CASE UNCHANGED <<pc, calls>>
    <3>1. MotionPlaced'
      BY <1>m, <2>1, <2>2
    <3> QED BY <2>2, <3>1, PlacesStay
  <2>3. CASE pc["action"] = "running" /\ ReleaseAction
    <3>1. /\ pc' = [pc EXCEPT !["action"] = "release"]
          /\ Reserve("action", FALSE)
      BY <2>3 DEF ReleaseAction, Goto
    <3>2. MotionPlaced'
      BY <1>o, <1>p, <1>m, <2>1, <3>1
    <3> QED BY <1>o, <2>3, <3>1, <3>2, OwnerAsks
  <2> QED BY <1>6, <2>2, <2>3 DEF ActionEnds
<1>7. CASE ActionUnproven
  <2>1. /\ pc["action"] \in {"accepting", "running"}
        /\ pc' = [pc EXCEPT !["action"] = "stuck"]
        /\ UNCHANGED <<calls, device>>
    BY <1>7 DEF ActionUnproven, Goto
  <2>2. MotionPlaced'
    BY <1>o, <1>p, <1>m, <2>1
  <2> QED BY <1>o, <2>1, <2>2, OwnerGoesOn
<1> QED BY <1>1, <1>2, <1>3, <1>4, <1>5, <1>6, <1>7 DEF ActionStep

LEMMA TeleopPlaces ==
  ASSUME PlaceInv, TeleopStep
  PROVE  PlaceInv'
<1> USE DEF PlaceInv, MotionPlaced
<1>o. "teleop" \in Owners /\ "teleop" \in Movers /\ "action" \in Owners
  BY DEF Owners, Movers
<1>p. pc \in [Owners -> {"idle", "acquire", "held", "accepting", "running",
                         "release", "relatch", "rerelease", "stuck"}]
  BY DEF PlaceTypes
<1>d. device' = device
  BY DEF TeleopStep, ClaimTeleop, CommandTeleop, EndTeleop
<1>1. CASE ClaimTeleop
  <2>1. /\ pc["teleop"] = "idle" /\ pc' = [pc EXCEPT !["teleop"] = "acquire"]
        /\ Reserve("teleop", TRUE) /\ moving' = moving
    BY <1>1 DEF ClaimTeleop, teleop_active, Goto
  <2>2. MotionPlaced'
    BY <1>o, <1>p, <1>d, <2>1
  <2> QED BY <1>o, <2>1, <2>2, OwnerAsks
<1>2. CASE pc["teleop"] = "held" /\ LeaveTeleop
  <2>1. /\ pc' = [pc EXCEPT !["teleop"] = "release"] /\ moving' = FALSE
        /\ Reserve("teleop", FALSE)
    BY <1>2 DEF LeaveTeleop, Goto
  <2>2. MotionPlaced'
    BY <1>o, <1>p, <1>d, <2>1
  <2> QED BY <1>o, <1>2, <2>1, <2>2, OwnerAsks
<1>3. CASE pc["teleop"] = "held" /\ UNCHANGED <<pc, calls>>
  <2>1. MotionPlaced'
    BY <1>d, <1>3
  <2> QED BY <1>3, <2>1, PlacesStay
<1> QED BY <1>1, <1>2, <1>3 DEF TeleopStep, CommandTeleop, EndTeleop

LEMMA StopCallerJoins ==
  ASSUME StopCallers, NEW want \in {"latched", "clear"},
         NEW who \in {"halt", "clear"}, CallStop(who, want)
  PROVE  StopCallers'
<1> DEFINE c == [want |-> want, who |-> who]
<1>1. c \in StopCalls
  BY DEF StopCalls
<1> HIDE DEF c
<1> QED BY <1>1 DEF StopCallers, CallStop, c

LEMMA StopCallerGivesUp ==
  ASSUME StopCallers, NEW i \in 1 .. Len(stops)
  PROVE  [stops EXCEPT ![i].who = "nobody"] \in Seq(StopCalls)
<1> DEFINE given == [stops EXCEPT ![i].who = "nobody"]
<1>1. stops[i] \in StopCalls /\ Len(stops) \in Nat
  BY DEF StopCallers
<1>2. given[i] = [stops[i] EXCEPT !.who = "nobody"]
  BY DEF StopCallers
<1>3. given[i] \in StopCalls
  BY <1>1, <1>2 DEF StopCalls
<1>4. Len(given) = Len(stops) /\ DOMAIN given = DOMAIN stops
  BY DEF StopCallers
<1>5. \A k \in 1 .. Len(stops) : k # i => given[k] = stops[k]
  BY DEF StopCallers
<1> QED BY <1>1, <1>3, <1>4, <1>5 DEF StopCallers

LEMMA StopCallersStay ==
  ASSUME StopCallers, [Next]_vars
  PROVE  StopCallers'
<1> USE DEF StopCallers
<1>1. CASE UNCHANGED stops
  BY <1>1
<1>2. CASE CallStop("halt", "latched") \/ CallStop("clear", "latched")
             \/ CallStop("clear", "clear")
  BY <1>2, StopCallerJoins
<1>3. CASE ServeStop
  BY <1>3 DEF ServeStop
<1>4. CASE StopTimeout
  <2>1. PICK i \in 1 .. Len(stops) :
          LET given == [stops EXCEPT ![i].who = "nobody"]
          IN  \/ stops' = given
              \/ stops' = Append(given, [want |-> "latched",
                                         who |-> "clear"])
    BY <1>4 DEF StopTimeout
  <2>2. [want |-> "latched", who |-> "clear"] \in StopCalls
    BY DEF StopCalls
  <2> DEFINE given == [stops EXCEPT ![i].who = "nobody"]
  <2>3. given \in Seq(StopCalls)
    BY StopCallerGivesUp
  <2> HIDE DEF given
  <2>4. Append(given, [want |-> "latched", who |-> "clear"])
          \in Seq(StopCalls)
    BY <2>2, <2>3
  <2> QED BY <2>1, <2>3, <2>4 DEF given
<1>5. ASSUME NEW g \in Goals, ServerStep(g) PROVE UNCHANGED stops
  BY <1>5 DEF ServerStep, Admit, Refuse, ServeCancel, Finish, Close, drive
<1>6. ASSUME NEW g \in Own, SubmitStep(g) PROVE UNCHANGED stops
  BY <1>6 DEF SubmitStep, Submit, SendGoal, LoseReply, AcceptTimeout, Resume,
              _on_task_result, drive
<1>7. DeliverEvent \/ cancel_task => UNCHANGED stops
  BY DEF DeliverEvent, cancel_task, drive
<1>8. ReservationStep => \/ UNCHANGED stops
                         \/ CallStop("clear", "clear")
                         \/ CallStop("clear", "latched")
  BY DEF ReservationStep, ServeReservation, ReservationTimeout
<1>9. ActionStep \/ TeleopStep => UNCHANGED stops
  BY DEF ActionStep, BeginAction, ActionSend, ActionAnswered, ActionTimeout,
         ActionCancel, ActionEnds, ActionUnproven, TeleopStep, ClaimTeleop,
         CommandTeleop, EndTeleop, drive
<1>10. StopStep => \/ ServeStop \/ StopTimeout \/ UNCHANGED stops
                   \/ CallStop("halt", "latched")
  BY DEF StopStep, _on_drive_stop_latched, BeginClear, BeginHalt, HaltDrains,
         HaltAnswers, HaltGivesUp, drive
<1>11. UNCHANGED vars => UNCHANGED stops
  BY DEF vars
<1> QED BY <1>1, <1>2, <1>3, <1>4, <1>5, <1>6, <1>7, <1>8, <1>9, <1>10,
           <1>11, Zenon DEF Next

LEMMA StopPlaces ==
  ASSUME PlaceInv, StopCallers, StopStep
  PROVE  PlaceInv'
<1> USE DEF PlaceInv, MotionPlaced
<1>o. /\ "clear" \in Owners /\ "clear" \notin Movers
      /\ "teleop" \in Owners /\ "teleop" \in Movers /\ "action" \in Owners
  BY DEF Owners, Movers
<1>p. pc \in [Owners -> {"idle", "acquire", "held", "accepting", "running",
                         "release", "relatch", "rerelease", "stuck"}]
  BY DEF PlaceTypes
<1>s. stops # << >> => Head(stops).who \in {"nobody", "halt", "clear"}
  <2>1. stops # << >> => Head(stops) \in StopCalls
    BY DEF StopCallers
  <2> QED BY <2>1 DEF StopCalls
<1>m. device' = device /\ (moving' => moving)
  <2>1. ServeStop => UNCHANGED device /\ (moving' => moving)
    BY <1>s DEF ServeStop
  <2>2. \/ StopTimeout \/ _on_drive_stop_latched \/ BeginClear \/ BeginHalt
        \/ HaltDrains \/ HaltAnswers \/ HaltGivesUp
        => UNCHANGED <<device, moving>>
    BY DEF StopTimeout, _on_drive_stop_latched, BeginClear, BeginHalt,
           HaltDrains, HaltAnswers, HaltGivesUp, manual
  <2> QED BY <2>1, <2>2 DEF StopStep
<1>1. ASSUME NEW p \in {"acquire", "release", "rerelease"},
             NEW want \in BOOLEAN, Goto("clear", p), Reserve("clear", want)
      PROVE  PlaceInv'
  <2>1. pc' = [pc EXCEPT !["clear"] = p]
    BY <1>1 DEF Goto
  <2>2. MotionPlaced'
    BY <1>o, <1>p, <1>m, <2>1
  <2> QED BY <1>o, <1>1, <2>1, <2>2, OwnerAsks
<1>2. CASE Goto("clear", "relatch") /\ UNCHANGED calls
  <2>1. pc' = [pc EXCEPT !["clear"] = "relatch"]
    BY <1>2 DEF Goto
  <2>2. MotionPlaced'
    BY <1>o, <1>p, <1>m, <2>1
  <2> QED BY <1>o, <1>2, <2>1, <2>2, OwnerGoesOn
<1>3. CASE /\ pc["teleop"] = "stuck"
           /\ Goto("teleop", "release") /\ Reserve("teleop", FALSE)
  <2>1. pc' = [pc EXCEPT !["teleop"] = "release"]
    BY <1>3 DEF Goto
  <2>2. MotionPlaced'
    BY <1>o, <1>p, <1>m, <1>3, <2>1
  <2> QED BY <1>o, <1>3, <2>1, <2>2, OwnerAsks
<1>4. CASE UNCHANGED <<pc, calls>>
  <2>1. MotionPlaced'
    BY <1>m, <1>4
  <2> QED BY <1>4, <2>1, PlacesStay
<1>5. CASE ServeStop
  <2>1. \/ UNCHANGED <<pc, calls>>
        \/ ReleaseClear("release") \/ ReleaseClear("rerelease")
    BY <1>5, <1>s DEF ServeStop
  <2> QED BY <1>1, <1>4, <2>1 DEF ReleaseClear
<1>6. CASE StopTimeout
  <2>1. \/ UNCHANGED <<pc, calls>>
        \/ ReleaseClear("rerelease")
        \/ Goto("clear", "relatch") /\ UNCHANGED calls
    BY <1>6 DEF StopTimeout
  <2> QED BY <1>1, <1>2, <1>4, <2>1 DEF ReleaseClear
<1>7. CASE BeginClear
  BY <1>1, <1>7 DEF BeginClear
<1>8. CASE _on_drive_stop_latched \/ BeginHalt \/ HaltAnswers \/ HaltGivesUp
  BY <1>4, <1>8 DEF _on_drive_stop_latched, BeginHalt, HaltAnswers,
                    HaltGivesUp, manual
<1>9. CASE HaltDrains
  BY <1>3, <1>4, <1>9 DEF HaltDrains
<1> QED BY <1>5, <1>6, <1>7, <1>8, <1>9 DEF StopStep

LEMMA TasksPlaces ==
  ASSUME PlaceInv, NEW g,
         (g \in Goals /\ ServerStep(g)) \/ (g \in Own /\ SubmitStep(g))
           \/ DeliverEvent \/ cancel_task \/ UNCHANGED vars
  PROVE  PlaceInv'
<1>1. UNCHANGED <<calls, pc, device>> /\ (moving' => moving)
  BY DEF ServerStep, Admit, Refuse, ServeCancel, Finish, Close, SubmitStep,
         Submit, SendGoal, LoseReply, AcceptTimeout, Resume, _on_task_result,
         DeliverEvent, cancel_task, vars, manual
<1>2. MotionPlaced'
  BY <1>1 DEF PlaceInv, MotionPlaced
<1> QED BY <1>1, <1>2, PlacesStay

LEMMA StepKeepsPlaces ==
  ASSUME PlaceInv, StopCallers, [Next]_vars
  PROVE  PlaceInv'
<1>1. ASSUME NEW g \in Goals, ServerStep(g) PROVE PlaceInv'
  BY <1>1, TasksPlaces
<1>2. ASSUME NEW g \in Own, SubmitStep(g) PROVE PlaceInv'
  BY <1>2, TasksPlaces
<1>3. CASE DeliverEvent \/ cancel_task \/ UNCHANGED vars
  BY <1>3, TasksPlaces
<1> QED BY <1>1, <1>2, <1>3, ReservationPlaces, ActionPlaces, TeleopPlaces,
           StopPlaces DEF Next

LEMMA PlacesBegin ==
  ASSUME Init
  PROVE  PlaceInv /\ StopCallers
<1>1. PlaceTypes
  BY DEF Init, PlaceTypes
<1>2. MotionPlaced
  BY DEF Init, MotionPlaced, Moves
<1>3. MoverCallsPlaced
  BY DEF Init, MoverCallsPlaced, Indices
<1>4. StopCallers
  BY DEF Init, StopCallers
<1> QED BY <1>1, <1>2, <1>3, <1>4 DEF PlaceInv

(* The stop answers from one place, where nothing is owned by manual       *)
(* control and nothing live is tracked.                                    *)
LEMMA OnlyHaltAnswers ==
  ASSUME [Next]_vars, StopCallers, halt' = "answered", halt # "answered"
  PROVE  HaltAnswers
<1>s. stops # << >> => Head(stops).who \in {"nobody", "halt", "clear"}
  <2>1. stops # << >> => Head(stops) \in StopCalls
    BY DEF StopCallers
  <2> QED BY <2>1 DEF StopCalls
<1>1. ASSUME NEW g \in Goals, ServerStep(g) PROVE UNCHANGED halt
  BY <1>1 DEF ServerStep, Admit, Refuse, ServeCancel, Finish, Close
<1>2. ASSUME NEW g \in Own, SubmitStep(g) PROVE UNCHANGED halt
  BY <1>2 DEF SubmitStep, Submit, SendGoal, LoseReply, AcceptTimeout, Resume,
              _on_task_result
<1>3. DeliverEvent \/ cancel_task \/ UNCHANGED vars => UNCHANGED halt
  BY DEF DeliverEvent, cancel_task, vars
<1>4. ReservationStep => UNCHANGED halt
  BY DEF ReservationStep, ServeReservation, ReservationTimeout
<1>5. ActionStep \/ TeleopStep => UNCHANGED halt
  BY DEF ActionStep, BeginAction, ActionSend, ActionAnswered, ActionTimeout,
         ActionCancel, ActionEnds, ActionUnproven, TeleopStep, ClaimTeleop,
         CommandTeleop, EndTeleop
<1>6. StopStep => HaltAnswers
  BY <1>s DEF StopStep, ServeStop, StopTimeout, _on_drive_stop_latched,
         BeginClear, BeginHalt, HaltDrains, HaltGivesUp
<1> QED BY <1>1, <1>2, <1>3, <1>4, <1>5, <1>6 DEF Next

LEMMA AnswerFindsNoMotion ==
  ASSUME PlaceInv, HaltAnswers
  PROVE  ~ManualMotion
<1>1. pc["action"] = "idle" /\ pc["teleop"] = "idle"
  BY DEF HaltAnswers, action_active, teleop_active
<1> QED BY <1>1 DEF PlaceInv, MotionPlaced, Moves, ManualMotion

(* Whatever was being accepted, timed out or released meanwhile, and       *)
(* however many goals the clients have: the stop answers that it has       *)
(* drained only where manual control can move nothing any more.            *)
THEOREM HaltDrainsMotion ==
  Spec => [][halt' = "answered" /\ halt # "answered" => ~ManualMotion]_vars
<1>1. Init => PlaceInv /\ StopCallers
  BY PlacesBegin
<1>2. PlaceInv /\ StopCallers /\ [Next]_vars => (PlaceInv /\ StopCallers)'
  BY StepKeepsPlaces, StopCallersStay
<1>3. PlaceInv /\ StopCallers /\ [Next]_vars =>
        [halt' = "answered" /\ halt # "answered" => ~ManualMotion]_vars
  BY OnlyHaltAnswers, AnswerFindsNoMotion
<1> QED BY <1>1, <1>2, <1>3, PTL DEF Spec

(* ... and where no goal of the console is left that may still run, as     *)
(* long as those goals are tracked.                                        *)
LEMMA AnswerFindsNoGoal ==
  ASSUME OwnGoalIsTracked, HaltAnswers
  PROVE  \A g \in Own : goal[g] \notin {"sent", "running"}
<1>1. ~Live(active)
  BY DEF HaltAnswers, task_active
<1> QED BY <1>1 DEF OwnGoalIsTracked

THEOREM HaltHasDrainedGivenNews ==
  ASSUME NoTwins
  PROVE  Spec /\ []NoOldNews => HaltDrainsEverything
<1> DEFINE I == PlaceInv /\ StopCallers
<1>1. Init => I
  BY PlacesBegin
<1>2. I /\ [Next]_vars => I'
  BY StepKeepsPlaces, StopCallersStay
<1>3. I /\ OwnGoalIsTracked /\ [Next]_vars =>
        [halt' = "answered" /\ halt # "answered" =>
           /\ ~ManualMotion
           /\ \A g \in Own : goal[g] \notin {"sent", "running"}]_vars
  BY OnlyHaltAnswers, AnswerFindsNoMotion, AnswerFindsNoGoal
<1>4. Spec /\ []NoOldNews => []OwnGoalIsTracked
  BY OwnGoalsTrackedGivenNews
<1> QED BY <1>1, <1>2, <1>3, <1>4, PTL DEF Spec, HaltDrainsEverything

THEOREM HaltHasDrained ==
  ASSUME NoTwins, \A g, h \in Own : g = h
  PROVE  Spec => HaltDrainsEverything
<1> DEFINE I == PlaceInv /\ StopCallers
<1>1. Init => I
  BY PlacesBegin
<1>2. I /\ [Next]_vars => I'
  BY StepKeepsPlaces, StopCallersStay
<1>3. I /\ OwnGoalIsTracked /\ [Next]_vars =>
        [halt' = "answered" /\ halt # "answered" =>
           /\ ~ManualMotion
           /\ \A g \in Own : goal[g] \notin {"sent", "running"}]_vars
  BY OnlyHaltAnswers, AnswerFindsNoMotion, AnswerFindsNoGoal
<1>4. Spec => []OwnGoalIsTracked
  BY OwnGoalStaysTracked
<1> QED BY <1>1, <1>2, <1>3, <1>4, PTL DEF Spec, HaltDrainsEverything

=============================================================================
