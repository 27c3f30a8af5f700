----------------------------- MODULE WebProofs ------------------------------
(***************************************************************************)
(* Proofs about the parts of the web application and its libraries: the    *)
(* timers of underscore, the requests of jQuery, the events and models of  *)
(* Backbone, and the history and pages of the application.                 *)
(*                                                                         *)
(* Each theorem is about the specification of one part by itself; the      *)
(* constants and variables of the parts are those that LibraryParts and    *)
(* WebParts declare, and the names they give to the ones of each part.     *)
(* What a theorem assumes of the constants is in its statement.            *)
(***************************************************************************)
EXTENDS LibraryParts, WebParts, SequenceLemmas

-----------------------------------------------------------------------------
(***************************************************************************)
(* Sequences and stacks.                                                   *)
(***************************************************************************)
(* The two parts of a stack that is not empty. *)
LEMMA StackSplit ==
  ASSUME NEW S, NEW s \in Seq(S), s # <<>>
  PROVE  Head(s) \in S /\ Tail(s) \in Seq(S) /\ s = <<Head(s)>> \o Tail(s)
OBVIOUS

(* An activation on top of a stack. *)
LEMMA RangePush ==
  ASSUME NEW S, NEW t \in Seq(S), NEW f \in S
  PROVE  <<f>> \o t \in Seq(S) /\ <<f>> \o t # <<>> /\ Range(<<f>> \o t) = {f} \cup Range(t)
<1>1. <<f>> \in Seq(S) /\ Len(<<f>>) = 1 /\ <<f>>[1] = f
  OBVIOUS
<1>2. Range(<<f>>) = {<<f>>[i] : i \in 1 .. 1}
  BY <1>1, RangeEquality
<1>3. \A i : i \in 1 .. 1 <=> i = 1
  OBVIOUS
<1>4. Range(<<f>>) = {f}
  <2>1. \A x : x \in Range(<<f>>) <=> \E i \in 1 .. 1 : x = <<f>>[i]
    BY <1>2
  <2>2. \A x : x \in Range(<<f>>) <=> x = f
    BY <1>1, <1>3, <2>1
  <2> QED BY <2>2
<1>5. Range(<<f>> \o t) = Range(<<f>>) \cup Range(t)
  BY <1>1, RangeConcatenation
<1>6. <<f>> \o t \in Seq(S) /\ <<f>> \o t # <<>>
  OBVIOUS
<1> QED BY <1>4, <1>5, <1>6

(* One element. *)
LEMMA SeqOne ==
  ASSUME NEW S, NEW x \in S
  PROVE  <<x>> \in Seq(S)
OBVIOUS

(* Two elements, one after the other. *)
LEMMA SeqTwo ==
  ASSUME NEW S, NEW x \in S, NEW y \in S
  PROVE  <<x, y>> = <<x>> \o <<y>>
<1>1. PICK s, t : s = <<x, y>> /\ t = <<x>> \o <<y>>
  OBVIOUS
<1>2. <<x>> \in Seq(S) /\ <<y>> \in Seq(S) /\ Len(<<x>>) = 1 /\ Len(<<y>>) = 1
      /\ <<x>>[1] = x /\ <<y>>[1] = y
  OBVIOUS
<1>3. s \in Seq(S) /\ Len(s) = 2 /\ s[1] = x /\ s[2] = y
  BY <1>1
<1>4. t \in Seq(S) /\ Len(t) = 2 /\ t[1] = x /\ t[2] = y
  BY <1>1, <1>2, ConcatProperties
<1>5. \A i : i \in 1 .. 2 <=> i = 1 \/ i = 2
  OBVIOUS
<1>6. \A i \in 1 .. Len(s) : s[i] = t[i]
  BY <1>3, <1>4, <1>5
<1> QED BY <1>1, <1>3, <1>4, <1>6, SeqEqual

(* Three elements, one after the other. *)
LEMMA SeqThree ==
  ASSUME NEW S, NEW x \in S, NEW y \in S, NEW z \in S
  PROVE  <<x, y, z>> = <<x>> \o <<y, z>>
<1>1. PICK s, t : s = <<x, y, z>> /\ t = <<x>> \o <<y, z>>
  OBVIOUS
<1>2. <<x>> \in Seq(S) /\ <<y, z>> \in Seq(S) /\ Len(<<x>>) = 1 /\ Len(<<y, z>>) = 2
      /\ <<x>>[1] = x /\ <<y, z>>[1] = y /\ <<y, z>>[2] = z
  OBVIOUS
<1>3. s \in Seq(S) /\ Len(s) = 3 /\ s[1] = x /\ s[2] = y /\ s[3] = z
  BY <1>1
<1>4. t \in Seq(S) /\ Len(t) = 3 /\ t[1] = x /\ t[2] = y /\ t[3] = z
  BY <1>1, <1>2, ConcatProperties
<1>5. \A i : i \in 1 .. 3 <=> i = 1 \/ i = 2 \/ i = 3
  OBVIOUS
<1>6. \A i \in 1 .. Len(s) : s[i] = t[i]
  BY <1>3, <1>4, <1>5
<1> QED BY <1>1, <1>3, <1>4, <1>6, SeqEqual

(* The elements of a sequence at some of its indexes, in their order, as   *)
(* the components define them.                                             *)
InOrder(I) == CHOOSE f \in [1 .. Cardinality(I) -> I] : \A i, j \in DOMAIN f : i < j => f[i] < f[j]
At(s, I) == [k \in 1 .. Cardinality(I) |-> s[InOrder(I)[k]]]

(* f lists the indexes I of s in their order, and r has what is there.     *)
Picks(f, n, I, s, r) == /\ n = Cardinality(I) /\ Increasing(f, n) /\ Range(f) = I
                        /\ Len(r) = n /\ \A k \in 1 .. n : r[k] = s[f[k]]

(* A part of a sequence is listed in its order, and nothing is left out.   *)
LEMMA PartInOrder ==
  ASSUME NEW S, NEW s \in Seq(S), NEW I \in SUBSET (1 .. Len(s))
  PROVE  /\ At(s, I) \in Seq(S)
         /\ \E n \in Nat : \E f \in [1 .. n -> I] : Picks(f, n, I, s, At(s, I))
<1>1. Len(s) \in Nat /\ I \in SUBSET Int
  OBVIOUS
<1>2. IsFiniteSet(I)
  <2>1. IsFiniteSet(1 .. Len(s))
    BY <1>1, FS_Interval
  <2> QED BY <2>1, FS_Subset
<1>3. PICK n \in Nat : n = Cardinality(I)
  BY <1>2, FS_CardinalityType
<1>4. \E f \in [1 .. n -> I] : \A i, j \in DOMAIN f : i < j => f[i] < f[j]
  <2>1. PICK f \in [1 .. n -> I] : Increasing(f, n)
    BY <1>1, <1>2, <1>3, SortedListing
  <2> QED BY <2>1 DEF Increasing
<1>5. PICK f \in [1 .. n -> I] : f = InOrder(I) /\ \A i, j \in DOMAIN f : i < j => f[i] < f[j]
  BY <1>3, <1>4 DEF InOrder
<1>6. Increasing(f, n)
  BY <1>5 DEF Increasing
<1>7. Range(f) = I
  BY <1>1, <1>2, <1>3, <1>6, ListingFacts
<1>8. At(s, I) = [k \in 1 .. n |-> s[f[k]]]
  BY <1>3, <1>5, Zenon DEF At
<1>9. \A k \in 1 .. n : s[f[k]] \in S
  <2>1. \A k \in 1 .. n : f[k] \in 1 .. Len(s)
    OBVIOUS
  <2> QED BY <2>1
<1>10. PICK a : a = [k \in 1 .. n |-> s[f[k]]]
  OBVIOUS
<1>11. a \in Seq(S) /\ Len(a) = n /\ \A k \in 1 .. n : a[k] = s[f[k]]
  <2>1. a \in [1 .. n -> S]
    BY <1>9, <1>10
  <2>2. a \in Seq(S)
    BY <2>1, SeqDef
  <2> QED BY <1>10, <2>1, <2>2
<1>12. /\ At(s, I) \in Seq(S) /\ Len(At(s, I)) = n
       /\ \A k \in 1 .. n : At(s, I)[k] = s[f[k]]
  BY <1>8, <1>10, <1>11
<1>13. Picks(f, n, I, s, At(s, I))
  BY <1>3, <1>6, <1>7, <1>12 DEF Picks
<1> QED BY <1>12, <1>13

-----------------------------------------------------------------------------
(***************************************************************************)
(* throttle and debounce.                                                  *)
(***************************************************************************)
TimersTypeOK ==
  /\ how \in T!Options
  /\ real \in Nat /\ real >= 10 /\ now \in Int
  /\ timeout \in Nat /\ previous \in Int /\ timestamp \in Int
  /\ args \in Nat /\ timed \in Nat
  /\ lastCall \in Nat /\ ranAt \in Nat /\ ranArgs \in Nat
  /\ early \in BOOLEAN /\ skewed \in BOOLEAN

Immediate == how.kind = "debounce" /\ how.leading

(* A timeout keeps the arguments of the last call; without one, the        *)
(* function has run with them.                                             *)
ArgsKept ==
  /\ timeout # T!Null /\ ~Immediate => args = timed /\ timed > 0
  /\ timeout = T!Null /\ how.trailing /\ ~Immediate => ranArgs = timed

(* Of throttle while the clock is right: previous is not before the last   *)
(* run, and a timeout is due Wait after it.                                *)
ThrottleApart ==
  /\ previous <= now
  /\ previous = 0 \/ previous >= ranAt
  /\ how.leading /\ previous = 0 => ranAt = 0
  /\ timeout # T!Null /\ ranAt > 0 => timeout >= ranAt + Wait
  /\ ranAt <= real

(* Of debounce while the clock is right: timestamp is the last call, and   *)
(* without a timeout it is Wait ago.                                       *)
DebounceQuiet ==
  /\ timed > 0 => timestamp = lastCall /\ lastCall <= real
  /\ timeout # T!Null => timed > 0
  /\ timeout = T!Null /\ timed > 0 => real - lastCall >= Wait

TimersInv ==
  /\ TimersTypeOK
  /\ ArgsKept
  /\ ~skewed => /\ ~early /\ now = real
                /\ how.kind = "throttle" => ThrottleApart
                /\ how.kind = "debounce" => DebounceQuiet

(* What a run of the timers is about: Wait and Jump are milliseconds. *)
TimersConstants == Wait \in Nat /\ Jump \in Int

(* The initial states satisfy the invariant. *)
LEMMA TimersStart ==
  ASSUME TimersConstants, T!Init
  PROVE  TimersInv
<1> USE DEF T!Null
<1>1. TimersTypeOK
  <2>1. how \in T!Options /\ early \in BOOLEAN /\ skewed \in BOOLEAN
    BY Zenon DEF T!Init
  <2> QED
    BY <2>1 DEF T!Init, TimersTypeOK
<1>2. ArgsKept
  BY DEF T!Init, ArgsKept
<1>3. ThrottleApart /\ DebounceQuiet
  BY DEF T!Init, ThrottleApart, DebounceQuiet
<1> QED
  BY <1>1, <1>2, <1>3 DEF T!Init, TimersInv

(* A call of the function that throttle returns. *)
LEMMA TimersThrottled ==
  ASSUME TimersConstants, TimersInv, NEW nested \in BOOLEAN, how.kind = "throttle", T!throttled(nested)
  PROVE  TimersInv'
<1> USE DEF T!Null
<1>t. how \in T!Options /\ how.leading \in BOOLEAN /\ how.trailing \in BOOLEAN /\ ~Immediate
  BY DEF TimersInv, TimersTypeOK, T!Options, Immediate
<1>u. how' = how /\ real' = real /\ now' = now /\ timestamp' = timestamp /\ skewed' = skewed /\ lastCall' = real
      /\ timed' \in Nat /\ timed' > 0 /\ timed' = timed + (IF nested THEN 2 ELSE 1)
  BY DEF T!throttled, T!Time, TimersInv, TimersTypeOK
<1>p. T!Prev \in Int /\ T!Remaining(T!Prev) \in Int /\ T!Remaining(T!Prev) = Wait - (now - T!Prev)
  BY <1>t DEF T!Prev, T!Remaining, TimersInv, TimersTypeOK, TimersConstants
<1>1. CASE T!Remaining(T!Prev) <= 0 \/ T!Remaining(T!Prev) > Wait
  <2>1. /\ previous' = now /\ ranAt' = real /\ ranArgs' = timed + 1 /\ early' = (early \/ T!Close)
        /\ timeout' = (IF nested /\ how.trailing THEN real + Wait ELSE 0)
        /\ args' = (IF timeout' = 0 THEN 0 ELSE IF nested THEN timed' ELSE timed + 1)
    BY <1>1 DEF T!throttled, T!Run, T!Keep
  <2>2. T!Close \in BOOLEAN
    BY DEF T!Close
  <2>3. ~skewed => ~T!Close
    BY <1>1, <1>t, <1>p DEF T!Close, T!Prev, TimersInv, TimersTypeOK, ThrottleApart, TimersConstants
  <2>4. TimersTypeOK'
    BY <1>t, <1>u, <2>1, <2>2 DEF TimersInv, TimersTypeOK, TimersConstants
  <2>5. ArgsKept'
    BY <1>t, <1>u, <2>1 DEF ArgsKept, TimersInv, TimersTypeOK, TimersConstants, Immediate
  <2>6. ~skewed => ThrottleApart'
    BY <1>t, <1>u, <2>1 DEF ThrottleApart, TimersInv, TimersTypeOK, TimersConstants
  <2> QED
    BY <1>u, <2>1, <2>2, <2>3, <2>4, <2>5, <2>6 DEF TimersInv, TimersTypeOK
<1>2. CASE ~(T!Remaining(T!Prev) <= 0 \/ T!Remaining(T!Prev) > Wait)
  <2>1. /\ ~nested /\ previous' = T!Prev /\ args' = timed + 1
        /\ timeout' = (IF timeout = 0 /\ how.trailing THEN real + T!Remaining(T!Prev) ELSE timeout)
        /\ ranAt' = ranAt /\ ranArgs' = ranArgs /\ early' = early
    BY <1>2 DEF T!throttled
  <2>4. TimersTypeOK'
    BY <1>2, <1>t, <1>u, <1>p, <2>1 DEF TimersInv, TimersTypeOK, TimersConstants
  <2>5. ArgsKept'
    BY <1>2, <1>t, <1>u, <1>p, <2>1 DEF ArgsKept, TimersInv, TimersTypeOK, TimersConstants, Immediate
  <2>6. ~skewed => ThrottleApart'
    BY <1>t, <1>u, <1>p, <2>1 DEF ThrottleApart, TimersInv, TimersTypeOK, TimersConstants, T!Prev
  <2> QED
    BY <1>u, <2>1, <2>4, <2>5, <2>6 DEF TimersInv, TimersTypeOK
<1> QED BY <1>1, <1>2

(* The timeout of throttle. *)
LEMMA TimersThrottleLater ==
  ASSUME TimersConstants, TimersInv, NEW nested \in BOOLEAN, how.kind = "throttle", T!throttleLater(nested)
  PROVE  TimersInv'
<1> USE DEF T!Null
<1>t. how \in T!Options /\ how.leading \in BOOLEAN /\ how.trailing \in BOOLEAN /\ ~Immediate
  BY DEF TimersInv, TimersTypeOK, T!Options, Immediate
<1>1. /\ how' = how /\ real' = real /\ now' = now /\ timestamp' = timestamp /\ skewed' = skewed
      /\ lastCall' = (IF nested THEN real ELSE lastCall)
      /\ timed' = timed + (IF nested THEN 1 ELSE 0)
      /\ timeout # 0 /\ real >= timeout
      /\ previous' = (IF how.leading \/ nested THEN now ELSE 0)
      /\ ranAt' = real /\ ranArgs' = args /\ early' = (early \/ T!Close)
      /\ timeout' = (IF nested THEN real + Wait ELSE 0)
      /\ args' = (IF timeout' = 0 THEN 0 ELSE IF nested THEN timed' ELSE args)
  BY DEF T!throttleLater, T!Time, T!Run, T!Keep
<1>2. T!Close \in BOOLEAN /\ (~skewed => ~T!Close)
  BY <1>1 DEF T!Close, TimersInv, TimersTypeOK, ThrottleApart, TimersConstants
<1>4. TimersTypeOK'
  BY <1>t, <1>1, <1>2 DEF TimersInv, TimersTypeOK, TimersConstants
<1>5. ArgsKept'
  BY <1>t, <1>1 DEF ArgsKept, TimersInv, TimersTypeOK, TimersConstants, Immediate
<1>6. ~skewed => ThrottleApart'
  BY <1>t, <1>1 DEF ThrottleApart, TimersInv, TimersTypeOK, TimersConstants
<1> QED
  BY <1>1, <1>2, <1>4, <1>5, <1>6 DEF TimersInv, TimersTypeOK

(* A call of the function that debounce returns. *)
LEMMA TimersDebounced ==
  ASSUME TimersConstants, TimersInv, NEW nested \in BOOLEAN, how.kind = "debounce", T!debounced(nested)
  PROVE  TimersInv'
<1> USE DEF T!Null
<1>t. how \in T!Options /\ how.leading \in BOOLEAN /\ how.trailing \in BOOLEAN /\ (Immediate <=> how.leading)
  BY DEF TimersInv, TimersTypeOK, T!Options, Immediate
<1>u. how' = how /\ real' = real /\ now' = now /\ timestamp' = now /\ skewed' = skewed /\ lastCall' = real
      /\ timed' \in Nat /\ timed' > 0 /\ timed' = timed + (IF nested THEN 2 ELSE 1) /\ previous' = previous
  BY DEF T!debounced, T!Time, TimersInv, TimersTypeOK
<1>1. CASE how.leading /\ timeout = 0
  <2>1. /\ ranAt' = real /\ ranArgs' = timed + 1 /\ early' = (early \/ T!Busy)
        /\ timeout' = real + Wait /\ args' = 0
    BY <1>1 DEF T!debounced, T!Run
  <2>2. T!Busy \in BOOLEAN /\ (~skewed => ~T!Busy)
    BY <1>1 DEF T!Busy, TimersInv, TimersTypeOK, DebounceQuiet, TimersConstants
  <2>4. TimersTypeOK'
    BY <1>t, <1>u, <2>1, <2>2 DEF TimersInv, TimersTypeOK, TimersConstants
  <2>5. ArgsKept'
    BY <1>t, <1>u, <1>1, <2>1 DEF ArgsKept, TimersInv, TimersTypeOK, TimersConstants, Immediate
  <2>6. ~skewed => DebounceQuiet'
    BY <1>t, <1>u, <2>1 DEF DebounceQuiet, TimersInv, TimersTypeOK, TimersConstants
  <2> QED
    BY <1>u, <2>1, <2>2, <2>4, <2>5, <2>6 DEF TimersInv, TimersTypeOK
<1>2. CASE ~(how.leading /\ timeout = 0)
  <2>1. /\ ~nested /\ args' = timed + 1 /\ timeout' = (IF timeout = 0 THEN real + Wait ELSE timeout)
        /\ ranAt' = ranAt /\ ranArgs' = ranArgs /\ early' = early
    BY <1>2 DEF T!debounced
  <2>4. TimersTypeOK'
    BY <1>t, <1>u, <2>1 DEF TimersInv, TimersTypeOK, TimersConstants
  <2>5. ArgsKept'
    BY <1>t, <1>u, <1>2, <2>1 DEF ArgsKept, TimersInv, TimersTypeOK, TimersConstants, Immediate
  <2>6. ~skewed => DebounceQuiet'
    BY <1>t, <1>u, <2>1 DEF DebounceQuiet, TimersInv, TimersTypeOK, TimersConstants
  <2> QED
    BY <1>u, <2>1, <2>4, <2>5, <2>6 DEF TimersInv, TimersTypeOK
<1> QED BY <1>1, <1>2

(* The timeout of debounce. *)
LEMMA TimersDebounceLater ==
  ASSUME TimersConstants, TimersInv, NEW nested \in BOOLEAN, how.kind = "debounce", T!debounceLater(nested)
  PROVE  TimersInv'
<1> USE DEF T!Null
<1> DEFINE past == now - timestamp
<1>t. how \in T!Options /\ how.leading \in BOOLEAN /\ how.trailing \in BOOLEAN /\ (Immediate <=> how.leading)
  BY DEF TimersInv, TimersTypeOK, T!Options, Immediate
<1>p. past \in Int
  BY DEF TimersInv, TimersTypeOK
<1>u. /\ how' = how /\ real' = real /\ now' = now /\ previous' = previous
      /\ lastCall' = (IF nested THEN real ELSE lastCall)
      /\ timed' = timed + (IF nested THEN 1 ELSE 0)
      /\ timeout # 0 /\ real >= timeout
      /\ skewed' = (skewed \/ past = 0)
  BY DEF T!debounceLater, T!Time
<1>q. ~skewed' => ~skewed /\ timed > 0 /\ past > 0 /\ past = real - lastCall
  <2>1. ~skewed' => ~skewed /\ past # 0
    BY <1>u
  <2>2. ~skewed => now = real /\ DebounceQuiet
    BY DEF TimersInv
  <2> QED
    BY <1>u, <2>1, <2>2 DEF TimersInv, TimersTypeOK, DebounceQuiet
<1> HIDE DEF past
<1>1. CASE past < Wait /\ past > 0
  <2>1. ~nested /\ timeout' = real + Wait - past /\ args' = args /\ timestamp' = timestamp
        /\ ranAt' = ranAt /\ ranArgs' = ranArgs /\ early' = early
    BY <1>1 DEF T!debounceLater, past
  <2>4. TimersTypeOK'
    BY <1>t, <1>u, <1>p, <1>1, <2>1 DEF TimersInv, TimersTypeOK, TimersConstants
  <2>5. ArgsKept'
    BY <1>t, <1>u, <1>p, <1>1, <2>1 DEF ArgsKept, TimersInv, TimersTypeOK, TimersConstants, Immediate
  <2>6. ~skewed' => DebounceQuiet'
    BY <1>t, <1>u, <1>p, <1>q, <1>1, <2>1 DEF DebounceQuiet, TimersInv, TimersTypeOK, TimersConstants
  <2> QED
    BY <1>u, <2>1, <2>4, <2>5, <2>6 DEF TimersInv, TimersTypeOK
<1>2. CASE ~(past < Wait /\ past > 0) /\ how.leading
  <2>1. ~nested /\ timeout' = 0 /\ args' = args /\ timestamp' = timestamp
        /\ ranAt' = ranAt /\ ranArgs' = ranArgs /\ early' = early
    BY <1>2 DEF T!debounceLater, past
  <2>4. TimersTypeOK'
    BY <1>t, <1>u, <1>p, <2>1 DEF TimersInv, TimersTypeOK, TimersConstants
  <2>5. ArgsKept'
    BY <1>t, <1>u, <1>2, <2>1 DEF ArgsKept, TimersInv, TimersTypeOK, TimersConstants, Immediate
  <2>6. ~skewed' => DebounceQuiet'
    BY <1>t, <1>u, <1>p, <1>q, <1>2, <2>1 DEF DebounceQuiet, TimersInv, TimersTypeOK, TimersConstants
  <2> QED
    BY <1>u, <2>1, <2>4, <2>5, <2>6 DEF TimersInv, TimersTypeOK
<1>3. CASE ~(past < Wait /\ past > 0) /\ ~how.leading
  <2>1. /\ timestamp' = (IF nested THEN now ELSE timestamp)
        /\ ranAt' = real /\ ranArgs' = args /\ early' = (early \/ T!Busy)
        /\ timeout' = (IF nested THEN real + Wait ELSE 0)
        /\ args' = (IF timeout' = 0 THEN 0 ELSE IF nested THEN timed' ELSE args)
    BY <1>3 DEF T!debounceLater, T!Run, T!Keep, past
  <2>2. T!Busy \in BOOLEAN /\ (~skewed' => ~T!Busy)
    BY <1>3, <1>p, <1>q, <1>u DEF T!Busy, TimersInv, TimersTypeOK, DebounceQuiet, TimersConstants
  <2>4. TimersTypeOK'
    BY <1>t, <1>u, <1>p, <2>1, <2>2 DEF TimersInv, TimersTypeOK, TimersConstants
  <2>5. ArgsKept'
    BY <1>t, <1>u, <1>3, <2>1 DEF ArgsKept, TimersInv, TimersTypeOK, TimersConstants, Immediate
  <2>6. ~skewed' => DebounceQuiet'
    BY <1>t, <1>u, <1>p, <1>q, <1>3, <2>1 DEF DebounceQuiet, TimersInv, TimersTypeOK, TimersConstants
  <2> QED
    BY <1>u, <2>1, <2>2, <2>4, <2>5, <2>6 DEF TimersInv, TimersTypeOK
<1> QED BY <1>t, <1>1, <1>2, <1>3

(* Time passes, or Date.now is set. *)
LEMMA TimersTime ==
  ASSUME TimersConstants, TimersInv, T!Tick \/ T!SetClock
  PROVE  TimersInv'
<1>1. ASSUME T!Tick PROVE TimersInv'
  <2>1. /\ real' = real + 1 /\ now' = now + 1 /\ how' = how /\ timeout' = timeout /\ previous' = previous
        /\ timestamp' = timestamp /\ args' = args /\ timed' = timed /\ lastCall' = lastCall
        /\ ranAt' = ranAt /\ ranArgs' = ranArgs /\ early' = early /\ skewed' = skewed
    BY <1>1 DEF T!Tick, T!Rest
  <2> QED
    BY <2>1 DEF TimersInv, TimersTypeOK, ArgsKept, ThrottleApart, DebounceQuiet, Immediate, TimersConstants
<1>2. ASSUME T!SetClock PROVE TimersInv'
  <2>1. /\ real' = real /\ how' = how /\ timeout' = timeout /\ previous' = previous
        /\ timestamp' = timestamp /\ args' = args /\ timed' = timed /\ lastCall' = lastCall
        /\ ranAt' = ranAt /\ ranArgs' = ranArgs /\ early' = early /\ skewed' = TRUE
    BY <1>2 DEF T!SetClock, T!Rest
  <2>2. now' \in Int
    BY <1>2 DEF T!SetClock, TimersInv, TimersTypeOK, TimersConstants
  <2> QED
    BY <2>1, <2>2 DEF TimersInv, TimersTypeOK, ArgsKept, Immediate, TimersConstants
<1> QED BY <1>1, <1>2

(* throttle and debounce run their function neither too often nor too      *)
(* seldom, however calls, nested calls, timeouts and settings of Date.now  *)
(* interleave, for any Wait and any Jump of the clock.                     *)
THEOREM TimersAreExact ==
  ASSUME TimersConstants
  PROVE  T!Spec => []TimersExact
<1>1. T!Init => TimersInv
  BY TimersStart
<1>2. TimersInv /\ [T!Next]_(T!vars) => TimersInv'
  <2> SUFFICES ASSUME TimersInv, [T!Next]_(T!vars) PROVE TimersInv'
    OBVIOUS
  <2>1. CASE T!Call
    <3>1. PICK nested \in BOOLEAN : IF how.kind = "throttle" THEN T!throttled(nested) ELSE T!debounced(nested)
      BY <2>1 DEF T!Call
    <3>2. how.kind \in {"throttle", "debounce"}
      BY DEF TimersInv, TimersTypeOK, T!Options
    <3> QED BY <3>1, <3>2, TimersThrottled, TimersDebounced
  <2>2. CASE T!Timeout
    <3>1. PICK nested \in BOOLEAN : IF how.kind = "throttle" THEN T!throttleLater(nested) ELSE T!debounceLater(nested)
      BY <2>2 DEF T!Timeout
    <3>2. how.kind \in {"throttle", "debounce"}
      BY DEF TimersInv, TimersTypeOK, T!Options
    <3> QED BY <3>1, <3>2, TimersThrottleLater, TimersDebounceLater
  <2>3. CASE T!Tick \/ T!SetClock
    BY <2>3, TimersTime
  <2>4. CASE UNCHANGED T!vars
    BY <2>4 DEF T!vars, TimersInv, TimersTypeOK, ArgsKept, ThrottleApart, DebounceQuiet, Immediate
  <2> QED BY <2>1, <2>2, <2>3, <2>4 DEF T!Next
<1>3. TimersInv => TimersExact
  <2> SUFFICES ASSUME TimersInv PROVE T!TimersExact
    BY DEF TimersExact
  <2>1. skewed \/ ~early
    BY DEF TimersInv
  <2> QED BY <2>1 DEF TimersInv, TimersTypeOK, ArgsKept, Immediate, T!TimersExact, T!Null
<1> QED BY <1>1, <1>2, <1>3, PTL DEF T!Spec

-----------------------------------------------------------------------------
(***************************************************************************)
(* jQuery.ajax.                                                            *)
(***************************************************************************)
Opening == {"ajaxStart", "beforeSend", "ajaxSend"}
Closing == {"settle", "settled", "completed"}
AjaxFrame == [r : Requests, at : Opening \cup Closing \cup {"ajaxStop"}]

(* A request has at most one activation at a point of P on the stack. *)
OneAt(s, P) == \A i, j \in 1 .. Len(s) : s[i].r = s[j].r /\ s[i].at \in P /\ s[j].at \in P => i = j

(* A new activation on top. *)
LEMMA OneAtPush ==
  ASSUME NEW t \in Seq(AjaxFrame), NEW f \in AjaxFrame, NEW P
  PROVE  OneAt(<<f>> \o t, P) <=>
           OneAt(t, P) /\ (f.at \in P => \A g \in Range(t) : ~(g.r = f.r /\ g.at \in P))
<1> DEFINE s == <<f>> \o t
<1>1. s \in Seq(AjaxFrame) /\ Len(s) = Len(t) + 1 /\ Len(t) \in Nat
  OBVIOUS
<1>2. s[1] = f /\ \A i \in 1 .. Len(t) : s[i + 1] = t[i]
  OBVIOUS
<1>3. Range(t) = {t[i] : i \in 1 .. Len(t)}
  BY RangeEquality
<1>4. \A i \in 1 .. Len(s) : i = 1 \/ (i - 1 \in 1 .. Len(t) /\ s[i] = t[i - 1])
  <2> SUFFICES ASSUME NEW i \in 1 .. Len(s), i # 1 PROVE i - 1 \in 1 .. Len(t) /\ s[i] = t[i - 1]
    OBVIOUS
  <2>1. i - 1 \in 1 .. Len(t) /\ (i - 1) + 1 = i
    BY <1>1
  <2> QED BY <1>2, <2>1
<1> HIDE DEF s
<1>5. ASSUME OneAt(s, P)
      PROVE  OneAt(t, P) /\ (f.at \in P => \A g \in Range(t) : ~(g.r = f.r /\ g.at \in P))
  <2>1. OneAt(t, P)
    <3> SUFFICES ASSUME NEW i \in 1 .. Len(t), NEW j \in 1 .. Len(t), t[i].r = t[j].r, t[i].at \in P, t[j].at \in P
                 PROVE  i = j
      BY DEF OneAt
    <3>1. i + 1 \in 1 .. Len(s) /\ j + 1 \in 1 .. Len(s) /\ s[i + 1] = t[i] /\ s[j + 1] = t[j]
      BY <1>1, <1>2
    <3>2. i + 1 = j + 1
      BY <1>5, <3>1 DEF OneAt
    <3> QED BY <3>2
  <2>2. ASSUME f.at \in P, NEW i \in 1 .. Len(t), t[i].r = f.r, t[i].at \in P PROVE FALSE
    <3>1. i + 1 \in 1 .. Len(s) /\ 1 \in 1 .. Len(s) /\ s[i + 1] = t[i] /\ s[1] = f
      BY <1>1, <1>2
    <3>2. i + 1 = 1
      BY <1>5, <2>2, <3>1 DEF OneAt
    <3> QED BY <3>2
  <2> QED BY <1>3, <2>1, <2>2
<1>6. ASSUME OneAt(t, P), f.at \in P => \A g \in Range(t) : ~(g.r = f.r /\ g.at \in P)
      PROVE  OneAt(s, P)
  <2> SUFFICES ASSUME NEW i \in 1 .. Len(s), NEW j \in 1 .. Len(s), s[i].r = s[j].r, s[i].at \in P, s[j].at \in P
               PROVE  i = j
    BY DEF OneAt
  <2>1. CASE i = 1 /\ j # 1
    <3>1. j - 1 \in 1 .. Len(t) /\ s[j] = t[j - 1]
      BY <1>4, <2>1
    <3> QED BY <1>2, <1>3, <1>6, <2>1, <3>1
  <2>2. CASE i # 1 /\ j = 1
    <3>1. i - 1 \in 1 .. Len(t) /\ s[i] = t[i - 1]
      BY <1>4, <2>2
    <3> QED BY <1>2, <1>3, <1>6, <2>2, <3>1
  <2>3. CASE i # 1 /\ j # 1
    <3>1. i - 1 \in 1 .. Len(t) /\ s[i] = t[i - 1] /\ j - 1 \in 1 .. Len(t) /\ s[j] = t[j - 1]
      BY <1>4, <2>3
    <3>2. i - 1 = j - 1
      BY <1>6, <3>1 DEF OneAt
    <3> QED BY <3>2
  <2> QED BY <2>1, <2>2, <2>3
<1> QED BY <1>5, <1>6 DEF s

(* The activation of ajax() for a request is below the others of the request. *)
Lowest(s) == \A i, j \in 1 .. Len(s) : s[i].r = s[j].r /\ s[i].at \in Opening => j <= i

(* A new activation on top. *)
LEMMA LowestPush ==
  ASSUME NEW t \in Seq(AjaxFrame), NEW f \in AjaxFrame, Lowest(t),
         f.at \in Opening => \A g \in Range(t) : g.r # f.r
  PROVE  Lowest(<<f>> \o t)
<1> DEFINE s == <<f>> \o t
<1>1. s \in Seq(AjaxFrame) /\ Len(s) = Len(t) + 1 /\ Len(t) \in Nat /\ s[1] = f
  OBVIOUS
<1>2. Range(t) = {t[i] : i \in 1 .. Len(t)}
  BY RangeEquality
<1>3. \A i \in 1 .. Len(s) : i = 1 \/ (i - 1 \in 1 .. Len(t) /\ s[i] = t[i - 1])
  <2> SUFFICES ASSUME NEW i \in 1 .. Len(s), i # 1 PROVE i - 1 \in 1 .. Len(t) /\ s[i] = t[i - 1]
    OBVIOUS
  <2>1. i - 1 \in 1 .. Len(t) /\ (i - 1) + 1 = i
    BY <1>1
  <2>2. \A k \in 1 .. Len(t) : s[k + 1] = t[k]
    OBVIOUS
  <2> QED BY <2>1, <2>2
<1> HIDE DEF s
<1>4. ASSUME NEW i \in 1 .. Len(s), NEW j \in 1 .. Len(s), s[i].r = s[j].r, s[i].at \in Opening
      PROVE  j <= i
  <2>1. CASE j = 1
    BY <1>1, <2>1
  <2>2. CASE i = 1 /\ j # 1
    BY <1>1, <1>2, <1>3, <1>4, <2>2
  <2>3. CASE i # 1 /\ j # 1
    <3>1. i - 1 \in 1 .. Len(t) /\ s[i] = t[i - 1] /\ j - 1 \in 1 .. Len(t) /\ s[j] = t[j - 1]
      BY <1>3, <2>3
    <3>2. j - 1 <= i - 1
      BY <1>4, <3>1 DEF Lowest
    <3> QED BY <3>2
  <2> QED BY <2>1, <2>2, <2>3
<1>5. Lowest(s)
  BY <1>4 DEF Lowest
<1> QED BY <1>5 DEF s

(* What is on top of a stack, and what is below it. *)
LEMMA LowestSplit ==
  ASSUME NEW t \in Seq(AjaxFrame), NEW f \in AjaxFrame, Lowest(<<f>> \o t)
  PROVE  Lowest(t) /\ (f.at \in Opening => \A g \in Range(t) : g.r # f.r)
<1> DEFINE s == <<f>> \o t
<1>1. Len(s) = Len(t) + 1 /\ Len(t) \in Nat /\ s[1] = f /\ \A k \in 1 .. Len(t) : s[k + 1] = t[k]
  OBVIOUS
<1>2. Range(t) = {t[i] : i \in 1 .. Len(t)}
  BY RangeEquality
<1>3. Lowest(s)
  OBVIOUS
<1> HIDE DEF s
<1>4. ASSUME NEW i \in 1 .. Len(t), NEW j \in 1 .. Len(t), t[i].r = t[j].r, t[i].at \in Opening
      PROVE  j <= i
  <2>1. i + 1 \in 1 .. Len(s) /\ j + 1 \in 1 .. Len(s) /\ s[i + 1] = t[i] /\ s[j + 1] = t[j]
    BY <1>1
  <2>2. j + 1 <= i + 1
    BY <1>3, <1>4, <2>1 DEF Lowest
  <2> QED BY <2>2
<1>5. ASSUME f.at \in Opening, NEW k \in 1 .. Len(t), t[k].r = f.r PROVE FALSE
  <2>1. k + 1 \in 1 .. Len(s) /\ 1 \in 1 .. Len(s) /\ s[k + 1] = t[k]
    BY <1>1
  <2>2. k + 1 <= 1
    BY <1>1, <1>3, <1>5, <2>1 DEF Lowest
  <2> QED BY <2>2
<1>6. Lowest(t)
  BY <1>4 DEF Lowest
<1> QED BY <1>2, <1>5, <1>6

Words == {"success", "error", "complete"}

AjaxTypeOK ==
  /\ stack \in Seq(AjaxFrame)
  /\ phase \in [Requests -> {-1, 0, 1, 2}]
  /\ opts \in [Requests -> [global : BOOLEAN, timeout : BOOLEAN]]
  /\ timer \in [Requests -> BOOLEAN] /\ xhr \in [Requests -> BOOLEAN]
  /\ isSuccess \in [Requests -> BOOLEAN]
  /\ active \in Int /\ busy \in BOOLEAN
  /\ got \in [Requests -> Seq(Words)]
  /\ sent \subseteq Requests /\ ended \subseteq Requests /\ lost \subseteq Requests
  /\ again \subseteq Requests /\ twice \subseteq Requests

First == {<<"success">>, <<"error">>}
Both == {<<"success", "complete">>, <<"error", "complete">>}

(* What an activation on the stack says of its request. *)
FrameOK(f) ==
  /\ f.at \in Opening => phase[f.r] \in {0, 2} /\ f.r \notin again
  /\ f.at \in {"ajaxStart", "beforeSend"} => f.r \notin sent
  /\ f.at = "ajaxSend" => f.r \in sent /\ opts[f.r].global
  /\ f.at \in Closing => phase[f.r] = 2 /\ f.r \notin twice /\ (f.r \in ended => f.r \in again)
  /\ f.at = "ajaxStop" => f.r \in ended
  /\ f.r \in sent \ ended => /\ f.at = "settle" => got[f.r] = <<>>
                             /\ f.at = "settled" => got[f.r] \in First
                             /\ f.at = "completed" => got[f.r] \in Both
  /\ f.r \notin lost /\ phase[f.r] # -1

Has(r, P) == \E f \in Range(stack) : f.r = r /\ f.at \in P

(* The life of a request: whatever is not in flight, lost or ended has an  *)
(* activation on the stack that will go on with it.                        *)
RequestOK(r) ==
  /\ phase[r] = -1 => r \notin lost
  /\ phase[r] = 0 => r \in lost \/ Has(r, Opening)
  /\ phase[r] = 1 => r \in sent /\ r \notin lost
  /\ phase[r] = 2 => r \in lost \/ r \in ended \/ Has(r, Closing)
  /\ phase[r] = -1 => r \notin sent
  /\ phase[r] # 2 => r \notin ended /\ got[r] = <<>>
  /\ r \in ended => r \notin lost /\ (r \in sent => got[r] \in Both)
  /\ xhr[r] <=> phase[r] = 1
  /\ timer[r] => phase[r] = 1
  /\ r \notin sent => got[r] = <<>>
  /\ r \in again => r \in ended /\ opts[r].global
  /\ r \in twice => r \in again

(* The requests that jQuery.active counts, and what it makes of them. *)
Counted == {r \in Requests : opts[r].global /\ phase[r] # -1 /\ r \notin ended}
CountOK == /\ active = Cardinality(Counted) - Cardinality(twice)
           /\ twice = {} => (busy <=> active # 0)

AjaxInv ==
  /\ AjaxTypeOK
  /\ Lowest(stack) /\ OneAt(stack, Closing)
  /\ \A f \in Range(stack) : FrameOK(f)
  /\ \A r \in Requests : RequestOK(r)
  /\ CountOK

(* The initial state satisfies the invariant. *)
LEMMA AjaxStart ==
  ASSUME A!Init
  PROVE  AjaxInv
<1> USE DEF A!Init, A!Unused
<1>1. AjaxTypeOK
  <2>1. busy \in BOOLEAN /\ stack \in Seq(AjaxFrame) /\ <<>> \in Seq(Words) BY Zenon, EmptySeq
  <2>2. active \in Int OBVIOUS
  <2>3. [global |-> TRUE, timeout |-> FALSE] \in [global : BOOLEAN, timeout : BOOLEAN] OBVIOUS
  <2> QED BY <2>1, <2>2, <2>3 DEF AjaxTypeOK
<1>2. Len(stack) = 0 /\ Range(stack) = {}
  BY RangeEmpty
<1>3. Counted = {}
  BY DEF Counted
<1>4. CountOK
  BY <1>3, FS_EmptySet DEF CountOK
<1>5. \A r \in Requests : RequestOK(r)
  BY DEF RequestOK, Has
<1>6. Lowest(stack) /\ OneAt(stack, Closing)
  BY <1>2 DEF Lowest, OneAt
<1> QED BY <1>1, <1>2, <1>4, <1>5, <1>6 DEF AjaxInv

(* What the other requests are, and their activations, a step leaves alone. *)
Same(q) == /\ phase'[q] = phase[q] /\ opts'[q] = opts[q] /\ timer'[q] = timer[q] /\ xhr'[q] = xhr[q]
           /\ got'[q] = got[q]
           /\ q \in sent' <=> q \in sent
           /\ q \in ended' <=> q \in ended
           /\ q \in lost' <=> q \in lost
           /\ q \in again' <=> q \in again
           /\ q \in twice' <=> q \in twice

(* So a step for one request is right if it is right for that request. *)
LEMMA AjaxOne ==
  ASSUME AjaxInv, NEW r \in Requests, AjaxTypeOK',
         Lowest(stack'), OneAt(stack', Closing),
         \A q \in Requests \ {r} : Same(q),
         \A f \in AjaxFrame : f.r # r => (f \in Range(stack') <=> f \in Range(stack)),
         \A f \in Range(stack') : f.r = r => FrameOK(f)',
         RequestOK(r)', CountOK'
  PROVE  AjaxInv'
<1>t. Range(stack) \subseteq AjaxFrame /\ Range(stack') \subseteq AjaxFrame
  BY RangeType DEF AjaxInv, AjaxTypeOK
<1>1. ASSUME NEW f \in Range(stack'), f.r # r PROVE FrameOK(f)'
  <2>1. f \in Range(stack) /\ f.r \in Requests
    BY <1>t, <1>1 DEF AjaxFrame
  <2>2. FrameOK(f) /\ Same(f.r)
    BY <1>1, <2>1 DEF AjaxInv
  <2> QED BY <2>2 DEF FrameOK, Same
<1>2. ASSUME NEW q \in Requests \ {r} PROVE RequestOK(q)'
  <2>1. RequestOK(q) /\ Same(q)
    BY DEF AjaxInv
  <2>2. \A P : Has(q, P) => Has(q, P)'
    BY <1>t DEF Has
  <2> QED BY <2>1, <2>2 DEF RequestOK, Same
<1> QED BY <1>1, <1>2 DEF AjaxInv

(* Most steps do not change what is counted. *)
LEMMA AjaxUncounted ==
  ASSUME AjaxInv, active' = active, busy' = busy, opts' = opts, ended' = ended, twice' = twice,
         \A q \in Requests : phase'[q] = -1 <=> phase[q] = -1
  PROVE  CountOK'
<1>1. Counted' = Counted
  BY DEF Counted
<1>2. twice = {} => (busy <=> active # 0)
  BY DEF AjaxInv, CountOK
<1>3. twice' = {} => (busy' <=> active' # 0)
  BY <1>2, Zenon
<1> QED BY <1>1, <1>3 DEF AjaxInv, CountOK

Points == Opening \cup Closing \cup {"ajaxStop"}

(* The activation on top of the stack, at a point p of request r, and S,   *)
(* those below it.                                                         *)
TopIs(r, p, S) ==
  /\ r = A!Top.r /\ p = A!Top.at /\ r \in Requests /\ p \in Points
  /\ Tail(stack) \in Seq(AjaxFrame) /\ S = Range(Tail(stack)) /\ S \subseteq AjaxFrame
  /\ Range(stack) = {A!At(r, p)} \cup S
  /\ Lowest(Tail(stack)) /\ OneAt(Tail(stack), Closing)
  /\ p \in Opening => \A g \in S : g.r # r
  /\ p \in Closing => \A g \in S : ~(g.r = r /\ g.at \in Closing)

(* There is one if the stack is not empty. *)
LEMMA AjaxTop ==
  ASSUME AjaxInv, stack # <<>>
  PROVE  \E r \in Requests, p \in Points, S \in SUBSET AjaxFrame : TopIs(r, p, S)
<1>1. PICK h, t : h = A!Top /\ t = Tail(stack) /\ h \in AjaxFrame /\ t \in Seq(AjaxFrame) /\ stack = <<h>> \o t
  BY StackSplit DEF AjaxInv, AjaxTypeOK, A!Top
<1>2. h.r \in Requests /\ h.at \in Points /\ h = A!At(h.r, h.at)
  BY <1>1 DEF AjaxFrame, Points, A!At
<1>3. Range(stack) = {h} \cup Range(t) /\ Range(t) \subseteq AjaxFrame
  BY <1>1, RangePush, RangeType
<1>4. Lowest(<<h>> \o t) /\ OneAt(<<h>> \o t, Closing)
  BY <1>1 DEF AjaxInv
<1>5. Lowest(t) /\ (h.at \in Opening => \A g \in Range(t) : g.r # h.r)
  BY <1>1, <1>4, LowestSplit, Zenon
<1>6. OneAt(t, Closing) /\ (h.at \in Closing => \A g \in Range(t) : ~(g.r = h.r /\ g.at \in Closing))
  BY <1>1, <1>4, OneAtPush, Zenon
<1>7. TopIs(h.r, h.at, Range(t))
  BY <1>1, <1>2, <1>3, <1>5, <1>6 DEF TopIs
<1> QED BY <1>2, <1>3, <1>7

(* The stack after a step for request r: the activation f, if any, is on   *)
(* top of those of S.                                                      *)
Becomes(r, F, S) ==
  /\ stack' \in Seq(AjaxFrame) /\ Range(stack') = F \cup S
  /\ Lowest(stack') /\ OneAt(stack', Closing)
  /\ \A f \in AjaxFrame : f.r # r => (f \in Range(stack') <=> f \in Range(stack))

(* The activation on top comes to the point q. *)
LEMMA AjaxReplace ==
  ASSUME NEW r, NEW p, NEW S, TopIs(r, p, S), NEW q \in Points, stack' = <<A!At(r, q)>> \o Tail(stack),
         q \in Opening => \A g \in S : g.r # r,
         q \in Closing => \A g \in S : ~(g.r = r /\ g.at \in Closing)
  PROVE  Becomes(r, {A!At(r, q)}, S)
<1>1. PICK f, t : f = A!At(r, q) /\ t = Tail(stack) /\ t \in Seq(AjaxFrame) /\ S = Range(t)
                  /\ Lowest(t) /\ OneAt(t, Closing) /\ r \in Requests
  BY DEF TopIs
<1>2. f \in AjaxFrame /\ f.r = r /\ f.at = q
  BY <1>1 DEF A!At, AjaxFrame, Points
<1>3. stack' = <<f>> \o t
  BY <1>1
<1>4. Lowest(stack') /\ OneAt(stack', Closing)
  <2>1. f.at \in Opening => \A g \in Range(t) : g.r # f.r
    BY <1>1, <1>2
  <2>2. f.at \in Closing => \A g \in Range(t) : ~(g.r = f.r /\ g.at \in Closing)
    BY <1>1, <1>2
  <2>3. Lowest(<<f>> \o t)
    BY <1>1, <1>2, <2>1, LowestPush, Zenon
  <2>4. OneAt(<<f>> \o t, Closing)
    BY <1>1, <1>2, <2>2, OneAtPush, Zenon
  <2> QED BY <1>3, <2>3, <2>4
<1>5. stack' \in Seq(AjaxFrame) /\ Range(stack') = {f} \cup S
  <2>1. <<f>> \o t \in Seq(AjaxFrame) /\ Range(<<f>> \o t) = {f} \cup Range(t)
    BY <1>1, <1>2, RangePush
  <2> QED BY <1>1, <1>3, <2>1
<1>6. A!At(r, p).r = r /\ Range(stack) = {A!At(r, p)} \cup S
  BY DEF TopIs, A!At
<1> QED BY <1>1, <1>2, <1>4, <1>5, <1>6 DEF Becomes

(* The activation on top returns. *)
LEMMA AjaxPop ==
  ASSUME NEW r, NEW p, NEW S, TopIs(r, p, S), stack' = Tail(stack)
  PROVE  Becomes(r, {}, S)
<1>1. A!At(r, p).r = r
  BY DEF A!At
<1> QED BY <1>1 DEF Becomes, TopIs

(* A new activation for request r. *)
LEMMA AjaxPush ==
  ASSUME AjaxInv, NEW r \in Requests, NEW q \in Points, stack' = <<A!At(r, q)>> \o stack,
         q \in Opening => \A g \in Range(stack) : g.r # r, q \in Closing => ~Has(r, Closing)
  PROVE  Becomes(r, {A!At(r, q)}, Range(stack))
<1>1. PICK f, t : f = A!At(r, q) /\ t = stack /\ t \in Seq(AjaxFrame)
                  /\ Lowest(t) /\ OneAt(t, Closing)
  BY DEF AjaxInv, AjaxTypeOK
<1>2. f \in AjaxFrame /\ f.r = r /\ f.at = q
  BY <1>1 DEF A!At, AjaxFrame, Points
<1>3. stack' = <<f>> \o t
  BY <1>1
<1>4. Lowest(stack') /\ OneAt(stack', Closing)
  <2>1. Lowest(<<f>> \o t)
    BY <1>1, <1>2, LowestPush
  <2>2. OneAt(<<f>> \o t, Closing)
    BY <1>1, <1>2, OneAtPush DEF Has
  <2> QED BY <1>3, <2>1, <2>2
<1>5. stack' \in Seq(AjaxFrame) /\ Range(stack') = {f} \cup Range(stack)
  BY <1>1, <1>2, <1>3, RangePush
<1> QED BY <1>1, <1>2, <1>4, <1>5 DEF Becomes

(* The first request of a set announces it, then beforeSend. *)
LEMMA AjaxStarted ==
  ASSUME AjaxInv, A!Started
  PROVE  AjaxInv'
<1>1. stack # <<>> /\ A!Top.at = "ajaxStart" /\ stack' = <<A!At(A!Top.r, "beforeSend")>> \o Tail(stack)
      /\ phase' = phase /\ opts' = opts /\ timer' = timer /\ xhr' = xhr /\ isSuccess' = isSuccess
      /\ active' = active /\ busy' = busy /\ got' = got /\ sent' = sent /\ ended' = ended /\ lost' = lost
      /\ again' = again /\ twice' = twice
  BY DEF A!Started, A!Replace
<1>2. PICK r \in Requests, p \in Points, S \in SUBSET AjaxFrame : TopIs(r, p, S)
  BY <1>1, AjaxTop
<1>3. r = A!Top.r /\ p = "ajaxStart" /\ Range(stack) = {A!At(r, p)} \cup S
      /\ \A g \in S : g.r # r
  BY <1>1, <1>2 DEF TopIs, Opening
<1>4. Becomes(r, {A!At(r, "beforeSend")}, S)
  BY <1>1, <1>2, <1>3, AjaxReplace DEF Points, Opening, Closing
<1>5. A!At(r, p).r = r /\ A!At(r, p).at = p /\ A!At(r, "beforeSend").r = r /\ A!At(r, "beforeSend").at = "beforeSend"
  BY DEF A!At
<1>6. AjaxTypeOK'
  BY <1>1, <1>4 DEF AjaxInv, AjaxTypeOK, Becomes
<1>7. RequestOK(r) /\ \A f \in Range(stack) : FrameOK(f)
  BY DEF AjaxInv
<1>8. \A f \in Range(stack') : f.r = r => FrameOK(f)'
  BY <1>1, <1>3, <1>4, <1>5, <1>7 DEF Becomes, FrameOK, Opening, Closing
<1>9. RequestOK(r)'
  BY <1>1, <1>3, <1>4, <1>5, <1>7 DEF Becomes, RequestOK, Has, Opening, Closing
<1>10. \A q \in Requests \ {r} : Same(q)
  BY <1>1 DEF Same
<1>11. CountOK'
  BY <1>1, AjaxUncounted
<1> QED BY <1>4, <1>6, <1>8, <1>9, <1>10, <1>11, AjaxOne DEF Becomes

(* done() for a request that is not settled. *)
LEMMA AjaxDone ==
  ASSUME AjaxInv, NEW r \in Requests, NEW S, NEW ok \in BOOLEAN, phase[r] \in {0, 1},
         phase' = [phase EXCEPT ![r] = 2], timer' = [timer EXCEPT ![r] = FALSE],
         isSuccess' = [isSuccess EXCEPT ![r] = ok],
         (xhr' = xhr /\ phase[r] = 0) \/ xhr' = [xhr EXCEPT ![r] = FALSE],
         opts' = opts, active' = active, busy' = busy, got' = got, ended' = ended,
         again' = again, twice' = twice,
         sent' = sent \/ (sent' = sent \cup {r} /\ \A g \in S : g.r # r),
         (lost' = lost /\ r \notin lost) \/ lost' = lost \ {r},
         Becomes(r, {A!At(r, "settle")}, S), S \subseteq Range(stack)
  PROVE  AjaxInv'
<1>1. A!At(r, "settle").r = r /\ A!At(r, "settle").at = "settle"
  BY DEF A!At
<1>2. AjaxTypeOK'
  BY DEF AjaxInv, AjaxTypeOK, Becomes
<1>3. RequestOK(r) /\ \A f \in Range(stack) : FrameOK(f)
  BY DEF AjaxInv
<1>4. phase'[r] = 2 /\ timer'[r] = FALSE /\ r \notin lost' /\ r \notin ended' /\ r \notin again' /\ r \notin twice'
  BY <1>3 DEF AjaxInv, AjaxTypeOK, RequestOK
<1>5. xhr'[r] = FALSE
  BY <1>3 DEF AjaxInv, AjaxTypeOK, RequestOK
<1>6. \A f \in Range(stack') : f.r = r => FrameOK(f)'
  <2> SUFFICES ASSUME NEW f \in Range(stack'), f.r = r PROVE FrameOK(f)'
    OBVIOUS
  <2>1. CASE f \in S
    BY <1>3, <1>4, <2>1 DEF FrameOK, Opening, Closing
  <2>2. CASE f = A!At(r, "settle")
    BY <1>1, <1>3, <1>4, <2>2 DEF FrameOK, RequestOK, Opening, Closing
  <2> QED BY <2>1, <2>2 DEF Becomes
<1>7. Has(r, Closing)'
  BY <1>1 DEF Becomes, Has, Closing
<1>8. r \notin sent' => got'[r] = <<>>
  BY <1>3 DEF RequestOK
<1>9. RequestOK(r)'
  BY <1>4, <1>5, <1>7, <1>8 DEF RequestOK
<1>10. \A q \in Requests \ {r} : Same(q)
  BY DEF Same, AjaxInv, AjaxTypeOK
<1>11. CountOK'
  <2>1. \A q \in Requests : phase'[q] = -1 <=> phase[q] = -1
    BY DEF AjaxInv, AjaxTypeOK
  <2> QED BY <2>1, AjaxUncounted
<1> QED BY <1>2, <1>6, <1>9, <1>10, <1>11, AjaxOne DEF Becomes

(* beforeSend cancels the request, or it was aborted there. *)
LEMMA AjaxCancel ==
  ASSUME AjaxInv, A!Cancel
  PROVE  AjaxInv'
<1>1. stack # <<>> /\ A!Top.at = "beforeSend" /\ A!done(A!Top.r, FALSE, Tail(stack))
      /\ opts' = opts /\ xhr' = xhr /\ active' = active /\ busy' = busy /\ got' = got /\ sent' = sent
      /\ ended' = ended /\ lost' = lost
      /\ again' = again /\ twice' = twice
  BY DEF A!Cancel
<1>2. PICK r \in Requests, p \in Points, S \in SUBSET AjaxFrame : TopIs(r, p, S)
  BY <1>1, AjaxTop
<1>3. r = A!Top.r /\ p = "beforeSend" /\ Range(stack) = {A!At(r, p)} \cup S
      /\ \A g \in S : g.r # r
  BY <1>1, <1>2 DEF TopIs, Opening
<1>5. A!At(r, p).r = r /\ A!At(r, p).at = p
  BY DEF A!At
<1>7. RequestOK(r) /\ (\A f \in Range(stack) : FrameOK(f)) /\ FrameOK(A!At(r, p))
  BY <1>3 DEF AjaxInv
<1>8. phase[r] \in {0, 2} /\ r \notin sent /\ r \notin lost
  BY <1>3, <1>5, <1>7 DEF FrameOK, Opening
<1>a. CASE phase[r] = 2
  <2>1. stack' = Tail(stack) /\ phase' = phase /\ timer' = timer /\ isSuccess' = isSuccess
    BY <1>1, <1>3, <1>a DEF A!done, A!answer
  <2>2. Becomes(r, {}, S)
    BY <1>2, <2>1, AjaxPop
  <2>3. AjaxTypeOK'
    BY <1>1, <2>1, <2>2 DEF AjaxInv, AjaxTypeOK, Becomes
  <2>4. \A f \in Range(stack') : f.r = r => FrameOK(f)'
    BY <1>1, <1>3, <1>7, <2>1, <2>2 DEF Becomes, FrameOK
  <2>5. RequestOK(r)'
    BY <1>1, <1>3, <1>5, <1>7, <1>a, <2>1, <2>2 DEF Becomes, RequestOK, Has, Closing
  <2>6. \A q \in Requests \ {r} : Same(q)
    BY <1>1, <2>1 DEF Same
  <2>7. CountOK'
    BY <1>1, <2>1, AjaxUncounted
  <2> QED BY <2>2, <2>3, <2>4, <2>5, <2>6, <2>7, AjaxOne DEF Becomes
<1>b. CASE phase[r] = 0
  <2>1. /\ stack' = <<A!At(r, "settle")>> \o Tail(stack) /\ phase' = [phase EXCEPT ![r] = 2]
        /\ timer' = [timer EXCEPT ![r] = FALSE] /\ isSuccess' = [isSuccess EXCEPT ![r] = FALSE]
    BY <1>1, <1>3, <1>b DEF A!done, A!answer
  <2>2. \A g \in S : ~(g.r = r /\ g.at \in Closing)
    BY <1>3, <1>7, <1>b DEF FrameOK
  <2>3. Becomes(r, {A!At(r, "settle")}, S)
    BY <1>2, <1>3, <2>1, <2>2, AjaxReplace DEF Points, Closing
  <2> QED BY <1>1, <1>3, <1>8, <1>b, <2>1, <2>3, AjaxDone
<1> QED BY <1>8, <1>a, <1>b

(* The callbacks are installed, and ajaxSend is announced. *)
LEMMA AjaxAnnounced ==
  ASSUME AjaxInv, A!AjaxSend
  PROVE  AjaxInv'
<1>1. stack # <<>> /\ A!Top.at = "beforeSend" /\ phase[A!Top.r] # 2 /\ opts[A!Top.r].global
      /\ stack' = <<A!At(A!Top.r, "ajaxSend")>> \o Tail(stack) /\ sent' = sent \cup {A!Top.r}
      /\ phase' = phase /\ opts' = opts /\ timer' = timer /\ xhr' = xhr /\ isSuccess' = isSuccess
      /\ active' = active /\ busy' = busy /\ got' = got /\ ended' = ended /\ lost' = lost
      /\ again' = again /\ twice' = twice
  BY DEF A!AjaxSend, A!Replace
<1>2. PICK r \in Requests, p \in Points, S \in SUBSET AjaxFrame : TopIs(r, p, S)
  BY <1>1, AjaxTop
<1>3. r = A!Top.r /\ p = "beforeSend" /\ Range(stack) = {A!At(r, p)} \cup S
      /\ \A g \in S : g.r # r
  BY <1>1, <1>2 DEF TopIs, Opening
<1>4. Becomes(r, {A!At(r, "ajaxSend")}, S)
  BY <1>1, <1>2, <1>3, AjaxReplace DEF Points, Opening, Closing
<1>5. A!At(r, p).r = r /\ A!At(r, p).at = p /\ A!At(r, "ajaxSend").r = r /\ A!At(r, "ajaxSend").at = "ajaxSend"
  BY DEF A!At
<1>6. AjaxTypeOK'
  BY <1>1, <1>3, <1>4 DEF AjaxInv, AjaxTypeOK, Becomes
<1>7. RequestOK(r) /\ (\A f \in Range(stack) : FrameOK(f)) /\ FrameOK(A!At(r, p))
  BY <1>3 DEF AjaxInv
<1>a. phase[r] = 0 /\ r \notin lost /\ r \notin again /\ r \in sent' /\ opts[r].global
  BY <1>1, <1>3, <1>5, <1>7 DEF FrameOK, Opening
<1>8. \A f \in Range(stack') : f.r = r => FrameOK(f)'
  BY <1>1, <1>3, <1>4, <1>5, <1>a DEF Becomes, FrameOK, Opening, Closing
<1>9. RequestOK(r)'
  <2>1. Has(r, Opening)'
    BY <1>4, <1>5 DEF Becomes, Has, Opening
  <2> QED BY <1>1, <1>7, <1>a, <2>1 DEF RequestOK
<1>10. \A q \in Requests \ {r} : Same(q)
  BY <1>1, <1>3 DEF Same
<1>11. CountOK'
  BY <1>1, AjaxUncounted
<1> QED BY <1>4, <1>6, <1>8, <1>9, <1>10, <1>11, AjaxOne DEF Becomes

(* The activation of ajax() that comes to the transport is the only one of *)
(* its request.                                                            *)
Sending(r, S) ==
  /\ \E p \in {"beforeSend", "ajaxSend"} :
       TopIs(r, p, S) /\ FrameOK(A!At(r, p)) /\ (p = "beforeSend" => phase[r] # 2)
  /\ r = A!Top.r /\ S \subseteq Range(stack) /\ \A g \in S : g.r # r
  /\ RequestOK(r) /\ phase[r] \in {0, 2} /\ r \notin lost /\ r \notin again
  /\ phase[r] = 2 => r \in sent /\ r \in ended /\ opts[r].global

LEMMA AjaxReady ==
  ASSUME AjaxInv, A!Ready
  PROVE  \E r \in Requests, S \in SUBSET AjaxFrame : Sending(r, S)
<1>1. stack # <<>> /\ (A!Top.at = "ajaxSend" \/ (A!Top.at = "beforeSend" /\ phase[A!Top.r] # 2))
  BY DEF A!Ready
<1>2. PICK r \in Requests, p \in Points, S \in SUBSET AjaxFrame : TopIs(r, p, S)
  BY <1>1, AjaxTop
<1>3. r = A!Top.r /\ p \in {"beforeSend", "ajaxSend"} /\ Range(stack) = {A!At(r, p)} \cup S
      /\ (\A g \in S : g.r # r) /\ (p = "beforeSend" => phase[r] # 2)
  BY <1>1, <1>2 DEF TopIs, Opening
<1>4. A!At(r, p).r = r /\ A!At(r, p).at = p
  BY DEF A!At
<1>5. RequestOK(r) /\ FrameOK(A!At(r, p))
  BY <1>3 DEF AjaxInv
<1>6. phase[r] \in {0, 2} /\ r \notin lost /\ r \notin again /\ (p = "ajaxSend" => r \in sent /\ opts[r].global)
  BY <1>3, <1>4, <1>5 DEF FrameOK, Opening
<1>7. ~Has(r, Closing)
  BY <1>3, <1>4 DEF Has, Closing
<1>8. phase[r] = 2 => r \in sent /\ r \in ended /\ opts[r].global
  BY <1>3, <1>5, <1>6, <1>7 DEF RequestOK
<1>9. Sending(r, S)
  BY <1>2, <1>3, <1>5, <1>6, <1>8 DEF Sending
<1> QED BY <1>9

(* The transport sends the request. *)
LEMMA AjaxSends ==
  ASSUME AjaxInv, A!Send
  PROVE  AjaxInv'
<1>1. A!Ready /\ phase[A!Top.r] # 2 /\ stack' = Tail(stack)
      /\ phase' = [phase EXCEPT ![A!Top.r] = 1] /\ timer' = [timer EXCEPT ![A!Top.r] = opts[A!Top.r].timeout]
      /\ xhr' = [xhr EXCEPT ![A!Top.r] = TRUE] /\ sent' = sent \cup {A!Top.r}
      /\ opts' = opts /\ isSuccess' = isSuccess /\ active' = active /\ busy' = busy /\ got' = got
      /\ ended' = ended /\ lost' = lost /\ again' = again /\ twice' = twice
  BY DEF A!Send
<1>2. PICK r \in Requests, S \in SUBSET AjaxFrame : Sending(r, S)
  BY <1>1, AjaxReady
<1>3. r = A!Top.r /\ (\A g \in S : g.r # r) /\ RequestOK(r)
  BY <1>2 DEF Sending
<1>4. Becomes(r, {}, S)
  <2>1. PICK p \in {"beforeSend", "ajaxSend"} : TopIs(r, p, S)
    BY <1>2 DEF Sending
  <2> QED BY <1>1, <2>1, AjaxPop
<1>8. phase[r] = 0 /\ r \notin lost /\ r \notin again
  BY <1>1, <1>2, <1>3 DEF Sending
<1>9. AjaxTypeOK'
  <2>1. opts[r].timeout \in BOOLEAN
    BY DEF AjaxInv, AjaxTypeOK
  <2> QED BY <1>1, <1>3, <1>4, <2>1 DEF AjaxInv, AjaxTypeOK, Becomes
<1>10. \A f \in Range(stack') : f.r # r
  BY <1>3, <1>4 DEF Becomes
<1>11. RequestOK(r)'
  <2>1. phase'[r] = 1 /\ xhr'[r] = TRUE
    BY <1>1, <1>3 DEF AjaxInv, AjaxTypeOK
  <2> QED BY <1>1, <1>3, <1>8, <2>1 DEF RequestOK
<1>12. \A q \in Requests \ {r} : Same(q)
  BY <1>1, <1>3 DEF Same, AjaxInv, AjaxTypeOK
<1>13. CountOK'
  <2>1. \A q \in Requests : phase'[q] = -1 <=> phase[q] = -1
    BY <1>1, <1>3, <1>8 DEF AjaxInv, AjaxTypeOK
  <2> QED BY <1>1, <2>1, AjaxUncounted
<1> QED BY <1>4, <1>9, <1>10, <1>11, <1>12, <1>13, AjaxOne DEF Becomes

(* send() of the transport raises an exception, as it must when a handler  *)
(* of ajaxSend has aborted the request.                                    *)
LEMMA AjaxSendFails ==
  ASSUME AjaxInv, A!SendFails
  PROVE  AjaxInv'
<1>1. A!Ready /\ A!answer(A!Top.r, FALSE, Tail(stack))
      /\ sent' = sent \cup {A!Top.r} /\ again' = (IF phase[A!Top.r] = 2 THEN again \cup {A!Top.r} ELSE again)
      /\ opts' = opts /\ xhr' = xhr /\ active' = active /\ busy' = busy /\ got' = got /\ ended' = ended /\ lost' = lost
      /\ twice' = twice
  BY DEF A!SendFails
<1>2. PICK r \in Requests, S \in SUBSET AjaxFrame : Sending(r, S)
  BY <1>1, AjaxReady
<1>3. r = A!Top.r /\ (\A g \in S : g.r # r) /\ S \subseteq Range(stack) /\ RequestOK(r)
  BY <1>2 DEF Sending
<1>4. PICK p \in {"beforeSend", "ajaxSend"} : TopIs(r, p, S)
  BY <1>2 DEF Sending
<1>5. /\ stack' = <<A!At(r, "settle")>> \o Tail(stack) /\ phase' = [phase EXCEPT ![r] = 2]
      /\ timer' = [timer EXCEPT ![r] = FALSE] /\ isSuccess' = [isSuccess EXCEPT ![r] = FALSE]
  BY <1>1, <1>3 DEF A!answer
<1>6. Becomes(r, {A!At(r, "settle")}, S)
  BY <1>3, <1>4, <1>5, AjaxReplace DEF Points, Opening, Closing
<1>7. phase[r] \in {0, 2} /\ r \notin lost /\ r \notin again
      /\ (phase[r] = 2 => r \in sent /\ r \in ended /\ opts[r].global)
  BY <1>2 DEF Sending
<1>a. CASE phase[r] = 0
  <2>1. again' = again
    BY <1>1, <1>3, <1>a
  <2> QED BY <1>1, <1>3, <1>5, <1>6, <1>7, <1>a, <2>1, AjaxDone
<1>b. CASE phase[r] = 2
  <2>1. again' = again \cup {r} /\ sent' = sent /\ r \in sent /\ r \in ended /\ opts[r].global
    BY <1>1, <1>3, <1>7, <1>b
  <2>2. phase' = phase /\ timer' = timer
    BY <1>3, <1>5, <1>b DEF AjaxInv, AjaxTypeOK, RequestOK
  <2>3. r \notin twice
    BY <1>3, <1>7 DEF RequestOK
  <2>4. AjaxTypeOK'
    BY <1>1, <1>5, <1>6, <2>1, <2>2 DEF AjaxInv, AjaxTypeOK, Becomes
  <2>5. A!At(r, "settle").r = r /\ A!At(r, "settle").at = "settle"
    BY DEF A!At
  <2>6. \A f \in Range(stack') : f.r = r => FrameOK(f)'
    BY <1>1, <1>3, <1>6, <1>7, <1>b, <2>1, <2>2, <2>3, <2>5 DEF Becomes, FrameOK, Opening, Closing
  <2>7. RequestOK(r)'
    BY <1>1, <1>3, <1>b, <2>1, <2>2 DEF RequestOK
  <2>8. \A q \in Requests \ {r} : Same(q)
    BY <1>1, <2>1, <2>2 DEF Same
  <2>9. CountOK'
    BY <1>1, <2>2, AjaxUncounted
  <2> QED BY <1>6, <2>4, <2>6, <2>7, <2>8, <2>9, AjaxOne DEF Becomes
<1> QED BY <1>7, <1>a, <1>b

(* The callbacks of a request, one after the other. *)
LEMMA AnswerAppended ==
  ASSUME NEW a \in Words, NEW b \in Words
  PROVE  Append(<<>>, a) = <<a>> /\ Append(<<a>>, b) = <<a, b>>
<1>1. <<>> \in Seq(Words) /\ Len(<<>>) = 0 /\ <<a>> \in Seq(Words) /\ Len(<<a>>) = 1 /\ <<a>>[1] = a
  OBVIOUS
<1>2. <<a, b>> \in Seq(Words) /\ Len(<<a, b>>) = 2 /\ <<a, b>>[1] = a /\ <<a, b>>[2] = b
  OBVIOUS
<1>3. PICK s, t : s = Append(<<>>, a) /\ t = Append(<<a>>, b)
  OBVIOUS
<1>4. s \in Seq(Words) /\ Len(s) = 1 /\ s[1] = a
  BY <1>1, <1>3, AppendProperties
<1>5. t \in Seq(Words) /\ Len(t) = 2 /\ t[1] = a /\ t[2] = b
  BY <1>1, <1>3, AppendProperties
<1>6. (\A i : i \in 1 .. 1 <=> i = 1) /\ (\A i : i \in 1 .. 2 <=> i = 1 \/ i = 2)
  OBVIOUS
<1>7. s = <<a>>
  <2>1. \A i \in 1 .. Len(s) : s[i] = <<a>>[i]
    BY <1>1, <1>4, <1>6
  <2> QED BY <1>1, <1>4, <2>1, SeqEqual
<1>8. t = <<a, b>>
  <2>1. \A i \in 1 .. Len(t) : t[i] = <<a, b>>[i]
    BY <1>2, <1>5, <1>6
  <2> QED BY <1>2, <1>5, <2>1, SeqEqual
<1> QED BY <1>3, <1>7, <1>8

(* success or error is called. *)
LEMMA AjaxSettle ==
  ASSUME AjaxInv, A!Settle
  PROVE  AjaxInv'
<1>1. stack # <<>> /\ A!Top.at = "settle" /\ stack' = <<A!At(A!Top.r, "settled")>> \o Tail(stack)
      /\ phase' = phase /\ opts' = opts /\ timer' = timer /\ xhr' = xhr /\ isSuccess' = isSuccess
      /\ active' = active /\ busy' = busy /\ sent' = sent /\ ended' = ended /\ lost' = lost
      /\ again' = again /\ twice' = twice
  BY DEF A!Settle, A!Replace
<1>2. PICK r \in Requests, p \in Points, S \in SUBSET AjaxFrame : TopIs(r, p, S)
  BY <1>1, AjaxTop
<1>3. r = A!Top.r /\ p = "settle" /\ Range(stack) = {A!At(r, p)} \cup S
      /\ \A g \in S : ~(g.r = r /\ g.at \in Closing)
  BY <1>1, <1>2 DEF TopIs, Closing
<1>4. Becomes(r, {A!At(r, "settled")}, S)
  BY <1>1, <1>2, <1>3, AjaxReplace DEF Points, Opening, Closing
<1>5. A!At(r, p).r = r /\ A!At(r, p).at = p /\ A!At(r, "settled").r = r /\ A!At(r, "settled").at = "settled"
  BY DEF A!At
<1>6. RequestOK(r) /\ (\A f \in Range(stack) : FrameOK(f)) /\ FrameOK(A!At(r, p))
  BY <1>3 DEF AjaxInv
<1>7. phase[r] = 2 /\ r \notin lost /\ r \notin twice /\ (r \in ended => r \in again)
      /\ (r \in sent /\ r \notin ended => got[r] = <<>>)
  <2>1. PICK f : FrameOK(f) /\ f.r = r /\ f.at = "settle"
    BY <1>3, <1>5, <1>6
  <2> QED BY <2>1 DEF FrameOK, Closing
<1>8. PICK w \in {"success", "error"} :
        got' = IF r \in sent /\ (\A i \in DOMAIN got[r] : got[r][i] \notin {"success", "error"})
               THEN [got EXCEPT ![r] = Append(@, w)] ELSE got
  BY <1>3 DEF A!Settle, A!Call
<1>e. r \in sent /\ r \in ended => got' = got
  <2> SUFFICES ASSUME r \in sent, r \in ended PROVE got' = got
    OBVIOUS
  <2>1. got[r] \in Both
    BY <1>6 DEF RequestOK
  <2>2. \A s \in Both : 1 \in DOMAIN s /\ s[1] \in {"success", "error"}
    BY DEF Both
  <2> QED BY <1>8, <2>1, <2>2
<1>s. w \in Words
  BY <1>8 DEF Words
<1>9. got' \in [Requests -> Seq(Words)] /\ \A q \in Requests \ {r} : got'[q] = got[q]
  <2>1. got \in [Requests -> Seq(Words)]
    BY DEF AjaxInv, AjaxTypeOK
  <2>2. got[r] \in Seq(Words)
    BY <2>1
  <2>3. Append(got[r], w) \in Seq(Words)
    BY <1>s, <2>2, AppendProperties
  <2> QED BY <1>8, <2>1, <2>3
<1>10. IF r \in sent /\ r \notin ended THEN got'[r] \in First ELSE got'[r] = got[r]
  <2>1. CASE r \in sent /\ r \notin ended
    <3>1. got'[r] = Append(got[r], w)
      <4>1. \A i \in DOMAIN got[r] : got[r][i] \notin {"success", "error"}
        BY <1>7, <2>1
      <4> QED BY <1>8, <2>1, <4>1 DEF AjaxInv, AjaxTypeOK
    <3>2. "success" \in Words /\ "error" \in Words /\ "complete" \in Words
      BY DEF Words
    <3>3. \A a, b \in Words : Append(<<>>, a) = <<a>> /\ Append(<<a>>, b) = <<a, b>>
      BY AnswerAppended
    <3> QED BY <1>7, <1>8, <2>1, <3>1, <3>2, <3>3, Zenon DEF First, Both
  <2>2. CASE ~(r \in sent /\ r \notin ended)
    BY <1>8, <1>e, <2>2
  <2> QED BY <2>1, <2>2
<1>11. AjaxTypeOK'
  BY <1>1, <1>4, <1>9 DEF AjaxInv, AjaxTypeOK, Becomes
<1>12. \A f \in Range(stack') : f.r = r => FrameOK(f)'
  <2> SUFFICES ASSUME NEW f \in Range(stack'), f.r = r PROVE FrameOK(f)'
    OBVIOUS
  <2>1. CASE f \in S
    BY <1>1, <1>3, <1>6, <2>1 DEF FrameOK, Closing
  <2>2. CASE f = A!At(r, "settled")
    BY <1>1, <1>5, <1>7, <1>10, <2>2 DEF FrameOK, Opening, Closing
  <2> QED BY <1>4, <2>1, <2>2 DEF Becomes
<1>13. RequestOK(r)'
  <2>1. Has(r, Closing)'
    BY <1>4, <1>5 DEF Becomes, Has, Closing
  <2> QED BY <1>1, <1>6, <1>7, <1>10, <2>1 DEF RequestOK
<1>14. \A q \in Requests \ {r} : Same(q)
  BY <1>1, <1>9 DEF Same
<1>15. CountOK'
  BY <1>1, AjaxUncounted
<1> QED BY <1>4, <1>11, <1>12, <1>13, <1>14, <1>15, AjaxOne DEF Becomes

(* complete is called after one of them. *)
LEMMA AjaxComplete ==
  ASSUME AjaxInv, A!Complete
  PROVE  AjaxInv'
<1>1. stack # <<>> /\ A!Top.at = "settled" /\ stack' = <<A!At(A!Top.r, "completed")>> \o Tail(stack)
      /\ phase' = phase /\ opts' = opts /\ timer' = timer /\ xhr' = xhr /\ isSuccess' = isSuccess
      /\ active' = active /\ busy' = busy /\ sent' = sent /\ ended' = ended /\ lost' = lost
      /\ again' = again /\ twice' = twice
  BY DEF A!Complete, A!Replace
<1>2. PICK r \in Requests, p \in Points, S \in SUBSET AjaxFrame : TopIs(r, p, S)
  BY <1>1, AjaxTop
<1>3. r = A!Top.r /\ p = "settled" /\ Range(stack) = {A!At(r, p)} \cup S
      /\ \A g \in S : ~(g.r = r /\ g.at \in Closing)
  BY <1>1, <1>2 DEF TopIs, Closing
<1>4. Becomes(r, {A!At(r, "completed")}, S)
  BY <1>1, <1>2, <1>3, AjaxReplace DEF Points, Opening, Closing
<1>5. A!At(r, p).r = r /\ A!At(r, p).at = p /\ A!At(r, "completed").r = r /\ A!At(r, "completed").at = "completed"
  BY DEF A!At
<1>6. RequestOK(r) /\ (\A f \in Range(stack) : FrameOK(f)) /\ FrameOK(A!At(r, p))
  BY <1>3 DEF AjaxInv
<1>7. phase[r] = 2 /\ r \notin lost /\ r \notin twice /\ (r \in ended => r \in again)
      /\ (r \in sent /\ r \notin ended => got[r] \in First)
  <2>1. PICK f : FrameOK(f) /\ f.r = r /\ f.at = "settled"
    BY <1>3, <1>5, <1>6
  <2> QED BY <2>1 DEF FrameOK, Closing
<1>8. PICK w \in {"complete"} :
        got' = IF r \in sent /\ (\A i \in DOMAIN got[r] : got[r][i] \notin {"complete"})
               THEN [got EXCEPT ![r] = Append(@, w)] ELSE got
  BY <1>3 DEF A!Complete, A!Call
<1>e. r \in sent /\ r \in ended => got' = got
  <2> SUFFICES ASSUME r \in sent, r \in ended PROVE got' = got
    OBVIOUS
  <2>1. got[r] \in Both
    BY <1>6 DEF RequestOK
  <2>2. \A s \in Both : 2 \in DOMAIN s /\ s[2] = "complete"
    BY DEF Both
  <2> QED BY <1>8, <2>1, <2>2
<1>s. w \in Words
  BY <1>8 DEF Words
<1>9. got' \in [Requests -> Seq(Words)] /\ \A q \in Requests \ {r} : got'[q] = got[q]
  <2>1. got \in [Requests -> Seq(Words)]
    BY DEF AjaxInv, AjaxTypeOK
  <2>2. got[r] \in Seq(Words)
    BY <2>1
  <2>3. Append(got[r], w) \in Seq(Words)
    BY <1>s, <2>2, AppendProperties
  <2> QED BY <1>8, <2>1, <2>3
<1>10. IF r \in sent /\ r \notin ended THEN got'[r] \in Both ELSE got'[r] = got[r]
  <2>1. CASE r \in sent /\ r \notin ended
    <3>1. got'[r] = Append(got[r], w)
      <4>1. \A s \in First : \A i \in DOMAIN s : s[i] # "complete"
        BY DEF First
      <4>2. \A i \in DOMAIN got[r] : got[r][i] \notin {"complete"}
        BY <1>7, <2>1, <4>1
      <4> QED BY <1>8, <2>1, <4>2 DEF AjaxInv, AjaxTypeOK
    <3>2. "success" \in Words /\ "error" \in Words /\ "complete" \in Words
      BY DEF Words
    <3>3. \A a, b \in Words : Append(<<>>, a) = <<a>> /\ Append(<<a>>, b) = <<a, b>>
      BY AnswerAppended
    <3> QED BY <1>7, <1>8, <2>1, <3>1, <3>2, <3>3, Zenon DEF First, Both
  <2>2. CASE ~(r \in sent /\ r \notin ended)
    BY <1>8, <1>e, <2>2
  <2> QED BY <2>1, <2>2
<1>11. AjaxTypeOK'
  BY <1>1, <1>4, <1>9 DEF AjaxInv, AjaxTypeOK, Becomes
<1>12. \A f \in Range(stack') : f.r = r => FrameOK(f)'
  <2> SUFFICES ASSUME NEW f \in Range(stack'), f.r = r PROVE FrameOK(f)'
    OBVIOUS
  <2>1. CASE f \in S
    BY <1>1, <1>3, <1>6, <2>1 DEF FrameOK, Closing
  <2>2. CASE f = A!At(r, "completed")
    BY <1>1, <1>5, <1>7, <1>10, <2>2 DEF FrameOK, Opening, Closing
  <2> QED BY <1>4, <2>1, <2>2 DEF Becomes
<1>13. RequestOK(r)'
  <2>1. Has(r, Closing)'
    BY <1>4, <1>5 DEF Becomes, Has, Closing
  <2> QED BY <1>1, <1>6, <1>7, <1>10, <2>1 DEF RequestOK
<1>14. \A q \in Requests \ {r} : Same(q)
  BY <1>1, <1>9 DEF Same
<1>15. CountOK'
  BY <1>1, AjaxUncounted
<1> QED BY <1>4, <1>11, <1>12, <1>13, <1>14, <1>15, AjaxOne DEF Becomes

(* ajaxStop was announced. *)
LEMMA AjaxStopped ==
  ASSUME AjaxInv, A!Stopped
  PROVE  AjaxInv'
<1>1. stack # <<>> /\ A!Top.at = "ajaxStop" /\ stack' = Tail(stack)
      /\ phase' = phase /\ opts' = opts /\ timer' = timer /\ xhr' = xhr /\ isSuccess' = isSuccess
      /\ active' = active /\ busy' = busy /\ got' = got /\ sent' = sent /\ ended' = ended /\ lost' = lost
      /\ again' = again /\ twice' = twice
  BY DEF A!Stopped
<1>2. PICK r \in Requests, p \in Points, S \in SUBSET AjaxFrame : TopIs(r, p, S)
  BY <1>1, AjaxTop
<1>3. p = "ajaxStop" /\ Range(stack) = {A!At(r, p)} \cup S
  BY <1>1, <1>2 DEF TopIs
<1>4. Becomes(r, {}, S)
  BY <1>1, <1>2, AjaxPop
<1>5. A!At(r, p).r = r /\ A!At(r, p).at = p
  BY DEF A!At
<1>6. AjaxTypeOK'
  BY <1>1, <1>4 DEF AjaxInv, AjaxTypeOK, Becomes
<1>7. RequestOK(r) /\ \A f \in Range(stack) : FrameOK(f)
  BY DEF AjaxInv
<1>8. \A f \in Range(stack') : f.r = r => FrameOK(f)'
  BY <1>1, <1>3, <1>4, <1>7 DEF Becomes, FrameOK
<1>9. RequestOK(r)'
  BY <1>1, <1>3, <1>4, <1>5, <1>7 DEF Becomes, RequestOK, Has, Opening, Closing
<1>10. \A q \in Requests \ {r} : Same(q)
  BY <1>1 DEF Same
<1>11. CountOK'
  BY <1>1, AjaxUncounted
<1> QED BY <1>4, <1>6, <1>8, <1>9, <1>10, <1>11, AjaxOne DEF Becomes

(* The end of done(): the request is no longer counted. *)
LEMMA AjaxUncount ==
  ASSUME AjaxInv, A!Uncount, IsFiniteSet(Requests)
  PROVE  AjaxInv'
<1>1. stack # <<>> /\ A!Top.at = "completed"
      /\ active' = (IF opts[A!Top.r].global THEN active - 1 ELSE active)
      /\ busy' = (busy /\ ~(opts[A!Top.r].global /\ active' = 0))
      /\ stack' = (IF opts[A!Top.r].global /\ active' = 0 THEN <<A!At(A!Top.r, "ajaxStop")>> \o Tail(stack)
                                                          ELSE Tail(stack))
      /\ ended' = ended \cup {A!Top.r}
      /\ phase' = phase /\ opts' = opts /\ timer' = timer /\ xhr' = xhr /\ isSuccess' = isSuccess
      /\ got' = got /\ sent' = sent /\ lost' = lost /\ again' = again
      /\ twice' = (IF A!Top.r \in again THEN twice \cup {A!Top.r} ELSE twice)
  BY DEF A!Uncount, A!Replace
<1>2. PICK r \in Requests, p \in Points, S \in SUBSET AjaxFrame : TopIs(r, p, S)
  BY <1>1, AjaxTop
<1>3. r = A!Top.r /\ p = "completed" /\ Range(stack) = {A!At(r, p)} \cup S
      /\ \A g \in S : ~(g.r = r /\ g.at \in Closing)
  BY <1>1, <1>2 DEF TopIs, Closing
<1>4. PICK F : F \subseteq {A!At(r, "ajaxStop")} /\ Becomes(r, F, S)
  <2>1. CASE stack' = Tail(stack)
    BY <1>2, <2>1, AjaxPop
  <2>2. CASE stack' = <<A!At(r, "ajaxStop")>> \o Tail(stack)
    <3>1. Becomes(r, {A!At(r, "ajaxStop")}, S)
      BY <1>2, <2>2, AjaxReplace DEF Points, Opening, Closing
    <3> QED BY <3>1
  <2> QED BY <1>1, <1>3, <2>1, <2>2
<1>5. A!At(r, p).r = r /\ A!At(r, p).at = p /\ A!At(r, "ajaxStop").r = r /\ A!At(r, "ajaxStop").at = "ajaxStop"
  BY DEF A!At
<1>6. RequestOK(r) /\ (\A f \in Range(stack) : FrameOK(f)) /\ FrameOK(A!At(r, p))
  BY <1>3 DEF AjaxInv
<1>7. phase[r] = 2 /\ r \notin lost /\ r \notin twice /\ (r \in ended => r \in again)
      /\ (r \in sent => got[r] \in Both)
  <2>1. PICK f : FrameOK(f) /\ f.r = r /\ f.at = "completed"
    BY <1>3, <1>5, <1>6
  <2> QED BY <1>6, <2>1 DEF FrameOK, RequestOK, Closing
<1>8. opts[r].global \in BOOLEAN /\ busy \in BOOLEAN /\ active \in Int
  BY DEF AjaxInv, AjaxTypeOK
<1>9. PICK m, n : /\ m = Cardinality(Counted) /\ n = Cardinality(twice) /\ m \in Nat /\ n \in Nat
                  /\ IsFiniteSet(Counted) /\ IsFiniteSet(twice)
                  /\ active = m - n /\ (twice = {} => n = 0 /\ (busy <=> active # 0))
  <2>1. Counted \subseteq Requests /\ twice \subseteq Requests
    BY DEF Counted, AjaxInv, AjaxTypeOK
  <2>2. IsFiniteSet(Counted) /\ IsFiniteSet(twice)
    BY <2>1, FS_Subset
  <2>3. Cardinality(Counted) \in Nat /\ Cardinality(twice) \in Nat
    BY <2>2, FS_CardinalityType
  <2>4. twice = {} => Cardinality(twice) = 0
    BY FS_EmptySet
  <2> QED BY <2>2, <2>3, <2>4 DEF AjaxInv, CountOK
<1>10. active' \in Int /\ CountOK'
  <2>1. CASE opts[r].global /\ r \in again
    <3>1. Counted' = Counted
      BY <1>1, <1>3, <1>6, <2>1 DEF Counted, RequestOK
    <3>2. twice' = twice \cup {r} /\ active' = active - 1
      BY <1>1, <1>3, <2>1
    <3>3. Cardinality(twice \cup {r}) = Cardinality(twice) + 1
      BY <1>7, <1>9, FS_AddElement
    <3>4. active' = Cardinality(Counted') - Cardinality(twice') /\ active' \in Int
      BY <1>8, <1>9, <3>1, <3>2, <3>3
    <3> QED BY <3>2, <3>4 DEF CountOK
  <2>2. CASE opts[r].global /\ r \notin again
    <3>1. r \in Counted
      BY <1>7, <2>2 DEF Counted
    <3>2. Counted' = Counted \ {r}
      BY <1>1, <1>3 DEF Counted
    <3>3. Cardinality(Counted \ {r}) = Cardinality(Counted) - 1 /\ Cardinality(Counted \ {r}) \in Nat
      BY <1>9, <3>1, FS_RemoveElement, FS_CardinalityType
    <3>4. twice' = twice /\ active' = active - 1
      BY <1>1, <1>3, <2>2
    <3>5. active' = Cardinality(Counted') - Cardinality(twice') /\ active' \in Int
      BY <1>8, <1>9, <3>2, <3>3, <3>4
    <3>6. twice = {} => active # 0
      BY <1>9, <3>3
    <3>7. busy' <=> (busy /\ ~(active' = 0))
      BY <1>1, <1>3, <2>2
    <3>8. twice' = {} => (busy' <=> active' # 0)
      BY <1>9, <3>4, <3>6, <3>7, Zenon
    <3> QED BY <3>5, <3>8 DEF CountOK
  <2>3. CASE ~opts[r].global
    <3>1. r \notin again
      BY <1>6, <2>3 DEF RequestOK
    <3>2. Counted' = Counted
      BY <1>1, <1>3, <2>3 DEF Counted
    <3>3. active' = active /\ busy' = busy /\ twice' = twice
      BY <1>1, <1>3, <1>8, <2>3, <3>1
    <3>4. twice' = {} => (busy' <=> active' # 0)
      BY <1>9, <3>3, Zenon
    <3> QED BY <1>8, <1>9, <3>2, <3>3, <3>4 DEF CountOK
  <2> QED BY <2>1, <2>2, <2>3
<1>11. AjaxTypeOK'
  <2>1. busy' \in BOOLEAN
    BY <1>1, <1>3, <1>8, Zenon
  <2>2. twice' \subseteq Requests
    BY <1>1, <1>3 DEF AjaxInv, AjaxTypeOK
  <2> QED BY <1>1, <1>3, <1>4, <1>10, <2>1, <2>2 DEF AjaxInv, AjaxTypeOK, Becomes
<1>12. \A f \in Range(stack') : f.r = r => FrameOK(f)'
  <2> SUFFICES ASSUME NEW f \in Range(stack'), f.r = r PROVE FrameOK(f)'
    OBVIOUS
  <2>1. CASE f \in S
    BY <1>1, <1>3, <1>6, <2>1 DEF FrameOK, Closing
  <2>2. CASE f = A!At(r, "ajaxStop")
    BY <1>1, <1>3, <1>5, <1>7, <2>2 DEF FrameOK, Opening, Closing
  <2> QED BY <1>4, <2>1, <2>2 DEF Becomes
<1>13. RequestOK(r)'
  BY <1>1, <1>3, <1>6, <1>7 DEF RequestOK
<1>14. \A q \in Requests \ {r} : Same(q)
  BY <1>1, <1>3 DEF Same
<1> QED BY <1>4, <1>10, <1>11, <1>12, <1>13, <1>14, AjaxOne DEF Becomes

(* ajax() counts the request and comes to its first point. *)
LEMMA AjaxCall ==
  ASSUME AjaxInv, IsFiniteSet(Requests), NEW r \in Requests, NEW o \in [global : BOOLEAN, timeout : BOOLEAN],
         A!ajax(r, o)
  PROVE  AjaxInv'
<1>1. phase[r] = -1 /\ phase' = [phase EXCEPT ![r] = 0] /\ opts' = [opts EXCEPT ![r] = o]
      /\ active' = (IF o.global THEN active + 1 ELSE active)
      /\ busy' = (busy \/ (o.global /\ active = 0))
      /\ timer' = timer /\ xhr' = xhr /\ isSuccess' = isSuccess
      /\ got' = got /\ sent' = sent /\ ended' = ended /\ lost' = lost
      /\ again' = again /\ twice' = twice
  BY DEF A!ajax, A!Unused
<1>2. PICK q \in {"ajaxStart", "beforeSend"} : stack' = <<A!At(r, q)>> \o stack
  BY DEF A!ajax
<1>3. RequestOK(r) /\ \A f \in Range(stack) : FrameOK(f)
  BY DEF AjaxInv
<1>4. \A f \in Range(stack) : f.r # r
  BY <1>1, <1>3 DEF FrameOK
<1>5. Becomes(r, {A!At(r, q)}, Range(stack))
  <2>1. q \in Points
    BY DEF Points, Opening
  <2> QED BY <1>2, <1>4, <2>1, AjaxPush DEF Has
<1>6. A!At(r, q).r = r /\ A!At(r, q).at = q /\ q \in Opening /\ q \notin Closing /\ q # "ajaxStop"
  BY <1>2 DEF A!At, Opening, Closing
<1>7. r \notin lost /\ r \notin ended /\ r \notin sent /\ got[r] = <<>> /\ xhr[r] = FALSE /\ timer[r] = FALSE
      /\ r \notin again /\ r \notin twice
  BY <1>1, <1>3 DEF RequestOK, AjaxInv, AjaxTypeOK
<1>8. phase'[r] = 0 /\ opts'[r] = o /\ \A x \in Requests \ {r} : phase'[x] = phase[x] /\ opts'[x] = opts[x]
  BY <1>1 DEF AjaxInv, AjaxTypeOK
<1>9. PICK m, n : /\ m = Cardinality(Counted) /\ n = Cardinality(twice) /\ m \in Nat /\ n \in Nat
                  /\ IsFiniteSet(Counted)
                  /\ active = m - n /\ (twice = {} => n = 0 /\ (busy <=> active # 0))
  <2>1. Counted \subseteq Requests /\ twice \subseteq Requests
    BY DEF Counted, AjaxInv, AjaxTypeOK
  <2>2. IsFiniteSet(Counted) /\ IsFiniteSet(twice)
    BY <2>1, FS_Subset
  <2>3. Cardinality(Counted) \in Nat /\ Cardinality(twice) \in Nat
    BY <2>2, FS_CardinalityType
  <2>4. twice = {} => Cardinality(twice) = 0
    BY FS_EmptySet
  <2> QED BY <2>2, <2>3, <2>4 DEF AjaxInv, CountOK
<1>10. o.global \in BOOLEAN /\ busy \in BOOLEAN /\ active \in Int
  BY DEF AjaxInv, AjaxTypeOK
<1>11. active' \in Int /\ CountOK'
  <2>1. CASE o.global
    <3>1. r \notin Counted
      BY <1>1 DEF Counted
    <3>2. Counted' = Counted \cup {r}
      BY <1>1, <1>7, <1>8, <2>1 DEF Counted
    <3>3. Cardinality(Counted \cup {r}) = Cardinality(Counted) + 1
      BY <1>9, <3>1, FS_AddElement
    <3>4. active' = active + 1
      BY <1>1, <2>1
    <3>5. active' \in Int /\ active' = Cardinality(Counted') - Cardinality(twice')
      BY <1>1, <1>9, <1>10, <3>2, <3>3, <3>4
    <3>6. twice = {} => active' # 0
      BY <1>9, <3>4
    <3>7. twice = {} => busy'
      BY <1>1, <1>9, <2>1, Zenon
    <3> QED BY <1>1, <3>5, <3>6, <3>7, Zenon DEF CountOK
  <2>2. CASE ~o.global
    <3>1. Counted' = Counted
      BY <1>1, <1>8, <2>2 DEF Counted
    <3>2. active' = active /\ busy' = busy
      BY <1>1, <1>10, <2>2
    <3>3. twice' = {} => (busy' <=> active' # 0)
      <4>1. twice' = twice
        BY <1>1
      <4> QED BY <1>9, <3>2, <4>1, Zenon
    <3>4. active' = Cardinality(Counted') - Cardinality(twice')
      BY <1>1, <1>9, <3>1, <3>2
    <3> QED BY <1>10, <3>2, <3>3, <3>4 DEF CountOK
  <2> QED BY <2>1, <2>2
<1>12. AjaxTypeOK'
  <2>1. busy' \in BOOLEAN
    BY <1>1, <1>10, Zenon
  <2>2. phase' \in [Requests -> {-1, 0, 1, 2}] /\ opts' \in [Requests -> [global : BOOLEAN, timeout : BOOLEAN]]
    BY <1>1 DEF AjaxInv, AjaxTypeOK
  <2> QED BY <1>1, <1>5, <1>11, <2>1, <2>2 DEF AjaxInv, AjaxTypeOK, Becomes
<1>13. \A f \in Range(stack') : f.r = r => FrameOK(f)'
  <2> SUFFICES ASSUME NEW f \in Range(stack'), f.r = r PROVE FrameOK(f)'
    OBVIOUS
  <2>1. f.r = r /\ f.at \in {"ajaxStart", "beforeSend"}
    BY <1>2, <1>4, <1>5, <1>6 DEF Becomes
  <2>2. phase'[r] = 0 /\ r \notin sent' /\ r \notin lost' /\ r \notin again'
    BY <1>1, <1>7, <1>8
  <2> QED BY <2>1, <2>2 DEF FrameOK, Opening, Closing
<1>14. RequestOK(r)'
  <2>1. Has(r, Opening)'
    BY <1>5, <1>6 DEF Becomes, Has
  <2> QED BY <1>1, <1>7, <1>8, <2>1 DEF RequestOK
<1>15. \A x \in Requests \ {r} : Same(x)
  BY <1>1, <1>8 DEF Same
<1> QED BY <1>5, <1>11, <1>12, <1>13, <1>14, <1>15, AjaxOne DEF Becomes

(* Nothing changes. *)
LEMMA AjaxNothing ==
  ASSUME AjaxInv, UNCHANGED A!vars
  PROVE  AjaxInv'
<1>1. /\ stack' = stack /\ phase' = phase /\ opts' = opts /\ timer' = timer /\ xhr' = xhr /\ isSuccess' = isSuccess
      /\ active' = active /\ busy' = busy /\ got' = got /\ sent' = sent /\ ended' = ended /\ lost' = lost
      /\ again' = again /\ twice' = twice
  BY DEF A!vars
<1>2. AjaxTypeOK' /\ Lowest(stack') /\ OneAt(stack', Closing)
  BY <1>1 DEF AjaxInv, AjaxTypeOK
<1>3. \A f \in Range(stack') : FrameOK(f)'
  BY <1>1 DEF AjaxInv, FrameOK
<1>4. \A r \in Requests : RequestOK(r)'
  BY <1>1 DEF AjaxInv, RequestOK, Has
<1>5. CountOK'
  BY <1>1, Zenon DEF AjaxInv, CountOK, Counted
<1> QED BY <1>2, <1>3, <1>4, <1>5 DEF AjaxInv

(* User code aborts a request: one that is settled stays as it is. *)
LEMMA AjaxAbort ==
  ASSUME AjaxInv, NEW r \in Requests, phase[r] \in {0, 1, 2}, A!abort(r, stack),
         lost' = IF phase[r] = 2 THEN lost ELSE lost \ {r},
         opts' = opts, active' = active, busy' = busy, got' = got, sent' = sent, ended' = ended,
         again' = again, twice' = twice
  PROVE  AjaxInv'
<1>1. RequestOK(r) /\ \A f \in Range(stack) : FrameOK(f)
  BY DEF AjaxInv
<1>2. xhr' = [xhr EXCEPT ![r] = FALSE]
  BY DEF A!abort
<1>a. CASE phase[r] = 2
  <2>1. xhr \in [Requests -> BOOLEAN] /\ xhr[r] = FALSE
    BY <1>1, <1>a DEF AjaxInv, AjaxTypeOK, RequestOK
  <2>2. xhr' = xhr
    BY <1>2, <2>1
  <2>3. stack' = stack /\ phase' = phase /\ timer' = timer /\ isSuccess' = isSuccess /\ lost' = lost
      /\ again' = again /\ twice' = twice
    BY <1>a DEF A!abort, A!done, A!answer
  <2> QED BY <2>2, <2>3, AjaxNothing DEF A!vars
<1>b. CASE phase[r] \in {0, 1}
  <2>1. /\ stack' = <<A!At(r, "settle")>> \o stack /\ phase' = [phase EXCEPT ![r] = 2]
        /\ timer' = [timer EXCEPT ![r] = FALSE] /\ isSuccess' = [isSuccess EXCEPT ![r] = FALSE]
        /\ lost' = lost \ {r}
    BY <1>b DEF A!abort, A!done, A!answer
  <2>2. ~Has(r, Closing)
    BY <1>1, <1>b DEF Has, FrameOK
  <2>3. Becomes(r, {A!At(r, "settle")}, Range(stack))
    BY <2>1, <2>2, AjaxPush DEF Points, Opening, Closing
  <2> QED BY <1>2, <1>b, <2>1, <2>3, AjaxDone
<1> QED BY <1>a, <1>b

(* done() from the event loop: the transport answers or the timer rings. *)
LEMMA AjaxEvent ==
  ASSUME AjaxInv, NEW r \in Requests, NEW ok \in BOOLEAN, stack = <<>>, phase[r] = 1,
         A!done(r, ok, <<>>), xhr' = [xhr EXCEPT ![r] = FALSE],
         lost' = lost, opts' = opts, active' = active, busy' = busy, got' = got, sent' = sent, ended' = ended,
         again' = again, twice' = twice
  PROVE  AjaxInv'
<1>1. /\ stack' = <<A!At(r, "settle")>> \o stack /\ phase' = [phase EXCEPT ![r] = 2]
      /\ timer' = [timer EXCEPT ![r] = FALSE] /\ isSuccess' = [isSuccess EXCEPT ![r] = ok]
  BY DEF A!done, A!answer
<1>2. Range(stack) = {}
  BY RangeEmpty
<1>3. Becomes(r, {A!At(r, "settle")}, Range(stack))
  BY <1>1, <1>2, AjaxPush DEF Points, Opening, Closing, Has
<1>4. r \notin lost
  BY DEF AjaxInv, RequestOK
<1> QED BY <1>1, <1>3, <1>4, AjaxDone

(* User code throws, and the activations on the stack are lost. *)
LEMMA AjaxThrow ==
  ASSUME AjaxInv, A!Throw
  PROVE  AjaxInv'
<1>1. /\ lost' = lost \cup ({stack[i].r : i \in DOMAIN stack} \ ended) /\ stack' = <<>>
      /\ phase' = phase /\ opts' = opts /\ timer' = timer /\ xhr' = xhr /\ isSuccess' = isSuccess
      /\ active' = active /\ busy' = busy /\ got' = got /\ sent' = sent /\ ended' = ended
      /\ again' = again /\ twice' = twice
  BY DEF A!Throw
<1>2. stack \in Seq(AjaxFrame) /\ Range(stack) \subseteq AjaxFrame /\ \A f \in Range(stack) : FrameOK(f)
  BY RangeType DEF AjaxInv, AjaxTypeOK
<1>3. {stack[i].r : i \in DOMAIN stack} = {f.r : f \in Range(stack)}
  <2>1. DOMAIN stack = 1 .. Len(stack) /\ Range(stack) = {stack[i] : i \in 1 .. Len(stack)}
    BY <1>2, RangeEquality
  <2> QED BY <2>1
<1>4. \A q : q \in lost' <=> q \in lost \/ (q \notin ended /\ \E f \in Range(stack) : f.r = q)
  BY <1>1, <1>3
<1>5. Range(stack') = {} /\ Len(stack') = 0 /\ stack' \in Seq(AjaxFrame)
  BY <1>1, RangeEmpty, EmptySeq
<1>6. AjaxTypeOK'
  <2>1. \A f \in Range(stack) : f.r \in Requests
    BY <1>2 DEF AjaxFrame
  <2>2. lost' \subseteq Requests
    <3> SUFFICES ASSUME NEW q, q \in lost' PROVE q \in Requests
      OBVIOUS
    <3>1. lost \subseteq Requests
      BY DEF AjaxInv, AjaxTypeOK
    <3> QED BY <1>4, <2>1, <3>1
  <2> QED BY <1>1, <1>5, <2>2 DEF AjaxInv, AjaxTypeOK
<1>7. ASSUME NEW q \in Requests PROVE RequestOK(q)'
  <2>1. RequestOK(q)
    BY DEF AjaxInv
  <2>2. \A f \in Range(stack) : f.r = q /\ q \notin ended => phase[q] \in {0, 2}
    <3> SUFFICES ASSUME NEW f \in Range(stack), f.r = q, q \notin ended PROVE phase[q] \in {0, 2}
      OBVIOUS
    <3>1. f.at \in Opening \cup Closing \cup {"ajaxStop"} /\ FrameOK(f)
      BY <1>2 DEF AjaxFrame
    <3> QED BY <3>1 DEF FrameOK
  <2>3. q \in lost' => q \in lost \/ (q \notin ended /\ phase[q] \in {0, 2})
    BY <1>4, <2>2
  <2>4. Has(q, Opening) => q \in lost' \/ q \in ended
    BY <1>4 DEF Has
  <2>5. Has(q, Closing) => q \in lost' \/ q \in ended
    BY <1>4 DEF Has
  <2>6. q \in lost => q \in lost'
    BY <1>4
  <2>7. phase[q] = 0 => q \notin ended
    BY <2>1 DEF RequestOK
  <2> QED BY <1>1, <2>1, <2>3, <2>4, <2>5, <2>6, <2>7 DEF RequestOK
<1>8. Lowest(stack') /\ OneAt(stack', Closing)
  BY <1>5 DEF Lowest, OneAt
<1>9. CountOK'
  BY <1>1, AjaxUncounted
<1> QED BY <1>5, <1>6, <1>7, <1>8, <1>9 DEF AjaxInv

(* Every step of jQuery.ajax preserves the invariant. *)
LEMMA AjaxStep ==
  ASSUME AjaxInv, IsFiniteSet(Requests), [A!Next]_A!vars
  PROVE  AjaxInv'
<1>1. CASE A!Running
  BY <1>1, AjaxStarted, AjaxCancel, AjaxAnnounced, AjaxSends, AjaxSendFails, AjaxSettle, AjaxComplete, AjaxUncount, AjaxStopped
     DEF A!Running
<1>2. CASE A!Script
  <2>1. ASSUME NEW r \in Requests, NEW g \in BOOLEAN, NEW t \in BOOLEAN, A!ajax(r, [global |-> g, timeout |-> t])
        PROVE  AjaxInv'
    <3>1. [global |-> g, timeout |-> t] \in [global : BOOLEAN, timeout : BOOLEAN]
      OBVIOUS
    <3> QED BY <2>1, <3>1, AjaxCall
  <2>2. ASSUME NEW r \in Requests, phase[r] \in {0, 1, 2}, A!abort(r, stack),
               lost' = IF phase[r] = 2 THEN lost ELSE lost \ {r},
               UNCHANGED <<opts, active, busy, got, sent, ended, again, twice>>
        PROVE  AjaxInv'
    BY <2>2, AjaxAbort
  <2> QED BY <1>2, <2>1, <2>2 DEF A!Script
<1>3. CASE A!Throw
  BY <1>3, AjaxThrow
<1>4. ASSUME NEW r \in Requests, A!Timeout(r) PROVE AjaxInv'
  <2>1. phase[r] = 1
    BY <1>4 DEF A!Timeout, AjaxInv, RequestOK
  <2> QED BY <1>4, <2>1, AjaxEvent DEF A!Timeout, A!abort
<1>5. ASSUME NEW r \in Requests, NEW a \in A!Answers, A!Answer(r, a) PROVE AjaxInv'
  <2>1. phase[r] = 1
    BY <1>5 DEF A!Answer, AjaxInv, RequestOK
  <2>2. (a \in {"ok", "notmodified", "nocontent"}) \in BOOLEAN
    OBVIOUS
  <2>3. stack = <<>> /\ xhr' = [xhr EXCEPT ![r] = FALSE] /\ A!done(r, a \in {"ok", "notmodified", "nocontent"}, <<>>)
        /\ UNCHANGED <<opts, active, busy, got, sent, ended, lost, again, twice>>
    BY <1>5 DEF A!Answer
  <2> QED BY <2>1, <2>2, <2>3, AjaxEvent
<1>6. CASE UNCHANGED A!vars
  BY <1>6, AjaxNothing
<1> QED BY <1>1, <1>2, <1>3, <1>4, <1>5, <1>6 DEF A!Next

(* When no code runs, a request that is not in flight, lost or unused has  *)
(* ended.                                                                  *)
LEMMA AjaxIdle ==
  ASSUME AjaxInv, stack = <<>>
  PROVE  /\ Counted = {r \in A!InFlight \cup lost : opts[r].global}
         /\ \A r \in Requests \ lost : phase[r] = 2 => r \in ended
<1>1. \A r, P : ~Has(r, P)
  BY RangeEmpty DEF Has
<1>2. \A r \in Requests : RequestOK(r)
  BY DEF AjaxInv
<1>3. phase \in [Requests -> {-1, 0, 1, 2}] /\ lost \subseteq Requests
  BY DEF AjaxInv, AjaxTypeOK
<1>4. \A r \in Requests : phase[r] # -1 /\ r \notin ended <=> xhr[r] \/ r \in lost
  <2> SUFFICES ASSUME NEW r \in Requests PROVE phase[r] # -1 /\ r \notin ended <=> xhr[r] \/ r \in lost
    OBVIOUS
  <2>1. RequestOK(r) /\ ~Has(r, Opening) /\ ~Has(r, Closing) /\ phase[r] \in {-1, 0, 1, 2}
    BY <1>1, <1>2, <1>3
  <2> QED BY <2>1 DEF RequestOK
<1>5. Counted = {r \in A!InFlight \cup lost : opts[r].global}
  BY <1>3, <1>4 DEF Counted, A!InFlight
<1>6. \A r \in Requests \ lost : phase[r] = 2 => r \in ended
  BY <1>1, <1>2 DEF RequestOK
<1> QED BY <1>5, <1>6

(* A settled request has called success or error once, then complete once. *)
(* One that is not ended is on its way there.                              *)
LEMMA AjaxAnswers ==
  ASSUME AjaxInv
  PROVE  A!OneAnswer
<1> SUFFICES ASSUME NEW r \in Requests \ lost
             PROVE  /\ got[r] \in {<<>>} \cup First \cup Both
                    /\ phase[r] = 2 => ~timer[r] /\ ~xhr[r]
                    /\ stack = <<>> /\ phase[r] = 2 => Len(got[r]) = IF r \in sent THEN 2 ELSE 0
  BY DEF A!OneAnswer, First, Both
<1>1. RequestOK(r) /\ \A f \in Range(stack) : FrameOK(f)
  BY DEF AjaxInv
<1>2. got[r] \in {<<>>} \cup First \cup Both
  <2>1. CASE Has(r, Closing)
    <3>1. PICK f : FrameOK(f) /\ f.r = r /\ f.at \in Closing
      BY <1>1, <2>1 DEF Has
    <3>2. r \in sent /\ r \notin ended => got[r] \in {<<>>} \cup First \cup Both
      BY <3>1 DEF FrameOK, Closing
    <3> QED BY <1>1, <3>2 DEF RequestOK
  <2>2. CASE ~Has(r, Closing)
    BY <1>1, <2>2 DEF RequestOK
  <2> QED BY <2>1, <2>2
<1>3. phase[r] = 2 => ~timer[r] /\ ~xhr[r]
  BY <1>1 DEF RequestOK
<1>4. ASSUME stack = <<>>, phase[r] = 2 PROVE Len(got[r]) = IF r \in sent THEN 2 ELSE 0
  <2>1. IF r \in sent THEN got[r] \in Both ELSE got[r] = <<>>
    BY <1>1, <1>4, AjaxIdle DEF RequestOK
  <2>2. \A s \in Both : Len(s) = 2
    BY DEF Both
  <2> QED BY <2>1, <2>2
<1> QED BY <1>2, <1>3, <1>4

(* ajaxStart and ajaxStop bracket the requests in flight. *)
LEMMA AjaxBracket ==
  ASSUME AjaxInv, IsFiniteSet(Requests)
  PROVE  A!Bracket
<1>1. stack = <<>> => Counted = {r \in A!InFlight \cup lost : opts[r].global}
  BY AjaxIdle
<1>2. IsFiniteSet(Counted)
  <2>1. Counted \subseteq Requests
    BY DEF Counted
  <2> QED BY <2>1, FS_Subset
<1>3. Cardinality(Counted) = 0 <=> Counted = {}
  BY <1>2, FS_EmptySet
<1>4. twice = {} => Cardinality(twice) = 0
  BY FS_EmptySet
<1>a. Cardinality(Counted) \in Nat
  BY <1>2, FS_CardinalityType
<1>b. active = Cardinality(Counted) - Cardinality(twice) /\ (twice = {} => (busy <=> Counted # {}))
  <2>1. CASE twice = {}
    <3>1. active = Cardinality(Counted) - Cardinality(twice) /\ (busy <=> active # 0)
      BY <2>1 DEF AjaxInv, CountOK
    <3>2. active = Cardinality(Counted)
      BY <1>4, <1>a, <2>1, <3>1
    <3> QED BY <1>3, <3>1, <3>2, Zenon
  <2>2. CASE twice # {}
    BY <2>2 DEF AjaxInv, CountOK
  <2> QED BY <2>1, <2>2
<1>5. \A S : A!Cardinality(S) = Cardinality(S)
  BY DEF A!Cardinality, Cardinality
<1> QED BY <1>1, <1>b, <1>5 DEF A!Bracket

(* Whatever aborts, timeouts, exceptions and late answers race for it, a   *)
(* request of jQuery.ajax calls success or error once and then complete    *)
(* once, and one cancelled before it was sent calls nothing; and whenever  *)
(* no code runs, jQuery.active counts the requests in flight and those an  *)
(* exception of the page left uncounted, less the ones that a handler of   *)
(* ajaxSend aborted, which ajax() answers and counts down a second time    *)
(* (OneAnswer).                                                            *)
THEOREM AjaxAnswersOnce ==
  ASSUME IsFiniteSet(Requests)
  PROVE  A!Spec => []OneAnswer
<1>1. A!Init => AjaxInv
  BY AjaxStart
<1>2. AjaxInv /\ [A!Next]_A!vars => AjaxInv'
  BY AjaxStep
<1>3. AjaxInv => OneAnswer
  BY AjaxAnswers, AjaxBracket DEF OneAnswer
<1> QED BY <1>1, <1>2, <1>3, PTL DEF A!Spec

-----------------------------------------------------------------------------
(***************************************************************************)
(* Backbone.Events.                                                        *)
(***************************************************************************)
CallbackEntry == [callback : Handlers, once : Nat, context : Listeners \cup {NoArg}]
EventFrame == [o : Objs, calling : BOOLEAN, i : Nat, l : Int, due : Seq(CallbackEntry),
               arrays : Seq(Events!Names \X Nat)]

(* The arrays of callbacks; each belongs to one object and name at most. *)
Arrays ==
  /\ heap \in Seq(Seq(CallbackEntry))
  /\ _events \in [Objs -> [Events!Names -> Nat]]
  /\ \A o \in Objs, n \in Events!Names : _events[o][n] <= Len(heap)
  /\ \A o, p \in Objs : \A m, n \in Events!Names :
       _events[o][m] = _events[p][n] /\ _events[o][m] # 0 => o = p /\ m = n

(* The wrappers of once that ran have been called. *)
Wrappers == onceRan \in Seq(0 .. 1) /\ \A w \in 1 .. Len(onceRan) : onceRan[w] = 1 => w \in spent

Listening ==
  /\ _listeningTo \in [Listeners -> SUBSET Objs]
  /\ \A o \in Objs, n \in Events!Names : \A i \in 1 .. Len(Events!Bound(o, n)) :
       Events!Bound(o, n)[i].context # NoArg => o \in _listeningTo[Events!Bound(o, n)[i].context]

(* What a trigger still has to look at, and what was bound when it came to *)
(* the array that it is in.                                                *)
TriggerOK(fr) ==
  /\ \A k \in 1 .. Len(fr.arrays) : fr.arrays[k][2] \in 1 .. Len(heap)
  /\ fr.l >= 0 => /\ fr.arrays # <<>> /\ fr.l = Len(fr.due)
                  /\ fr.l <= Len(heap[fr.arrays[1][2]])
                  /\ \A k \in 1 .. fr.l : heap[fr.arrays[1][2]][k] = fr.due[k]
Triggers == triggers \in Seq(EventFrame) /\ \A fr \in Range(triggers) : TriggerOK(fr)

EventInv == Arrays /\ Wrappers /\ Listening /\ Triggers

(* An array is only appended to. *)
HeapGrows ==
  /\ Len(heap) <= Len(heap')
  /\ \A a \in 1 .. Len(heap) : /\ Len(heap[a]) <= Len(heap'[a])
                               /\ \A k \in 1 .. Len(heap[a]) : heap'[a][k] = heap[a][k]

LEMMA TriggerGrows ==
  ASSUME Arrays, Arrays', HeapGrows, NEW fr \in EventFrame, TriggerOK(fr)
  PROVE  TriggerOK(fr)'
<1>1. /\ fr.arrays \in Seq(Events!Names \X Nat) /\ fr.due \in Seq(CallbackEntry) /\ fr.l \in Int
      /\ Len(heap) \in Nat /\ Len(heap') \in Nat /\ Len(heap) <= Len(heap')
  BY DEF EventFrame, Arrays, HeapGrows
<1>2. \A k \in 1 .. Len(fr.arrays) : fr.arrays[k][2] \in 1 .. Len(heap')
  BY <1>1 DEF TriggerOK
<1>3. ASSUME fr.l >= 0
      PROVE  /\ fr.arrays # <<>> /\ fr.l = Len(fr.due)
             /\ fr.l <= Len(heap'[fr.arrays[1][2]])
             /\ \A k \in 1 .. fr.l : heap'[fr.arrays[1][2]][k] = fr.due[k]
  <2>1. /\ fr.arrays # <<>> /\ fr.l = Len(fr.due)
        /\ fr.l <= Len(heap[fr.arrays[1][2]])
        /\ \A k \in 1 .. fr.l : heap[fr.arrays[1][2]][k] = fr.due[k]
    BY <1>3 DEF TriggerOK
  <2>2. 1 \in 1 .. Len(fr.arrays)
    BY <1>1, <2>1
  <2>3. PICK a \in 1 .. Len(heap) : a = fr.arrays[1][2]
    BY <2>2 DEF TriggerOK
  <2>4. /\ heap[a] \in Seq(CallbackEntry) /\ heap'[a] \in Seq(CallbackEntry)
    BY <1>1 DEF Arrays
  <2>5. /\ Len(heap[a]) <= Len(heap'[a])
        /\ \A k \in 1 .. Len(heap[a]) : heap'[a][k] = heap[a][k]
    BY DEF HeapGrows
  <2>6. /\ Len(heap[a]) \in Nat /\ Len(heap'[a]) \in Nat /\ fr.l <= Len(heap[a])
        /\ \A k \in 1 .. fr.l : heap[a][k] = fr.due[k]
    <3>1. Len(heap[a]) \in Nat
      BY <2>4
    <3>2. Len(heap'[a]) \in Nat
      BY <2>4
    <3> QED BY <2>1, <2>3, <3>1, <3>2
  <2>7. fr.l <= Len(heap'[a]) /\ \A k \in 1 .. fr.l : heap'[a][k] = fr.due[k]
    BY <1>1, <2>5, <2>6
  <2> QED BY <2>1, <2>3, <2>7
<1> QED BY <1>2, <1>3 DEF TriggerOK

(* The triggers are not disturbed by what is bound and unbound. *)
LEMMA TriggersGrow ==
  ASSUME Arrays, Arrays', HeapGrows, Triggers, triggers' = triggers
  PROVE  Triggers'
<1>1. \A fr \in Range(triggers) : fr \in EventFrame
  BY RangeType DEF Triggers
<1> QED BY <1>1, TriggerGrows DEF Triggers

LEMMA BoundType ==
  ASSUME Arrays, NEW o \in Objs, NEW n \in Events!Names
  PROVE  Events!Bound(o, n) \in Seq(CallbackEntry)
<1>1. _events[o][n] \in Nat /\ _events[o][n] <= Len(heap) /\ Len(heap) \in Nat
  BY DEF Arrays
<1>2. CASE _events[o][n] = 0
  BY <1>2 DEF Events!Bound
<1>3. CASE _events[o][n] # 0
  <2>1. _events[o][n] \in 1 .. Len(heap)
    BY <1>1, <1>3
  <2> QED BY <1>3, <2>1 DEF Events!Bound, Arrays
<1> QED BY <1>2, <1>3

(* on: one array has the new callback as its last. *)
LEMMA OnBinds ==
  ASSUME Arrays, NEW o \in Objs, NEW n \in Events!Names, NEW e \in CallbackEntry, Events!on(o, n, e)
  PROVE  /\ Arrays' /\ HeapGrows
         /\ \A p \in Objs, m \in Events!Names :
              Events!Bound(p, m)' = IF p = o /\ m = n THEN Append(Events!Bound(o, n), e) ELSE Events!Bound(p, m)
<1>1. /\ heap \in Seq(Seq(CallbackEntry)) /\ Len(heap) \in Nat
      /\ \A p \in Objs, m \in Events!Names : _events[p][m] \in Nat /\ _events[p][m] <= Len(heap)
  BY DEF Arrays
<1>2. CASE _events[o][n] = 0
  <2>1. heap' = Append(heap, <<e>>) /\ _events' = [_events EXCEPT ![o][n] = Len(heap) + 1]
    BY <1>2 DEF Events!on
  <2>2. PICK x \in Seq(CallbackEntry) : x = <<e>> /\ x = Append(<<>>, e)
    <3>1. <<e>> \in Seq(CallbackEntry)
      BY SeqOne
    <3>2. <<e>> = Append(<<>>, e)
      OBVIOUS
    <3> QED BY <3>1, <3>2
  <2>3. /\ heap' \in Seq(Seq(CallbackEntry)) /\ Len(heap') = Len(heap) + 1 /\ heap'[Len(heap) + 1] = x
        /\ \A a \in 1 .. Len(heap) : heap'[a] = heap[a]
    BY <1>1, <2>1, <2>2
  <2>4. /\ _events' \in [Objs -> [Events!Names -> Nat]]
        /\ \A p \in Objs, m \in Events!Names :
             _events'[p][m] = IF p = o /\ m = n THEN Len(heap) + 1 ELSE _events[p][m]
    BY <1>1, <2>1 DEF Arrays
  <2>5. Arrays'
    <3>0. PICK cx \in Nat : cx = Len(heap)
      BY <1>1
    <3>1. ASSUME NEW p \in Objs, NEW m \in Events!Names PROVE _events'[p][m] <= Len(heap')
      <4>1. CASE p = o /\ m = n
        BY <2>3, <2>4, <3>0, <4>1
      <4>2. CASE ~(p = o /\ m = n)
        <5>1. _events'[p][m] = _events[p][m] /\ _events[p][m] \in Nat /\ _events[p][m] <= cx
          BY <1>1, <2>4, <3>0, <4>2
        <5> QED BY <2>3, <3>0, <5>1
      <4> QED BY <4>1, <4>2
    <3>2. ASSUME NEW p \in Objs, NEW q \in Objs, NEW k \in Events!Names, NEW m \in Events!Names,
                 _events'[p][k] = _events'[q][m], _events'[p][k] # 0
          PROVE  p = q /\ k = m
      <4>1. CASE p = o /\ k = n
        <5>1. _events'[q][m] = cx + 1
          BY <2>4, <3>0, <3>2, <4>1
        <5>2. _events[q][m] \in Nat /\ _events[q][m] <= cx
          BY <1>1, <3>0
        <5>3. _events[q][m] # cx + 1
          BY <5>2
        <5> QED BY <2>4, <4>1, <5>1, <5>3
      <4>2. CASE q = o /\ m = n
        <5>1. _events'[p][k] = cx + 1
          BY <2>4, <3>0, <3>2, <4>2
        <5>2. _events[p][k] \in Nat /\ _events[p][k] <= cx
          BY <1>1, <3>0
        <5>3. _events[p][k] # cx + 1
          BY <5>2
        <5> QED BY <2>4, <4>2, <5>1, <5>3
      <4>3. CASE ~(p = o /\ k = n) /\ ~(q = o /\ m = n)
        <5>1. _events'[p][k] = _events[p][k] /\ _events'[q][m] = _events[q][m]
          BY <2>4, <4>3
        <5>2. _events[p][k] = _events[q][m] /\ _events[p][k] # 0
          BY <3>2, <5>1
        <5> QED BY <5>2 DEF Arrays
      <4> QED BY <4>1, <4>2, <4>3
    <3> QED BY <2>3, <2>4, <3>1, <3>2 DEF Arrays
  <2>6. HeapGrows
    BY <1>1, <2>3 DEF HeapGrows
  <2>7. ASSUME NEW p \in Objs, NEW m \in Events!Names
        PROVE  Events!Bound(p, m)' = IF p = o /\ m = n THEN Append(Events!Bound(o, n), e) ELSE Events!Bound(p, m)
    <3>1. CASE p = o /\ m = n
      <4>1. Events!Bound(p, m)' = x
        BY <1>1, <2>3, <2>4, <3>1 DEF Events!Bound
      <4>2. Events!Bound(o, n) = <<>>
        BY <1>2 DEF Events!Bound
      <4> QED BY <2>2, <3>1, <4>1, <4>2
    <3>2. CASE ~(p = o /\ m = n)
      <4>1. _events'[p][m] = _events[p][m] /\ (_events[p][m] # 0 => _events[p][m] \in 1 .. Len(heap))
        BY <1>1, <2>4, <3>2
      <4> QED BY <2>3, <3>2, <4>1 DEF Events!Bound
    <3> QED BY <3>1, <3>2
  <2> QED BY <2>5, <2>6, <2>7
<1>3. CASE _events[o][n] # 0
  <2>1. PICK b \in 1 .. Len(heap) : b = _events[o][n]
    BY <1>1, <1>3
  <2>2. heap' = [heap EXCEPT ![b] = Append(heap[b], e)] /\ _events' = _events
    BY <1>3, <2>1 DEF Events!on
  <2>3. PICK x \in Seq(CallbackEntry) : x = heap[b]
    BY <1>1
  <2>4. PICK y \in Seq(CallbackEntry) :
          y = Append(x, e) /\ Len(y) = Len(x) + 1 /\ \A k \in 1 .. Len(x) : y[k] = x[k]
    <3>1. /\ Append(x, e) \in Seq(CallbackEntry) /\ Len(Append(x, e)) = Len(x) + 1
          /\ \A k \in 1 .. Len(x) : Append(x, e)[k] = x[k]
      OBVIOUS
    <3> QED BY <3>1
  <2>5. /\ heap' \in Seq(Seq(CallbackEntry)) /\ Len(heap') = Len(heap) /\ heap'[b] = y
        /\ \A a \in 1 .. Len(heap) : a # b => heap'[a] = heap[a]
    BY <1>1, <2>2, <2>3, <2>4
  <2>6. Arrays'
    BY <2>2, <2>5 DEF Arrays
  <2>7. HeapGrows
    <3>1. \A a \in 1 .. Len(heap) : Len(heap[a]) \in Nat
      BY <1>1
    <3>2. Len(heap') = Len(heap) /\ Len(heap) <= Len(heap')
      BY <1>1, <2>5
    <3>3. ASSUME NEW a \in 1 .. Len(heap)
          PROVE  Len(heap[a]) <= Len(heap'[a]) /\ \A k \in 1 .. Len(heap[a]) : heap'[a][k] = heap[a][k]
      <4>1. CASE a = b
        <5>1. heap[a] = x /\ heap'[a] = y
          BY <2>3, <2>5, <4>1
        <5>2. Len(x) \in Nat /\ Len(x) <= Len(y)
          BY <2>4
        <5> QED BY <2>4, <5>1, <5>2
      <4>2. CASE a # b
        <5>1. heap'[a] = heap[a]
          BY <2>5, <4>2
        <5> QED BY <3>1, <5>1
      <4> QED BY <4>1, <4>2
    <3> QED BY <3>2, <3>3 DEF HeapGrows
  <2>8. ASSUME NEW p \in Objs, NEW m \in Events!Names
        PROVE  Events!Bound(p, m)' = IF p = o /\ m = n THEN Append(Events!Bound(o, n), e) ELSE Events!Bound(p, m)
    <3>1. CASE p = o /\ m = n
      BY <1>3, <2>1, <2>2, <2>3, <2>4, <2>5, <3>1 DEF Events!Bound
    <3>2. CASE ~(p = o /\ m = n)
      <4>1. _events[p][m] # 0 => _events[p][m] \in 1 .. Len(heap) /\ _events[p][m] # b
        BY <1>1, <2>1, <3>2 DEF Arrays
      <4> QED BY <2>2, <2>5, <3>2, <4>1 DEF Events!Bound
    <3> QED BY <3>1, <3>2
  <2> QED BY <2>6, <2>7, <2>8
<1> QED BY <1>2, <1>3


-----------------------------------------------------------------------------
(* What At is in Backbone.Events. *)
LEMMA PartsOfEvents ==
  ASSUME NEW s, NEW I
  PROVE  Events!At(s, I) = At(s, I)
<1>1. Events!Cardinality(I) = Cardinality(I)
  BY DEF Events!Cardinality, Cardinality
<1>2. Events!InOrder(I) = InOrder(I)
  BY <1>1, Zenon DEF Events!InOrder, InOrder
<1> QED BY <1>1, <1>2, Zenon DEF Events!At, At

(* The members of a part. *)
LEMMA PartMembers ==
  ASSUME NEW S, NEW s \in Seq(S), NEW I \in SUBSET (1 .. Len(s))
  PROVE  /\ At(s, I) \in Seq(S)
         /\ \A k \in 1 .. Len(At(s, I)) : \E i \in I : At(s, I)[k] = s[i]
         /\ \A i \in I : \E k \in 1 .. Len(At(s, I)) : At(s, I)[k] = s[i]
<1>0. /\ At(s, I) \in Seq(S)
      /\ \E n \in Nat : \E f \in [1 .. n -> I] : Picks(f, n, I, s, At(s, I))
  BY PartInOrder
<1>1. PICK n \in Nat : \E f \in [1 .. n -> I] : Picks(f, n, I, s, At(s, I))
  BY <1>0
<1>t. PICK f \in [1 .. n -> I] : Picks(f, n, I, s, At(s, I))
  BY <1>1
<1>2. /\ Range(f) = I
      /\ At(s, I) \in Seq(S) /\ Len(At(s, I)) = n
      /\ \A k \in 1 .. n : At(s, I)[k] = s[f[k]]
  BY <1>0, <1>t DEF Picks
<1>3. \A i \in I : \E k \in 1 .. n : f[k] = i
  <2>1. PICK J : J = I
    OBVIOUS
  <2>2. DOMAIN f = 1 .. n /\ Range(f) = J
    BY <1>2, <2>1
  <2>3. J = {f[k] : k \in 1 .. n}
    BY <2>2, Zenon DEF Range
  <2>4. \A i \in J : \E k \in 1 .. n : f[k] = i
    BY <2>3
  <2> QED BY <2>1, <2>4
<1>4. \A k \in 1 .. n : \E i \in I : At(s, I)[k] = s[i]
  <2>1. \A k \in 1 .. n : f[k] \in I
    OBVIOUS
  <2> QED BY <1>2, <2>1
<1>5. \A i \in I : \E k \in 1 .. n : At(s, I)[k] = s[i]
  <2>1. PICK a : a = At(s, I)
    OBVIOUS
  <2>2. \A k \in 1 .. n : a[k] = s[f[k]]
    BY <1>2, <2>1
  <2>3. ASSUME NEW i \in I PROVE \E k \in 1 .. n : a[k] = s[i]
    <3>1. PICK k \in 1 .. n : f[k] = i
      BY <1>3
    <3>2. a[k] = s[f[k]]
      BY <2>2
    <3> QED BY <3>1, <3>2
  <2> QED BY <2>1, <2>3
<1> QED BY <1>2, <1>4, <1>5

(* What off keeps of an array. *)
LEMMA Retained ==
  ASSUME Arrays, NEW o \in Objs, NEW x \in Events!Names, NEW f, NEW ctx, NEW w
  PROVE  /\ Events!retain(o, x, f, ctx, w) \in Seq(CallbackEntry)
         /\ \A k \in 1 .. Len(Events!retain(o, x, f, ctx, w)) : \E i \in 1 .. Len(Events!Bound(o, x)) :
              /\ Events!retain(o, x, f, ctx, w)[k] = Events!Bound(o, x)[i]
              /\ Events!Kept(Events!Bound(o, x)[i], f, ctx, w)
<1>1. PICK s \in Seq(CallbackEntry) : s = Events!Bound(o, x)
  BY BoundType
<1>2. PICK I \in SUBSET (1 .. Len(s)) : I = {i \in DOMAIN s : Events!Kept(s[i], f, ctx, w)}
  <2>1. {i \in DOMAIN s : Events!Kept(s[i], f, ctx, w)} \in SUBSET (1 .. Len(s))
    OBVIOUS
  <2> QED BY <2>1
<1>3. Events!retain(o, x, f, ctx, w) = At(s, I)
  BY <1>1, <1>2, PartsOfEvents DEF Events!retain
<1>4. /\ At(s, I) \in Seq(CallbackEntry)
      /\ \A k \in 1 .. Len(At(s, I)) : \E i \in I : At(s, I)[k] = s[i]
  BY PartMembers
<1>5. \A i \in I : i \in 1 .. Len(s) /\ Events!Kept(s[i], f, ctx, w)
  BY <1>2
<1> QED BY <1>1, <1>3, <1>4, <1>5

(* The names for which off keeps something. *)
LEMMA FullNames ==
  ASSUME NEW o, NEW n, NEW f, NEW ctx, NEW w
  PROVE  /\ Events!full(o, n, f, ctx, w) \in Seq(Events!Names)
         /\ \A x \in Events!touched(o, n) : Events!retain(o, x, f, ctx, w) # <<>> =>
              \E k \in 1 .. Len(Events!full(o, n, f, ctx, w)) : Events!full(o, n, f, ctx, w)[k] = x
<1>1. PICK s \in Seq(Events!Names) : s = Events!Order /\ Len(s) = 2 /\ s[1] = "change" /\ s[2] = "all"
  <2>1. "change" \in Events!Names /\ "all" \in Events!Names
    BY DEF Events!Names
  <2>2. /\ <<"change", "all">> \in Seq(Events!Names) /\ Len(<<"change", "all">>) = 2
        /\ <<"change", "all">>[1] = "change" /\ <<"change", "all">>[2] = "all"
    BY <2>1
  <2> QED BY <2>2 DEF Events!Order
<1>2. PICK I \in SUBSET (1 .. Len(s)) :
        I = {i \in DOMAIN s : s[i] \in Events!touched(o, n) /\ Events!retain(o, s[i], f, ctx, w) # <<>>}
  <2>1. {i \in DOMAIN s : s[i] \in Events!touched(o, n) /\ Events!retain(o, s[i], f, ctx, w) # <<>>}
          \in SUBSET (1 .. Len(s))
    OBVIOUS
  <2> QED BY <2>1
<1>3. Events!full(o, n, f, ctx, w) = At(s, I)
  BY <1>1, <1>2, PartsOfEvents DEF Events!full
<1>4. /\ At(s, I) \in Seq(Events!Names)
      /\ \A i \in I : \E k \in 1 .. Len(At(s, I)) : At(s, I)[k] = s[i]
  BY PartMembers
<1>5. ASSUME NEW x \in Events!touched(o, n), Events!retain(o, x, f, ctx, w) # <<>>
      PROVE  \E k \in 1 .. Len(At(s, I)) : At(s, I)[k] = x
  <2>1. x \in {"change", "all"}
    BY DEF Events!touched, Events!Names
  <2>2. \E i \in DOMAIN s : s[i] = x
    BY <1>1, <2>1
  <2>3. \E i \in I : s[i] = x
    BY <1>2, <1>5, <2>2
  <2> QED BY <1>4, <2>3
<1> QED BY <1>3, <1>4, <1>5

(* off: the arrays stay, and the names that it touches get new ones. *)
LEMMA OffUnbinds ==
  ASSUME Arrays, NEW o \in Objs, NEW n, NEW f, NEW ctx, NEW w, Events!off(o, n, f, ctx, w)
  PROVE  /\ Arrays' /\ HeapGrows
         /\ \A p \in Objs, m \in Events!Names :
              Events!Bound(p, m)' = IF p = o /\ m \in Events!touched(o, n) THEN Events!retain(o, m, f, ctx, w)
                               ELSE Events!Bound(p, m)
         /\ \A m \in Events!Names : _events'[o][m] = 0 => Events!Bound(o, m)' = <<>>
<1>1. /\ heap \in Seq(Seq(CallbackEntry))
      /\ \A p \in Objs, m \in Events!Names : _events[p][m] \in Nat /\ _events[p][m] <= Len(heap)
      /\ _events \in [Objs -> [Events!Names -> Nat]]
  BY DEF Arrays
<1>2. PICK cx \in Nat : cx = Len(heap)
  BY <1>1
<1>3. PICK xs \in Seq(Events!Names) :
        /\ xs = Events!full(o, n, f, ctx, w)
        /\ \A x \in Events!touched(o, n) : Events!retain(o, x, f, ctx, w) # <<>> => \E k \in 1 .. Len(xs) : xs[k] = x
  BY FullNames
<1>4. PICK l \in Nat : l = Len(xs)
  OBVIOUS
<1>5. DOMAIN xs = 1 .. l
  BY <1>4
<1>6. PICK g : g = [i \in 1 .. l |-> Events!retain(o, xs[i], f, ctx, w)]
  OBVIOUS
<1>7. /\ heap' = heap \o g
      /\ _events' = [_events EXCEPT ![o] =
           [x \in Events!Names |-> IF x \notin Events!touched(o, n) THEN _events[o][x]
                              ELSE IF Events!retain(o, x, f, ctx, w) = <<>> THEN 0
                              ELSE Len(heap) + Events!place(xs, x)]]
  BY <1>3, <1>5, <1>6, Zenon DEF Events!off
<1>8. g \in Seq(Seq(CallbackEntry)) /\ Len(g) = l
      /\ \A i \in 1 .. l : g[i] = Events!retain(o, xs[i], f, ctx, w)
  <2>1. \A i \in 1 .. l : Events!retain(o, xs[i], f, ctx, w) \in Seq(CallbackEntry)
    <3>1. \A i \in 1 .. l : xs[i] \in Events!Names
      BY <1>4
    <3> QED BY <3>1, Retained
  <2>2. g \in [1 .. l -> Seq(CallbackEntry)]
    BY <1>6, <2>1
  <2>3. g \in Seq(Seq(CallbackEntry))
    BY <2>2, SeqDef
  <2> QED BY <1>6, <2>2, <2>3
<1>9. /\ heap' \in Seq(Seq(CallbackEntry)) /\ Len(heap') = cx + l
      /\ \A a \in 1 .. cx : heap'[a] = heap[a]
      /\ \A i \in 1 .. l : heap'[cx + i] = g[i]
  <2>1. PICK Q : Q = Seq(CallbackEntry)
    OBVIOUS
  <2>2. heap \in Seq(Q) /\ g \in Seq(Q) /\ Len(heap) = cx /\ Len(g) = l
    BY <1>1, <1>2, <1>8, <2>1
  <2>3. PICK h : h = heap \o g
    OBVIOUS
  <2>4. /\ h \in Seq(Q) /\ Len(h) = cx + l
        /\ \A a \in 1 .. cx + l : h[a] = IF a <= cx THEN heap[a] ELSE g[a - cx]
    BY <2>2, <2>3, ConcatProperties
  <2>5. \A a \in 1 .. cx : h[a] = heap[a]
    BY <2>4
  <2>6. ASSUME NEW i \in 1 .. l PROVE h[cx + i] = g[i]
    <3>1. PICK a : a = cx + i /\ a \in 1 .. cx + l /\ ~(a <= cx) /\ a - cx = i
      OBVIOUS
    <3>2. h[a] = g[a - cx]
      BY <2>4, <3>1
    <3> QED BY <3>1, <3>2
  <2> QED BY <1>7, <2>1, <2>3, <2>4, <2>5, <2>6
<1>10. \A x \in Events!touched(o, n) : Events!retain(o, x, f, ctx, w) # <<>> =>
         Events!place(xs, x) \in 1 .. l /\ xs[Events!place(xs, x)] = x
  BY <1>3, <1>4, <1>5 DEF Events!place
<1>11. /\ _events' \in [Objs -> [Events!Names -> Nat]]
       /\ \A p \in Objs, m \in Events!Names : p # o => _events'[p][m] = _events[p][m]
       /\ \A m \in Events!Names :
            _events'[o][m] = IF m \notin Events!touched(o, n) THEN _events[o][m]
                             ELSE IF Events!retain(o, m, f, ctx, w) = <<>> THEN 0
                             ELSE cx + Events!place(xs, m)
  <2>1. PICK h : h = [x \in Events!Names |-> IF x \notin Events!touched(o, n) THEN _events[o][x]
                              ELSE IF Events!retain(o, x, f, ctx, w) = <<>> THEN 0
                              ELSE cx + Events!place(xs, x)]
    OBVIOUS
  <2>2. \A x \in Events!Names : h[x] \in Nat
    <3> SUFFICES ASSUME NEW x \in Events!Names PROVE h[x] \in Nat
      OBVIOUS
    <3>1. CASE x \notin Events!touched(o, n) \/ Events!retain(o, x, f, ctx, w) = <<>>
      BY <1>1, <2>1, <3>1
    <3>2. CASE ~(x \notin Events!touched(o, n) \/ Events!retain(o, x, f, ctx, w) = <<>>)
      <4>1. h[x] = cx + Events!place(xs, x) /\ Events!place(xs, x) \in Nat
        BY <1>10, <2>1, <3>2
      <4> QED BY <4>1
    <3> QED BY <3>1, <3>2
  <2>3. h \in [Events!Names -> Nat]
    BY <2>1, <2>2
  <2>4. _events' = [_events EXCEPT ![o] = h]
    BY <1>2, <1>7, <2>1
  <2> QED BY <1>1, <2>1, <2>3, <2>4
<1>12. ASSUME NEW m \in Events!Names
       PROVE  \/ m \notin Events!touched(o, n) /\ _events'[o][m] = _events[o][m]
              \/ /\ m \in Events!touched(o, n) /\ Events!retain(o, m, f, ctx, w) = <<>> /\ _events'[o][m] = 0
              \/ /\ m \in Events!touched(o, n) /\ Events!retain(o, m, f, ctx, w) # <<>>
                 /\ \E i \in 1 .. l : _events'[o][m] = cx + i /\ xs[i] = m /\ heap'[cx + i] = Events!retain(o, m, f, ctx, w)
  <2>1. CASE m \notin Events!touched(o, n) \/ Events!retain(o, m, f, ctx, w) = <<>>
    <3>1. _events'[o][m] = IF m \notin Events!touched(o, n) THEN _events[o][m]
                           ELSE IF Events!retain(o, m, f, ctx, w) = <<>> THEN 0
                           ELSE cx + Events!place(xs, m)
      BY <1>11
    <3> QED BY <2>1, <3>1
  <2>2. CASE m \in Events!touched(o, n) /\ Events!retain(o, m, f, ctx, w) # <<>>
    <3>1. PICK i \in 1 .. l : i = Events!place(xs, m) /\ xs[i] = m
      BY <1>10, <2>2
    <3>2. _events'[o][m] = cx + i
      BY <1>11, <2>2, <3>1
    <3>3. heap'[cx + i] = g[i] /\ g[i] = Events!retain(o, xs[i], f, ctx, w)
      BY <1>8, <1>9
    <3> QED BY <2>2, <3>1, <3>2, <3>3
  <2> QED BY <2>1, <2>2
<1>13. Arrays'
  <2>1. ASSUME NEW p \in Objs, NEW m \in Events!Names PROVE _events'[p][m] <= Len(heap')
    <3>1. CASE _events'[p][m] = _events[p][m]
      <4>1. PICK v \in Nat : v = _events[p][m] /\ v <= cx
        BY <1>1, <1>2
      <4>2. v <= cx + l
        BY <4>1
      <4> QED BY <1>9, <3>1, <4>1, <4>2
    <3>2. CASE _events'[p][m] # _events[p][m]
      <4>0. p = o
        BY <1>11, <3>2
      <4>1. _events'[p][m] = 0 \/ \E i \in 1 .. l : _events'[p][m] = cx + i
        BY <1>12, <3>2, <4>0
      <4>2. CASE _events'[p][m] = 0
        BY <1>9, <4>2
      <4>3. CASE \E i \in 1 .. l : _events'[p][m] = cx + i
        <5>1. PICK i \in 1 .. l : _events'[p][m] = cx + i
          BY <4>3
        <5>2. cx + i <= cx + l
          OBVIOUS
        <5> QED BY <1>9, <5>1, <5>2
      <4> QED BY <4>1, <4>2, <4>3
    <3> QED BY <3>1, <3>2
  <2>2. ASSUME NEW p \in Objs, NEW q \in Objs, NEW k \in Events!Names, NEW m \in Events!Names,
               _events'[p][k] = _events'[q][m], _events'[p][k] # 0
        PROVE  p = q /\ k = m
    <3>1. ASSUME NEW r \in Objs, NEW j \in Events!Names, _events'[r][j] # 0
          PROVE  \/ _events'[r][j] = _events[r][j] /\ _events'[r][j] <= cx
                 \/ r = o /\ \E i \in 1 .. l : _events'[r][j] = cx + i /\ xs[i] = j
      <4>1. CASE r # o
        BY <1>1, <1>2, <1>11, <4>1
      <4>2. CASE r = o
        <5>1. _events[r][j] <= cx
          BY <1>1, <1>2
        <5> QED BY <1>12, <3>1, <4>2, <5>1
      <4> QED BY <4>1, <4>2
    <3>2. \A i \in 1 .. l : ~(cx + i <= cx)
      OBVIOUS
    <3>3. CASE _events'[p][k] <= cx
      <4>1. _events[p][k] = _events[q][m] /\ _events[p][k] # 0
        BY <2>2, <3>1, <3>2, <3>3
      <4> QED BY <4>1 DEF Arrays
    <3>4. CASE ~(_events'[p][k] <= cx)
      <4>1. PICK i \in 1 .. l : p = o /\ _events'[p][k] = cx + i /\ xs[i] = k
        BY <2>2, <3>1, <3>4
      <4>2. PICK j \in 1 .. l : q = o /\ _events'[q][m] = cx + j /\ xs[j] = m
        BY <2>2, <3>1, <3>4
      <4>3. i = j
        <5>1. cx + i = cx + j
          BY <2>2, <4>1, <4>2
        <5> QED BY <5>1
      <4> QED BY <4>1, <4>2, <4>3
    <3> QED BY <3>3, <3>4
  <2> QED BY <1>9, <1>11, <2>1, <2>2 DEF Arrays
<1>14. HeapGrows
  <2>1. \A a \in 1 .. cx : Len(heap[a]) \in Nat
    BY <1>1, <1>2
  <2> QED BY <1>2, <1>9, <2>1 DEF HeapGrows
<1>15. ASSUME NEW p \in Objs, NEW m \in Events!Names
       PROVE  Events!Bound(p, m)' = IF p = o /\ m \in Events!touched(o, n) THEN Events!retain(o, m, f, ctx, w)
                               ELSE Events!Bound(p, m)
  <2>1. CASE p = o /\ m \in Events!touched(o, n)
    <3>1. CASE Events!retain(o, m, f, ctx, w) = <<>>
      BY <1>12, <2>1, <3>1 DEF Events!Bound
    <3>2. CASE Events!retain(o, m, f, ctx, w) # <<>>
      <4>1. PICK i \in 1 .. l : _events'[o][m] = cx + i /\ heap'[cx + i] = Events!retain(o, m, f, ctx, w)
        BY <1>12, <2>1, <3>2
      <4>2. cx + i # 0
        OBVIOUS
      <4> QED BY <2>1, <4>1, <4>2 DEF Events!Bound
    <3> QED BY <3>1, <3>2
  <2>2. CASE ~(p = o /\ m \in Events!touched(o, n))
    <3>1. _events'[p][m] = _events[p][m]
      BY <1>11, <2>2
    <3>2. _events[p][m] # 0 => _events[p][m] \in 1 .. cx
      BY <1>1, <1>2
    <3> QED BY <1>9, <2>2, <3>1, <3>2 DEF Events!Bound
  <2> QED BY <2>1, <2>2
<1>16. \A m \in Events!Names : _events'[o][m] = 0 => Events!Bound(o, m)' = <<>>
  BY DEF Events!Bound
<1> QED BY <1>13, <1>14, <1>15, <1>16

-----------------------------------------------------------------------------
(* The innermost trigger and the triggers below it. *)
LEMMA TopTrigger ==
  ASSUME Triggers, triggers # <<>>
  PROVE  /\ Events!Top \in EventFrame /\ TriggerOK(Events!Top)
         /\ Tail(triggers) \in Seq(EventFrame) /\ \A fr \in Range(Tail(triggers)) : TriggerOK(fr)
<1>1. triggers \in Seq(EventFrame) /\ \A fr \in Range(triggers) : TriggerOK(fr)
  BY DEF Triggers
<1>2. PICK t \in Seq(EventFrame), f \in EventFrame : t = Tail(triggers) /\ f = Head(triggers) /\ triggers = <<f>> \o t
  <2>1. Head(triggers) \in EventFrame /\ Tail(triggers) \in Seq(EventFrame) /\ triggers = <<Head(triggers)>> \o Tail(triggers)
    BY <1>1, StackSplit
  <2> QED BY <2>1
<1>3. Range(triggers) = {f} \cup Range(t)
  BY <1>2, RangePush
<1> QED BY <1>1, <1>2, <1>3 DEF Events!Top

(* The triggers below stay as they are, and so they are fine again. *)
LEMMA TriggersBelow ==
  ASSUME Arrays, Arrays', HeapGrows, NEW t \in Seq(EventFrame), \A fr \in Range(t) : TriggerOK(fr)
  PROVE  \A fr \in Range(t) : TriggerOK(fr)'
<1>1. \A fr \in Range(t) : fr \in EventFrame
  BY RangeType
<1> SUFFICES ASSUME NEW fr \in Range(t) PROVE TriggerOK(fr)'
  OBVIOUS
<1>2. fr \in EventFrame /\ TriggerOK(fr)
  BY <1>1
<1> QED BY <1>2, TriggerGrows

(* A trigger on top of others. *)
LEMMA TriggerOnTop ==
  ASSUME Arrays, Arrays', HeapGrows, NEW t \in Seq(EventFrame), \A fr \in Range(t) : TriggerOK(fr),
         NEW f \in EventFrame, TriggerOK(f)', triggers' = <<f>> \o t
  PROVE  Triggers'
<1>1. triggers' \in Seq(EventFrame) /\ Range(triggers') = {f} \cup Range(t)
  BY RangePush
<1>2. \A fr \in Range(t) : TriggerOK(fr)'
  BY TriggersBelow
<1> QED BY <1>1, <1>2 DEF Triggers

(* A step of the innermost trigger that leaves its arrays alone. *)
LEMMA TopSteps ==
  ASSUME Arrays, Arrays', HeapGrows, Triggers, triggers # <<>>,
         NEW i \in Nat, NEW b \in BOOLEAN,
         triggers' = Events!SetTop([Events!Top EXCEPT !.i = i, !.calling = b])
  PROVE  Triggers'
<1>1. PICK u \in EventFrame : u = Events!Top /\ TriggerOK(u)
  BY TopTrigger
<1>2. PICK t \in Seq(EventFrame) : t = Tail(triggers) /\ \A fr \in Range(t) : TriggerOK(fr)
  BY TopTrigger
<1>3. PICK f : f = [u EXCEPT !.i = i, !.calling = b]
  OBVIOUS
<1>4. f \in EventFrame /\ f.arrays = u.arrays /\ f.l = u.l /\ f.due = u.due
  BY <1>3 DEF EventFrame
<1>5. TriggerOK(u)'
  BY <1>1, TriggerGrows
<1>6. TriggerOK(f)'
  BY <1>4, <1>5 DEF TriggerOK
<1>7. triggers' = <<f>> \o t
  BY <1>1, <1>2, <1>3 DEF Events!SetTop
<1> QED BY <1>2, <1>4, <1>6, <1>7, TriggerOnTop

(* The arrays stay as they are. *)
LEMMA ArraysStay ==
  ASSUME Arrays, UNCHANGED <<heap, _events>>
  PROVE  /\ Arrays' /\ HeapGrows
         /\ \A p, m : Events!Bound(p, m)' = Events!Bound(p, m)
<1>1. Arrays'
  BY DEF Arrays
<1>2. HeapGrows
  <2>1. PICK cx \in Nat : cx = Len(heap) /\ heap \in [1 .. cx -> Seq(CallbackEntry)]
    BY DEF Arrays
  <2>2. \A a \in 1 .. cx : Len(heap[a]) \in Nat
    <3> SUFFICES ASSUME NEW a \in 1 .. cx PROVE Len(heap[a]) \in Nat
      OBVIOUS
    <3>1. PICK s \in Seq(CallbackEntry) : s = heap[a]
      BY <2>1
    <3> QED BY <3>1
  <2> QED BY <2>1, <2>2 DEF HeapGrows
<1>3. \A p, m : Events!Bound(p, m)' = Events!Bound(p, m)
  BY DEF Events!Bound
<1> QED BY <1>1, <1>2, <1>3

(* A callback is bound, and its listener knows the object. *)
LEMMA OnListening ==
  ASSUME Arrays, Listening, NEW o \in Objs, NEW n \in Events!Names, NEW e \in CallbackEntry, Events!on(o, n, e),
         _listeningTo' \in [Listeners -> SUBSET Objs],
         \A l \in Listeners : _listeningTo[l] \subseteq _listeningTo'[l],
         e.context # NoArg => o \in _listeningTo'[e.context]
  PROVE  Arrays' /\ HeapGrows /\ Listening'
<1>1. /\ Arrays' /\ HeapGrows
      /\ \A p \in Objs, m \in Events!Names :
           Events!Bound(p, m)' = IF p = o /\ m = n THEN Append(Events!Bound(o, n), e) ELSE Events!Bound(p, m)
  BY OnBinds
<1>2. ASSUME NEW p \in Objs, NEW m \in Events!Names, NEW i \in 1 .. Len(Events!Bound(p, m)'),
             Events!Bound(p, m)'[i].context # NoArg
      PROVE  p \in _listeningTo'[Events!Bound(p, m)'[i].context]
  <2>1. PICK s \in Seq(CallbackEntry) : s = Events!Bound(p, m)
    BY BoundType
  <2>2. PICK r : r = Events!Bound(p, m)'
    OBVIOUS
  <2>3. CASE i \in 1 .. Len(s) /\ r[i] = s[i]
    <3>1. s[i] \in CallbackEntry
      BY <2>3
    <3>2. PICK cx \in Listeners : cx = s[i].context
      BY <1>2, <2>2, <2>3, <3>1 DEF CallbackEntry
    <3>3. p \in _listeningTo[cx]
      BY <1>2, <2>1, <2>2, <2>3, <3>2 DEF Listening
    <3> QED BY <2>2, <2>3, <3>2, <3>3
  <2>4. CASE p = o /\ m = n /\ r[i] = e
    BY <1>2, <2>2, <2>4
  <2>5. \/ i \in 1 .. Len(s) /\ r[i] = s[i]
        \/ p = o /\ m = n /\ r[i] = e
    <3>1. CASE p = o /\ m = n
      <4>1. r = Append(s, e)
        BY <1>1, <2>1, <2>2, <3>1
      <4>2. /\ Len(Append(s, e)) = Len(s) + 1 /\ Append(s, e)[Len(s) + 1] = e
            /\ \A k \in 1 .. Len(s) : Append(s, e)[k] = s[k]
        OBVIOUS
      <4>3. i \in 1 .. Len(s) + 1
        BY <2>2, <4>1, <4>2
      <4>4. i \in 1 .. Len(s) \/ i = Len(s) + 1
        BY <4>3
      <4> QED BY <3>1, <4>1, <4>2, <4>4
    <3>2. CASE ~(p = o /\ m = n)
      BY <1>1, <2>1, <2>2, <3>2
    <3> QED BY <3>1, <3>2
  <2> QED BY <2>3, <2>4, <2>5
<1> QED BY <1>1, <1>2 DEF Listening

(* Callbacks are unbound: the ones that stay were bound before. *)
LEMMA OffKeeps ==
  ASSUME Arrays, NEW o \in Objs, NEW n, NEW f, NEW ctx, NEW w, Events!off(o, n, f, ctx, w),
         NEW p \in Objs, NEW m \in Events!Names, NEW i \in 1 .. Len(Events!Bound(p, m)')
  PROVE  \E k \in 1 .. Len(Events!Bound(p, m)) :
           /\ Events!Bound(p, m)'[i] = Events!Bound(p, m)[k]
           /\ p = o /\ m \in Events!touched(o, n) => Events!Kept(Events!Bound(p, m)[k], f, ctx, w)
<1>1. Events!Bound(p, m)' = IF p = o /\ m \in Events!touched(o, n) THEN Events!retain(o, m, f, ctx, w)
                       ELSE Events!Bound(p, m)
  BY OffUnbinds
<1>2. CASE p = o /\ m \in Events!touched(o, n)
  <2>1. Events!Bound(p, m)' = Events!retain(o, m, f, ctx, w)
    BY <1>1, <1>2
  <2>2. \A k \in 1 .. Len(Events!retain(o, m, f, ctx, w)) : \E j \in 1 .. Len(Events!Bound(o, m)) :
          /\ Events!retain(o, m, f, ctx, w)[k] = Events!Bound(o, m)[j]
          /\ Events!Kept(Events!Bound(o, m)[j], f, ctx, w)
    BY Retained
  <2> QED BY <1>2, <2>1, <2>2
<1>3. CASE ~(p = o /\ m \in Events!touched(o, n))
  BY <1>1, <1>3
<1> QED BY <1>2, <1>3

(* Who listens need not change when callbacks are unbound. *)
LEMMA OffListening ==
  ASSUME Arrays, Listening, NEW o \in Objs, NEW n, NEW f, NEW ctx, NEW w, Events!off(o, n, f, ctx, w),
         _listeningTo' = _listeningTo
  PROVE  Listening'
<1>1. ASSUME NEW p \in Objs, NEW m \in Events!Names, NEW i \in 1 .. Len(Events!Bound(p, m)'),
             Events!Bound(p, m)'[i].context # NoArg
      PROVE  p \in _listeningTo'[Events!Bound(p, m)'[i].context]
  <2>1. PICK k \in 1 .. Len(Events!Bound(p, m)) : Events!Bound(p, m)'[i] = Events!Bound(p, m)[k]
    BY OffKeeps
  <2> QED BY <1>1, <2>1 DEF Listening
<1> QED BY <1>1 DEF Listening

-----------------------------------------------------------------------------
(* What the wrappers have run is not changed. *)
LEMMA WrappersStay ==
  ASSUME Wrappers, UNCHANGED <<spent, onceRan>>
  PROVE  Wrappers'
BY DEF Wrappers

(* A wrapper is made: it did not run yet. *)
LEMMA WrapperMade ==
  ASSUME Wrappers, spent' = spent, onceRan' = Append(onceRan, 0)
  PROVE  Wrappers'
<1>1. PICK n \in Nat : n = Len(onceRan)
  BY DEF Wrappers
<1>2. 0 \in 0 .. 1
  OBVIOUS
<1>3. /\ onceRan' \in Seq(0 .. 1) /\ Len(onceRan') = n + 1 /\ onceRan'[n + 1] = 0
      /\ \A w \in 1 .. n : onceRan'[w] = onceRan[w]
  <2>1. PICK S : S = 0 .. 1
    OBVIOUS
  <2>2. onceRan \in Seq(S) /\ 0 \in S
    BY <1>2, <2>1 DEF Wrappers
  <2>3. Append(onceRan, 0) \in Seq(S)
    BY <2>2
  <2> QED BY <1>1, <2>1, <2>2, <2>3
<1>4. ASSUME NEW w \in 1 .. n + 1, onceRan'[w] = 1 PROVE w \in spent
  <2>1. w \in 1 .. n \/ w = n + 1
    OBVIOUS
  <2>2. w # n + 1
    BY <1>3, <1>4
  <2>3. w \in 1 .. n /\ onceRan[w] = 1
    BY <1>3, <1>4, <2>1, <2>2
  <2> QED BY <1>1, <2>3 DEF Wrappers
<1> QED BY <1>3, <1>4 DEF Wrappers

(* A wrapper is called for the first time. *)
LEMMA WrapperCalled ==
  ASSUME Wrappers, NEW w, w \notin spent,
         spent' = spent \cup {w}, onceRan' = [onceRan EXCEPT ![w] = @ + 1]
  PROVE  Wrappers'
<1>1. PICK n \in Nat : n = Len(onceRan) /\ onceRan \in [1 .. n -> 0 .. 1]
  BY DEF Wrappers
<1>2. w \in 1 .. n => onceRan[w] = 0
  <2> SUFFICES ASSUME w \in 1 .. n PROVE onceRan[w] = 0
    OBVIOUS
  <2>1. onceRan[w] \in 0 .. 1 /\ onceRan[w] # 1
    BY <1>1 DEF Wrappers
  <2> QED BY <2>1
<1>3. PICK r : r = [onceRan EXCEPT ![w] = @ + 1]
  OBVIOUS
<1>4. DOMAIN r = 1 .. n /\ \A k \in 1 .. n : r[k] = IF k = w THEN onceRan[w] + 1 ELSE onceRan[k]
  BY <1>1, <1>3
<1>5. \A k \in 1 .. n : r[k] \in 0 .. 1 /\ (r[k] = 1 => k \in spent \cup {w})
  <2> SUFFICES ASSUME NEW k \in 1 .. n
               PROVE  r[k] \in 0 .. 1 /\ (r[k] = 1 => k \in spent \cup {w})
    OBVIOUS
  <2>1. CASE k = w
    <3>1. r[k] = 1
      BY <1>2, <1>4, <2>1
    <3> QED BY <2>1, <3>1
  <2>2. CASE k # w
    <3>1. r[k] = onceRan[k] /\ onceRan[k] \in 0 .. 1
      BY <1>1, <1>4, <2>2
    <3>2. onceRan[k] = 1 => k \in spent
      BY <1>1 DEF Wrappers
    <3> QED BY <3>1, <3>2
  <2> QED BY <2>1, <2>2
<1>6. r \in [1 .. n -> 0 .. 1]
  <2>1. r = [k \in 1 .. n |-> r[k]]
    BY <1>1, <1>3
  <2> QED BY <1>5, <2>1
<1>7. r \in Seq(0 .. 1) /\ Len(r) = n
  <2>1. r \in Seq(0 .. 1)
    BY <1>6, SeqDef
  <2> QED BY <1>6, <2>1
<1> QED BY <1>3, <1>5, <1>7 DEF Wrappers

(* The number of the next wrapper. *)
LEMMA WrapperNumber ==
  ASSUME Wrappers
  PROVE  Len(onceRan) + 1 \in Nat
<1>1. PICK n \in Nat : n = Len(onceRan)
  BY DEF Wrappers
<1> QED BY <1>1

(* on and once *)
LEMMA OnKeeps ==
  ASSUME EventInv, NEW o \in Objs, NEW n \in Events!Names, NEW f \in Handlers,
         Events!On(o, n, f, NoArg) \/ Events!Once(o, n, f, NoArg)
  PROVE  EventInv'
<1>0. Arrays /\ Wrappers /\ Listening /\ Triggers
  BY DEF EventInv
<1>1. PICK e \in CallbackEntry : Events!on(o, n, e) /\ e.context = NoArg
  <2>1. Events!Entry(f, 0, NoArg) \in CallbackEntry /\ Events!Entry(f, 0, NoArg).context = NoArg
    BY DEF Events!Entry, CallbackEntry
  <2>2. /\ Events!Entry(f, Len(onceRan) + 1, NoArg) \in CallbackEntry
        /\ Events!Entry(f, Len(onceRan) + 1, NoArg).context = NoArg
    BY <1>0, WrapperNumber DEF Events!Entry, CallbackEntry
  <2> QED BY <2>1, <2>2 DEF Events!On, Events!Once
<1>2. _listeningTo' = _listeningTo /\ triggers' = triggers /\ spent' = spent
  BY DEF Events!On, Events!Once
<1>3. Arrays' /\ HeapGrows /\ Listening'
  <2>1. _listeningTo' \in [Listeners -> SUBSET Objs]
    BY <1>0, <1>2 DEF Listening
  <2>2. \A l \in Listeners : _listeningTo[l] \subseteq _listeningTo'[l]
    BY <1>2
  <2> QED BY <1>0, <1>1, <2>1, <2>2, OnListening
<1>4. Wrappers'
  <2>1. onceRan' = onceRan \/ onceRan' = Append(onceRan, 0)
    BY DEF Events!On, Events!Once
  <2> QED BY <1>0, <1>2, <2>1, WrappersStay, WrapperMade
<1>5. Triggers'
  BY <1>0, <1>2, <1>3, TriggersGrow
<1> QED BY <1>3, <1>4, <1>5 DEF EventInv

(* listenTo and listenToOnce *)
LEMMA ListenToKeeps ==
  ASSUME EventInv, NEW l \in Listeners, NEW o \in Objs, NEW n \in Events!Names, NEW f \in Handlers,
         NEW once \in BOOLEAN, Events!ListenTo(l, o, n, f, once)
  PROVE  EventInv'
<1>0. Arrays /\ Wrappers /\ Listening /\ Triggers
  BY DEF EventInv
<1>1. PICK e \in CallbackEntry : Events!on(o, n, e) /\ e.context = l
  <2>1. Events!Entry(f, 0, l) \in CallbackEntry /\ Events!Entry(f, 0, l).context = l
    BY DEF Events!Entry, CallbackEntry
  <2>2. Events!Entry(f, Len(onceRan) + 1, l) \in CallbackEntry /\ Events!Entry(f, Len(onceRan) + 1, l).context = l
    BY <1>0, WrapperNumber DEF Events!Entry, CallbackEntry
  <2>3. Events!on(o, n, Events!Entry(f, 0, l)) \/ Events!on(o, n, Events!Entry(f, Len(onceRan) + 1, l))
    BY Zenon DEF Events!ListenTo
  <2> QED BY <2>1, <2>2, <2>3
<1>2. /\ _listeningTo' = [_listeningTo EXCEPT ![l] = _listeningTo[l] \cup {o}]
      /\ triggers' = triggers /\ spent' = spent
  BY DEF Events!ListenTo
<1>3. Arrays' /\ HeapGrows /\ Listening'
  <2>0. _listeningTo \in [Listeners -> SUBSET Objs]
    BY <1>0 DEF Listening
  <2>1. _listeningTo' \in [Listeners -> SUBSET Objs]
    BY <1>2, <2>0
  <2>2. \A x \in Listeners : _listeningTo[x] \subseteq _listeningTo'[x]
    BY <1>2, <2>0
  <2>3. o \in _listeningTo'[e.context]
    BY <1>1, <1>2, <2>0
  <2> QED BY <1>0, <1>1, <2>1, <2>2, <2>3, OnListening
<1>4. Wrappers'
  <2>1. onceRan' = onceRan \/ onceRan' = Append(onceRan, 0)
    BY DEF Events!ListenTo
  <2> QED BY <1>0, <1>2, <2>1, WrappersStay, WrapperMade
<1>5. Triggers'
  BY <1>0, <1>2, <1>3, TriggersGrow
<1> QED BY <1>3, <1>4, <1>5 DEF EventInv

(* off *)
LEMMA OffKeepsInv ==
  ASSUME EventInv, NEW o \in Objs, NEW n, NEW f, NEW ctx, Events!Off(o, n, f, ctx)
  PROVE  EventInv'
<1>0. Arrays /\ Wrappers /\ Listening /\ Triggers
  BY DEF EventInv
<1>1. /\ Events!off(o, n, f, ctx, 0)
      /\ _listeningTo' = _listeningTo /\ triggers' = triggers /\ spent' = spent /\ onceRan' = onceRan
  BY DEF Events!Off
<1>2. Arrays' /\ HeapGrows
  BY <1>0, <1>1, OffUnbinds
<1>3. Listening'
  BY <1>0, <1>1, OffListening
<1>4. Wrappers'
  BY <1>0, <1>1, WrappersStay
<1>5. Triggers'
  BY <1>0, <1>1, <1>2, TriggersGrow
<1> QED BY <1>2, <1>3, <1>4, <1>5 DEF EventInv

(* stopListening: the object is forgotten when it holds no callback of the *)
(* listener any more.                                                      *)
LEMMA StopListeningKeeps ==
  ASSUME EventInv, NEW l \in Listeners, NEW o \in Objs, NEW n, NEW f, Events!StopListening(l, o, n, f)
  PROVE  EventInv'
<1>0. Arrays /\ Wrappers /\ Listening /\ Triggers
  BY DEF EventInv
<1>1. Events!off(o, n, f, l, 0) /\ triggers' = triggers /\ spent' = spent /\ onceRan' = onceRan
  BY DEF Events!StopListening
<1>2. Arrays' /\ HeapGrows
  BY <1>0, <1>1, OffUnbinds
<1>3. Listening'
  <2>1. CASE _listeningTo' = _listeningTo
    BY <1>0, <1>1, <2>1, OffListening
  <2>2. CASE _listeningTo' # _listeningTo
    <3>1. /\ (n = NoArg /\ f = NoArg) \/ \A x \in Events!Names : _events'[o][x] = 0
          /\ _listeningTo' = [_listeningTo EXCEPT ![l] = _listeningTo[l] \ {o}]
      BY <2>2 DEF Events!StopListening
    <3>2. _listeningTo \in [Listeners -> SUBSET Objs]
      BY <1>0 DEF Listening
    <3>3. _listeningTo' \in [Listeners -> SUBSET Objs]
      BY <3>1, <3>2
    <3>4. ASSUME NEW p \in Objs, NEW m \in Events!Names, NEW i \in 1 .. Len(Events!Bound(p, m)'),
                 Events!Bound(p, m)'[i].context # NoArg
          PROVE  p \in _listeningTo'[Events!Bound(p, m)'[i].context]
      <4>1. PICK k \in 1 .. Len(Events!Bound(p, m)) :
              /\ Events!Bound(p, m)'[i] = Events!Bound(p, m)[k]
              /\ p = o /\ m \in Events!touched(o, n) => Events!Kept(Events!Bound(p, m)[k], f, l, 0)
        BY <1>0, <1>1, OffKeeps
      <4>2. PICK e \in CallbackEntry : e = Events!Bound(p, m)[k]
        <5>1. PICK s \in Seq(CallbackEntry) : s = Events!Bound(p, m)
          BY <1>0, BoundType
        <5> QED BY <5>1
      <4>3. PICK cx \in Listeners : cx = e.context
        BY <3>4, <4>1, <4>2 DEF CallbackEntry
      <4>4. p \in _listeningTo[cx]
        BY <1>0, <3>4, <4>1, <4>2, <4>3 DEF Listening
      <4>5. ~(cx = l /\ p = o)
        <5> SUFFICES ASSUME cx = l, p = o PROVE FALSE
          OBVIOUS
        <5>1. CASE \A x \in Events!Names : _events'[o][x] = 0
          <6>1. Events!Bound(o, m)' = <<>>
            BY <5>1 DEF Events!Bound
          <6>2. Len(Events!Bound(o, m)') = 0
            BY <6>1
          <6>3. i \in 1 .. 0
            BY <6>2
          <6> QED BY <6>3
        <5>2. CASE n = NoArg /\ f = NoArg
          <6>1. CASE m \in Events!touched(o, n)
            BY <4>1, <4>2, <4>3, <5>2, <6>1 DEF Events!Kept
          <6>2. CASE m \notin Events!touched(o, n)
            <7>1. _events[o][m] = 0
              BY <5>2, <6>2 DEF Events!touched
            <7>2. Events!Bound(o, m) = <<>>
              BY <7>1 DEF Events!Bound
            <7>3. Len(Events!Bound(o, m)) = 0
              BY <7>2
            <7>4. k \in 1 .. 0
              BY <7>3
            <7> QED BY <7>4
          <6> QED BY <6>1, <6>2
        <5> QED BY <3>1, <5>1, <5>2
      <4>6. p \in _listeningTo'[cx]
        <5>1. CASE cx = l
          <6>1. _listeningTo'[cx] = _listeningTo[cx] \ {o}
            BY <3>1, <3>2, <5>1
          <6> QED BY <4>4, <4>5, <5>1, <6>1
        <5>2. CASE cx # l
          <6>1. _listeningTo'[cx] = _listeningTo[cx]
            BY <3>1, <3>2, <5>2
          <6> QED BY <4>4, <6>1
        <5> QED BY <5>1, <5>2
      <4> QED BY <4>1, <4>2, <4>3, <4>6
    <3> QED BY <3>3, <3>4 DEF Listening
  <2> QED BY <2>1, <2>2
<1>4. Wrappers'
  BY <1>0, <1>1, WrappersStay
<1>5. Triggers'
  BY <1>0, <1>1, <1>2, TriggersGrow
<1> QED BY <1>2, <1>3, <1>4, <1>5 DEF EventInv

-----------------------------------------------------------------------------
(* What a trigger looks up: arrays that there are. *)
LEMMA LookedUp ==
  ASSUME Arrays, NEW o \in Objs, NEW n \in Events!Names
  PROVE  /\ Events!lookup(o, n) \in Seq(Events!Names \X Nat)
         /\ \A k \in 1 .. Len(Events!lookup(o, n)) : Events!lookup(o, n)[k][2] \in 1 .. Len(heap)
<1>1. /\ \A m \in Events!Names : _events[o][m] \in Nat /\ _events[o][m] <= Len(heap)
      /\ Len(heap) \in Nat
  BY DEF Arrays
<1>2. "all" \in Events!Names
  BY DEF Events!Names
<1>3. PICK x \in Events!Names \X Nat, y \in Events!Names \X Nat :
        x = <<n, _events[o][n]>> /\ y = <<"all", _events[o]["all"]>>
  BY <1>1, <1>2
<1>4. \A v : v \in {x, y} /\ v[2] # 0 => v[2] \in 1 .. Len(heap)
  <2>1. PICK cx \in Nat : cx = Len(heap)
    BY <1>1
  <2>2. PICK a \in Nat, b \in Nat : a = _events[o][n] /\ b = _events[o]["all"] /\ a <= cx /\ b <= cx
    BY <1>1, <1>2, <2>1
  <2>3. x[2] = a /\ y[2] = b
    BY <1>3, <2>2
  <2> QED BY <2>1, <2>2, <2>3
<1>5. PICK s \in Seq(Events!Names \X Nat) : s = <<x, y>> /\ Len(s) = 2 /\ s[1] = x /\ s[2] = y
  <2>1. <<x, y>> \in Seq(Events!Names \X Nat)
    OBVIOUS
  <2> QED BY <2>1
<1>6. PICK I \in SUBSET (1 .. Len(s)) : I = {i \in DOMAIN s : s[i][2] # 0}
  <2>1. {i \in DOMAIN s : s[i][2] # 0} \in SUBSET (1 .. Len(s))
    OBVIOUS
  <2> QED BY <2>1
<1>7. Events!lookup(o, n) = At(s, I)
  <2>1. Events!lookup(o, n) = Events!At(s, I)
    BY <1>3, <1>5, <1>6, Zenon DEF Events!lookup
  <2> QED BY <2>1, PartsOfEvents
<1>8. /\ At(s, I) \in Seq(Events!Names \X Nat)
      /\ \A k \in 1 .. Len(At(s, I)) : \E i \in I : At(s, I)[k] = s[i]
  BY PartMembers
<1>9. \A i \in I : s[i][2] \in 1 .. Len(heap)
  <2> SUFFICES ASSUME NEW i \in I PROVE s[i][2] \in 1 .. Len(heap)
    OBVIOUS
  <2>1. i \in 1 .. 2 /\ s[i][2] # 0
    BY <1>5, <1>6
  <2>2. i = 1 \/ i = 2
    BY <2>1
  <2>3. s[i] \in {x, y}
    BY <1>5, <2>2
  <2> QED BY <1>4, <2>1, <2>3
<1>10. \A k \in 1 .. Len(At(s, I)) : At(s, I)[k][2] \in 1 .. Len(heap)
  <2> SUFFICES ASSUME NEW k \in 1 .. Len(At(s, I)) PROVE At(s, I)[k][2] \in 1 .. Len(heap)
    OBVIOUS
  <2>1. PICK i \in I : At(s, I)[k] = s[i]
    BY <1>8
  <2> QED BY <1>9, <2>1
<1> QED BY <1>7, <1>8, <1>10

(* trigger *)
LEMMA TriggerKeeps ==
  ASSUME EventInv, NEW o \in Objs, NEW n \in Events!Names, Events!Trigger(o, n)
  PROVE  EventInv'
<1>0. Arrays /\ Wrappers /\ Listening /\ Triggers
  BY DEF EventInv
<1>1. UNCHANGED <<heap, _events>> /\ _listeningTo' = _listeningTo /\ spent' = spent /\ onceRan' = onceRan
  BY DEF Events!Trigger
<1>2. Arrays' /\ HeapGrows
  BY <1>0, <1>1, ArraysStay
<1>3. Listening'
  BY <1>0, <1>1, ArraysStay DEF Listening
<1>4. Wrappers'
  BY <1>0, <1>1, WrappersStay
<1>5. Triggers'
  <2>1. PICK as \in Seq(Events!Names \X Nat) :
          as = Events!lookup(o, n) /\ \A k \in 1 .. Len(as) : as[k][2] \in 1 .. Len(heap)
    BY <1>0, LookedUp
  <2>2. PICK f : f = [o |-> o, calling |-> FALSE, i |-> 0, l |-> -1, due |-> <<>>, arrays |-> as]
    OBVIOUS
  <2>3. f \in EventFrame
    <3>1. <<>> \in Seq(CallbackEntry)
      OBVIOUS
    <3>2. -1 \in Int /\ 0 \in Nat /\ FALSE \in BOOLEAN
      OBVIOUS
    <3> QED BY <2>2, <3>1, <3>2 DEF EventFrame
  <2>4. TriggerOK(f)'
    <3>1. f.arrays = as /\ ~(f.l >= 0)
      BY <2>2
    <3>2. heap' = heap
      BY <1>1
    <3> QED BY <2>1, <3>1, <3>2 DEF TriggerOK
  <2>5. triggers' = <<f>> \o triggers
    BY <2>1, <2>2 DEF Events!Trigger
  <2>6. triggers \in Seq(EventFrame) /\ \A fr \in Range(triggers) : TriggerOK(fr)
    BY <1>0 DEF Triggers
  <2> QED BY <1>0, <1>2, <2>3, <2>4, <2>5, <2>6, TriggerOnTop
<1> QED BY <1>2, <1>3, <1>4, <1>5 DEF EventInv

(* The array that a trigger is about to iterate over. *)
LEMMA NextArray ==
  ASSUME Arrays, NEW fr \in EventFrame, TriggerOK(fr), fr.arrays # <<>>
  PROVE  /\ Head(fr.arrays) = fr.arrays[1] /\ fr.arrays[1][1] \in Events!Names
         /\ fr.arrays[1][2] \in 1 .. Len(heap) /\ heap[fr.arrays[1][2]] \in Seq(CallbackEntry)
         /\ Tail(fr.arrays) \in Seq(Events!Names \X Nat)
         /\ \A k \in 1 .. Len(Tail(fr.arrays)) : Tail(fr.arrays)[k][2] \in 1 .. Len(heap)
<1>1. PICK as \in Seq(Events!Names \X Nat) : as = fr.arrays /\ as # <<>>
  BY DEF EventFrame
<1>2. \A k \in 1 .. Len(as) : as[k][2] \in 1 .. Len(heap)
  BY <1>1 DEF TriggerOK
<1>3. 1 \in 1 .. Len(as) /\ Head(as) = as[1] /\ as[1] \in Events!Names \X Nat
  BY <1>1
<1>4. /\ Tail(as) \in Seq(Events!Names \X Nat)
      /\ \A k \in 1 .. Len(Tail(as)) : k + 1 \in 1 .. Len(as) /\ Tail(as)[k] = as[k + 1]
  BY <1>1
<1>5. as[1][2] \in 1 .. Len(heap) /\ as[1][1] \in Events!Names
  BY <1>2, <1>3
<1>6. \A k \in 1 .. Len(Tail(as)) : Tail(as)[k][2] \in 1 .. Len(heap)
  BY <1>2, <1>4
<1>7. heap[as[1][2]] \in Seq(CallbackEntry)
  <2>1. PICK a \in 1 .. Len(heap) : a = as[1][2]
    BY <1>5
  <2>2. heap[a] \in Seq(CallbackEntry)
    BY DEF Arrays
  <2> QED BY <2>1, <2>2
<1> QED BY <1>1, <1>3, <1>4, <1>5, <1>6, <1>7

(* The length is read, and what is due is what is bound now. *)
LEMMA EnterKeeps ==
  ASSUME EventInv, Events!Enter
  PROVE  EventInv'
<1>0. Arrays /\ Wrappers /\ Listening /\ Triggers
  BY DEF EventInv
<1>1. UNCHANGED <<heap, _events>> /\ _listeningTo' = _listeningTo /\ spent' = spent /\ onceRan' = onceRan
  BY DEF Events!Enter
<1>2. Arrays' /\ HeapGrows
  BY <1>0, <1>1, ArraysStay
<1>3. Listening'
  BY <1>0, <1>1, ArraysStay DEF Listening
<1>4. Wrappers'
  BY <1>0, <1>1, WrappersStay
<1>5. Triggers'
  <2>0. triggers # <<>>
    BY DEF Events!Enter
  <2>1. PICK u \in EventFrame : u = Events!Top /\ TriggerOK(u)
    BY <1>0, <2>0, TopTrigger
  <2>2. PICK t \in Seq(EventFrame) : t = Tail(triggers) /\ \A fr \in Range(t) : TriggerOK(fr)
    BY <1>0, <2>0, TopTrigger
  <2>3. u.arrays # <<>>
    BY <2>1 DEF Events!Enter
  <2>4. PICK a \in 1 .. Len(heap), s \in Seq(CallbackEntry) :
          a = u.arrays[1][2] /\ s = heap[a] /\ Head(u.arrays) = u.arrays[1]
    BY <1>0, <2>1, <2>3, NextArray
  <2>5. PICK f : f = [u EXCEPT !.l = Len(s), !.i = 0, !.due = s]
    OBVIOUS
  <2>6. Len(s) \in Nat /\ Len(s) \in Int
    OBVIOUS
  <2>7. f \in EventFrame /\ f.arrays = u.arrays /\ f.l = Len(s) /\ f.due = s
    BY <2>5, <2>6 DEF EventFrame
  <2>8. TriggerOK(f)'
    <3>1. heap' = heap
      BY <1>1
    <3>2. \A k \in 1 .. Len(u.arrays) : u.arrays[k][2] \in 1 .. Len(heap)
      BY <2>1 DEF TriggerOK
    <3> QED BY <2>3, <2>4, <2>6, <2>7, <3>1, <3>2 DEF TriggerOK
  <2>9. triggers' = <<f>> \o t
    BY <2>1, <2>2, <2>4, <2>5 DEF Events!Enter, Events!SetTop
  <2> QED BY <1>0, <1>2, <2>2, <2>7, <2>8, <2>9, TriggerOnTop
<1> QED BY <1>2, <1>3, <1>4, <1>5 DEF EventInv

(* The next callback: it is still the one that was due, and the wrapper of *)
(* once unbinds itself before it calls.                                    *)
LEMMA CallKeeps ==
  ASSUME EventInv, Events!Call
  PROVE  EventInv'
<1>0. Arrays /\ Wrappers /\ Listening /\ Triggers
  BY DEF EventInv
<1>1. triggers # <<>> /\ _listeningTo' = _listeningTo
  BY DEF Events!Call
<1>2. PICK u \in EventFrame : u = Events!Top /\ TriggerOK(u)
  BY <1>0, <1>1, TopTrigger
<1>3. u.i \in Nat /\ u.l \in Int /\ u.o \in Objs /\ u.l > u.i
  BY <1>2 DEF Events!Call, EventFrame
<1>4. u.l >= 0
  BY <1>3
<1>5. u.arrays # <<>>
  BY <1>2, <1>4 DEF TriggerOK
<1>6. PICK x \in Events!Names : x = Head(u.arrays)[1]
  BY <1>0, <1>2, <1>5, NextArray
<1>7. PICK e : e = heap[Head(u.arrays)[2]][u.i + 1]
  OBVIOUS
<1>8. /\ triggers' = Events!SetTop([Events!Top EXCEPT !.i = @ + 1, !.calling = e.once \notin spent])
      /\ \/ UNCHANGED <<heap, _events, spent, onceRan>>
         \/ /\ e.once \notin spent /\ spent' = spent \cup {e.once}
            /\ onceRan' = [onceRan EXCEPT ![e.once] = @ + 1]
            /\ Events!off(u.o, x, NoArg, NoArg, e.once)
  BY <1>2, <1>6, <1>7, Zenon DEF Events!Call
<1>9. Arrays' /\ HeapGrows /\ Listening'
  <2>1. CASE UNCHANGED <<heap, _events, spent, onceRan>>
    BY <1>0, <1>1, <2>1, ArraysStay DEF Listening
  <2>2. CASE Events!off(u.o, x, NoArg, NoArg, e.once)
    BY <1>0, <1>1, <1>3, <2>2, OffUnbinds, OffListening
  <2> QED BY <1>8, <2>1, <2>2
<1>10. Wrappers'
  BY <1>0, <1>8, WrappersStay, WrapperCalled
<1>11. Triggers'
  <2>0. PICK i \in Nat : i = u.i + 1
    BY <1>3
  <2>1. PICK b \in BOOLEAN : b = (e.once \notin spent)
    OBVIOUS
  <2>2. triggers' = Events!SetTop([Events!Top EXCEPT !.i = i, !.calling = b])
    <3>1. triggers' = Events!SetTop([u EXCEPT !.i = u.i + 1, !.calling = e.once \notin spent])
      BY <1>2, <1>8
    <3> QED BY <1>2, <2>0, <2>1, <3>1, Zenon
  <2> QED BY <1>0, <1>1, <1>9, <2>2, TopSteps
<1> QED BY <1>9, <1>10, <1>11 DEF EventInv

(* The callback returns. *)
LEMMA ReturnKeeps ==
  ASSUME EventInv, Events!Return
  PROVE  EventInv'
<1>0. Arrays /\ Wrappers /\ Listening /\ Triggers
  BY DEF EventInv
<1>1. /\ UNCHANGED <<heap, _events>> /\ _listeningTo' = _listeningTo /\ spent' = spent /\ onceRan' = onceRan
      /\ triggers # <<>>
  BY DEF Events!Return
<1>2. Arrays' /\ HeapGrows
  BY <1>0, <1>1, ArraysStay
<1>3. Listening'
  BY <1>0, <1>1, ArraysStay DEF Listening
<1>4. Wrappers'
  BY <1>0, <1>1, WrappersStay
<1>5. Triggers'
  <2>1. PICK u \in EventFrame : u = Events!Top
    BY <1>0, <1>1, TopTrigger
  <2>2. PICK i \in Nat : i = u.i
    BY DEF EventFrame
  <2>3. [u EXCEPT !.calling = FALSE] = [u EXCEPT !.i = i, !.calling = FALSE]
    BY <2>2 DEF EventFrame
  <2>4. triggers' = Events!SetTop([Events!Top EXCEPT !.i = i, !.calling = FALSE])
    BY <2>1, <2>3 DEF Events!Return
  <2> QED BY <1>0, <1>1, <1>2, <2>4, TopSteps
<1> QED BY <1>2, <1>3, <1>4, <1>5 DEF EventInv

(* A trigger leaves an array, or ends. *)
LEMMA LeaveKeeps ==
  ASSUME EventInv, Events!Leave
  PROVE  EventInv'
<1>0. Arrays /\ Wrappers /\ Listening /\ Triggers
  BY DEF EventInv
<1>1. /\ UNCHANGED <<heap, _events>> /\ _listeningTo' = _listeningTo /\ spent' = spent /\ onceRan' = onceRan
      /\ triggers # <<>>
  BY DEF Events!Leave
<1>2. Arrays' /\ HeapGrows
  BY <1>0, <1>1, ArraysStay
<1>3. Listening'
  BY <1>0, <1>1, ArraysStay DEF Listening
<1>4. Wrappers'
  BY <1>0, <1>1, WrappersStay
<1>5. Triggers'
  <2>1. PICK u \in EventFrame : u = Events!Top /\ TriggerOK(u)
    BY <1>0, <1>1, TopTrigger
  <2>2. PICK t \in Seq(EventFrame) : t = Tail(triggers) /\ \A fr \in Range(t) : TriggerOK(fr)
    BY <1>0, <1>1, TopTrigger
  <2>3. CASE triggers' = Tail(triggers)
    BY <1>0, <1>2, <2>2, <2>3, TriggersBelow DEF Triggers
  <2>4. CASE u.arrays # <<>> /\ triggers' = Events!SetTop([Events!Top EXCEPT !.arrays = Tail(@), !.l = -1])
    <3>1. PICK as \in Seq(Events!Names \X Nat) :
            as = Tail(u.arrays) /\ \A k \in 1 .. Len(as) : as[k][2] \in 1 .. Len(heap)
      BY <1>0, <2>1, <2>4, NextArray
    <3>2. PICK f : f = [u EXCEPT !.arrays = as, !.l = -1]
      OBVIOUS
    <3>3. f \in EventFrame /\ f.arrays = as /\ ~(f.l >= 0)
      <4>1. PICK w \in Int : w = -1 /\ ~(w >= 0)
        OBVIOUS
      <4>2. f = [u EXCEPT !.arrays = as, !.l = w]
        BY <3>2, <4>1
      <4>3. f \in EventFrame /\ f.arrays = as /\ f.l = w
        BY <4>2 DEF EventFrame
      <4> QED BY <4>1, <4>3
    <3>4. TriggerOK(f)'
      <4>1. heap' = heap
        BY <1>1
      <4> QED BY <3>1, <3>3, <4>1 DEF TriggerOK
    <3>5. triggers' = <<f>> \o t
      BY <2>1, <2>2, <2>4, <3>1, <3>2 DEF Events!SetTop
    <3> QED BY <1>0, <1>2, <2>2, <3>3, <3>4, <3>5, TriggerOnTop
  <2> QED BY <2>1, <2>3, <2>4 DEF Events!Leave
<1> QED BY <1>2, <1>3, <1>4, <1>5 DEF EventInv

LEMMA EventInvInit ==
  ASSUME Events!Init
  PROVE  EventInv
<1>1. /\ heap = <<>> /\ triggers = <<>> /\ spent = {} /\ onceRan = <<>>
      /\ _events = [o \in Objs |-> [n \in Events!Names |-> 0]]
      /\ _listeningTo = [l \in Listeners |-> {}]
  BY DEF Events!Init
<1>2. \A o \in Objs, n \in Events!Names : _events[o][n] = 0
  BY <1>1
<1>3. Arrays
  <2>1. _events \in [Objs -> [Events!Names -> Nat]]
    BY <1>1
  <2>2. heap \in Seq(Seq(CallbackEntry)) /\ Len(heap) = 0
    BY <1>1
  <2> QED BY <1>2, <2>1, <2>2 DEF Arrays
<1>4. Wrappers
  <2>1. onceRan \in Seq(0 .. 1) /\ Len(onceRan) = 0
    BY <1>1
  <2> QED BY <2>1 DEF Wrappers
<1>5. Listening
  <2>1. \A o \in Objs, n \in Events!Names : Events!Bound(o, n) = <<>>
    BY <1>2 DEF Events!Bound
  <2>2. \A o \in Objs, n \in Events!Names : Len(Events!Bound(o, n)) = 0
    BY <2>1
  <2>3. \A o \in Objs, n \in Events!Names : \A i \in 1 .. Len(Events!Bound(o, n)) : FALSE
    <3> SUFFICES ASSUME NEW o \in Objs, NEW n \in Events!Names, NEW i \in 1 .. Len(Events!Bound(o, n)) PROVE FALSE
      OBVIOUS
    <3>1. i \in 1 .. 0
      BY <2>2
    <3> QED BY <3>1
  <2> QED BY <1>1, <2>3 DEF Listening
<1>6. Triggers
  <2>1. triggers \in Seq(EventFrame) /\ Len(triggers) = 0
    BY <1>1
  <2>2. Range(triggers) = {triggers[k] : k \in 1 .. Len(triggers)}
    BY <2>1, RangeEquality
  <2> QED BY <2>1, <2>2 DEF Triggers
<1> QED BY <1>3, <1>4, <1>5, <1>6 DEF EventInv

LEMMA EventInvNext ==
  ASSUME EventInv, [Events!Next]_Events!vars
  PROVE  EventInv'
<1>1. CASE UNCHANGED Events!vars
  <2>0. Arrays /\ Wrappers /\ Listening /\ Triggers
    BY DEF EventInv
  <2>1. UNCHANGED <<heap, _events>> /\ UNCHANGED <<_listeningTo, triggers, spent, onceRan>>
    BY <1>1 DEF Events!vars
  <2>2. Arrays' /\ HeapGrows
    BY <2>0, <2>1, ArraysStay
  <2>3. Listening'
    BY <2>0, <2>1, ArraysStay DEF Listening
  <2>4. Wrappers'
    BY <2>0, <2>1, WrappersStay
  <2>5. Triggers'
    BY <2>0, <2>1, <2>2, TriggersGrow
  <2> QED BY <2>2, <2>3, <2>4, <2>5 DEF EventInv
<1>2. ASSUME NEW o \in Objs, NEW n \in Events!Names, NEW f \in Handlers,
             Events!On(o, n, f, NoArg) \/ Events!Once(o, n, f, NoArg)
      PROVE  EventInv'
  BY <1>2, OnKeeps
<1>3. ASSUME NEW o \in Objs, NEW n, NEW f, NEW cx, Events!Off(o, n, f, cx)
      PROVE  EventInv'
  BY <1>3, OffKeepsInv
<1>4. ASSUME NEW l \in Listeners, NEW o \in Objs, NEW n \in Events!Names, NEW f \in Handlers,
             NEW once \in BOOLEAN, Events!ListenTo(l, o, n, f, once)
      PROVE  EventInv'
  BY <1>4, ListenToKeeps
<1>5. ASSUME NEW l \in Listeners, NEW o \in Objs, NEW n, NEW f, Events!StopListening(l, o, n, f)
      PROVE  EventInv'
  BY <1>5, StopListeningKeeps
<1>6. ASSUME NEW o \in Objs, Events!Trigger(o, "change")
      PROVE  EventInv'
  <2>1. "change" \in Events!Names
    BY DEF Events!Names
  <2> QED BY <1>6, <2>1, TriggerKeeps
<1>7. CASE Events!Enter \/ Events!Call \/ Events!Return \/ Events!Leave
  BY <1>7, EnterKeeps, CallKeeps, ReturnKeeps, LeaveKeeps
<1> QED BY <1>1, <1>2, <1>3, <1>4, <1>5, <1>6, <1>7, Zenon DEF Events!Next

(* What a trigger has called is what was due. *)
LEMMA DueIsBound ==
  ASSUME EventInv
  PROVE  Events!Delivery
<1>0. Arrays /\ Wrappers /\ Triggers
  BY DEF EventInv
<1>1. ASSUME NEW k \in DOMAIN triggers, triggers[k].l >= 0
      PROVE  SubSeq(heap[Head(triggers[k].arrays)[2]], 1, triggers[k].l) = triggers[k].due
  <2>1. triggers[k] \in EventFrame /\ triggers[k] \in Range(triggers)
    <3>1. triggers \in Seq(EventFrame)
      BY <1>0 DEF Triggers
    <3>2. k \in 1 .. Len(triggers)
      BY <3>1
    <3>3. Range(triggers) = {triggers[j] : j \in 1 .. Len(triggers)}
      BY <3>1, RangeEquality
    <3> QED BY <3>1, <3>2, <3>3
  <2>2. PICK u \in EventFrame : u = triggers[k] /\ TriggerOK(u)
    BY <1>0, <2>1 DEF Triggers
  <2>3. u.arrays # <<>> /\ u.l >= 0
    BY <1>1, <2>2 DEF TriggerOK
  <2>4. PICK a \in 1 .. Len(heap), s \in Seq(CallbackEntry) :
          a = u.arrays[1][2] /\ s = heap[a] /\ Head(u.arrays) = u.arrays[1]
    BY <1>0, <2>2, <2>3, NextArray
  <2>5. PICK d \in Seq(CallbackEntry), l \in Nat :
          /\ d = u.due /\ l = u.l /\ l = Len(d) /\ l <= Len(s)
          /\ \A j \in 1 .. l : s[j] = d[j]
    <3>1. u.due \in Seq(CallbackEntry) /\ u.l \in Nat
      BY <2>3 DEF EventFrame
    <3>2. u.l = Len(u.due) /\ u.l <= Len(s) /\ \A j \in 1 .. u.l : s[j] = u.due[j]
      BY <2>2, <2>3, <2>4 DEF TriggerOK
    <3> QED BY <3>1, <3>2
  <2>6. PICK b : b = SubSeq(s, 1, l)
    OBVIOUS
  <2>7. b \in Seq(CallbackEntry) /\ Len(b) = l /\ \A j \in 1 .. l : b[j] = s[j]
    <3>1. l \in 0 .. Len(s) /\ 1 \in Int
      BY <2>5
    <3> QED BY <2>5, <2>6, <3>1
  <2>8. b = d
    BY <2>5, <2>7, SeqEqual
  <2> QED BY <2>2, <2>4, <2>5, <2>6, <2>8
<1>2. \A w \in DOMAIN onceRan : onceRan[w] <= 1
  <2>1. onceRan \in [1 .. Len(onceRan) -> 0 .. 1]
    BY <1>0 DEF Wrappers
  <2>2. \A w \in DOMAIN onceRan : onceRan[w] \in 0 .. 1
    BY <2>1
  <2> QED BY <2>2
<1> QED BY <1>1, <1>2 DEF Events!Delivery

(* A listener knows where it listens. *)
LEMMA ListenersKnow ==
  ASSUME EventInv
  PROVE  Events!ListeningComplete
<1>1. Arrays /\ Listening
  BY DEF EventInv
<1> SUFFICES ASSUME NEW o \in Objs, NEW n \in Events!Names, NEW i \in DOMAIN Events!Bound(o, n),
                    Events!Bound(o, n)[i].context # NoArg
             PROVE  o \in _listeningTo[Events!Bound(o, n)[i].context]
  BY DEF Events!ListeningComplete
<1>2. i \in 1 .. Len(Events!Bound(o, n))
  <2>1. PICK s \in Seq(CallbackEntry) : s = Events!Bound(o, n)
    BY <1>1, BoundType
  <2> QED BY <2>1
<1> QED BY <1>1, <1>2 DEF Listening

(* A trigger of Backbone.Events calls exactly the callbacks that were      *)
(* bound when it came to their array, in their order, however callbacks    *)
(* bind, unbind and trigger; a callback bound by once runs one time; and a *)
(* listener knows every object that holds a callback of it (Delivery).     *)
THEOREM EventsDelivered == Events!Spec => []Delivery
<1>1. Events!Init => EventInv
  BY EventInvInit
<1>2. EventInv /\ [Events!Next]_Events!vars => EventInv'
  BY EventInvNext
<1>3. EventInv => Delivery
  BY DueIsBound, ListenersKnow DEF Delivery
<1> QED BY <1>1, <1>2, <1>3, PTL DEF Events!Spec

-----------------------------------------------------------------------------
(***************************************************************************)
(* Backbone.Model.                                                         *)
(***************************************************************************)
ModelConstants == IsFiniteSet(Attrs) /\ "id" \in Attrs

SetOptions == [silent : BOOLEAN, validate : BOOLEAN]
ModelRequest == [kind : {"fetch"}]
                \cup [kind : {"save"}, wait : BOOLEAN, attrs : Model!Hash]
                \cup [kind : {"destroy"}, wait : BOOLEAN]
ModelStep == {Model!User} \cup ({"set"} \X Model!Hash \X SetOptions) \cup ({"flush"} \X BOOLEAN)
             \cup ({"validate"} \X Model!Hash) \cup ({"sync"} \X ModelRequest)
ModelFrame == [todo : Seq(ModelStep), user : BOOLEAN]

SilentFlush == <<"flush", TRUE>>

(* set and validate, which may give up what is left of an activation, come *)
(* first in it, and then it has no loop of change events to lose.          *)
Flushes(todo) == \E s \in Range(todo) : s[1] = "flush"
TodoOK(todo) ==
  todo # <<>> =>
    /\ \A s \in Range(Tail(todo)) : s[1] \notin {"set", "validate"}
    /\ Head(todo)[1] \in {"set", "validate"} => ~Flushes(todo)
NoneSilent(todo) == \A s \in Range(todo) : s # SilentFlush

(* The loop of a silent set runs at once: nothing comes before it, and no  *)
(* change waits for it.                                                    *)
Loud(todo) == \/ NoneSilent(todo)
              \/ /\ todo # <<>> /\ Head(todo) = SilentFlush /\ NoneSilent(Tail(todo))
                 /\ ~_pending /\ ~dirty

(* changed and id agree with the attributes, and a change that waits for   *)
(* its event has asked for it, inside a set.                               *)
Books ==
  /\ attributes \in Model!All /\ _previousAttributes \in Model!All
  /\ _changing \in BOOLEAN /\ _pending \in BOOLEAN /\ dirty \in BOOLEAN
  /\ modelRequests \subseteq ModelRequest
  /\ changed = [a \in {b \in Attrs : attributes[b] # _previousAttributes[b]} |-> attributes[a]]
  /\ id = attributes["id"]
  /\ dirty => _pending
  /\ _pending => _changing

(* Activations that wait for the ones above them. *)
BelowOK(t) == t \in Seq(ModelFrame) /\ \A f \in Range(t) : TodoOK(f.todo) /\ NoneSilent(f.todo)
FlushBelow(t) == \E f \in Range(t) : Flushes(f.todo)

Act(todo, user) == [todo |-> todo, user |-> user]

(* The stack: the activation on top and those below it. *)
TopAct(todo, user, t) ==
  /\ modelStack = <<Act(todo, user)>> \o t
  /\ todo \in Seq(ModelStep) /\ user \in BOOLEAN /\ BelowOK(t)
  /\ TodoOK(todo) /\ Loud(todo)
  /\ _changing => Flushes(todo) \/ FlushBelow(t)

ModelInv ==
  /\ Books
  /\ \/ modelStack = <<>> /\ ~_changing
     \/ \E todo, user, t : TopAct(todo, user, t)

(* Partial sets of attributes. *)
LEMMA HashFunctions ==
  ASSUME NEW h
  PROVE  h \in Model!Hash <=> DOMAIN h \subseteq Attrs /\ h \in [DOMAIN h -> AttrValues \cup {Unset}]
<1>1. ASSUME h \in Model!Hash PROVE DOMAIN h \subseteq Attrs /\ h \in [DOMAIN h -> AttrValues \cup {Unset}]
  <2>1. PICK S \in SUBSET Attrs : h \in [S -> AttrValues \cup {Unset}]
    BY <1>1 DEF Model!Hash
  <2>2. DOMAIN h = S
    BY <2>1
  <2> QED BY <2>1, <2>2
<1>2. ASSUME DOMAIN h \subseteq Attrs, h \in [DOMAIN h -> AttrValues \cup {Unset}] PROVE h \in Model!Hash
  <2>1. DOMAIN h \in SUBSET Attrs
    BY <1>2
  <2> QED BY <1>2, <2>1 DEF Model!Hash
<1> QED BY <1>1, <1>2

(* _.extend gives attributes of the model, and of a request. *)
LEMMA ExtendHash ==
  ASSUME NEW g \in Model!Hash, NEW h \in Model!Hash
  PROVE  Model!Extend(g, h) \in Model!Hash
<1>1. PICK e : e = Model!Extend(g, h)
  OBVIOUS
<1>2. DOMAIN e = DOMAIN g \cup DOMAIN h /\ e \in [DOMAIN g \cup DOMAIN h -> AttrValues \cup {Unset}]
  BY <1>1, HashFunctions DEF Model!Extend
<1>3. DOMAIN e \subseteq Attrs /\ e \in [DOMAIN e -> AttrValues \cup {Unset}]
  BY <1>2, HashFunctions
<1> QED BY <1>1, <1>3, HashFunctions

(* What a step of an activation is. *)
LEMMA ModelSteps ==
  ASSUME NEW s \in ModelStep
  PROVE  /\ s[1] = "user" => s = Model!User
         /\ s[1] = "set" => s[2] \in Model!Hash /\ s[3] \in SetOptions
         /\ s[1] = "flush" => s[2] \in BOOLEAN /\ s = <<"flush", s[2]>>
         /\ s[1] = "validate" => s[2] \in Model!Hash
         /\ s[1] = "sync" => s[2] \in ModelRequest
BY DEF ModelStep, Model!User

(* The steps of a model. *)
LEMMA ModelStepsOf ==
  /\ Model!User \in ModelStep /\ Model!User[1] = "user"
  /\ \A b \in BOOLEAN : <<"flush", b>> \in ModelStep /\ <<"flush", b>>[1] = "flush" /\ <<"flush", b>>[2] = b
  /\ \A h \in Model!Hash, o \in SetOptions : <<"set", h, o>> \in ModelStep /\ <<"set", h, o>>[1] = "set"
  /\ \A h \in Model!Hash : <<"validate", h>> \in ModelStep /\ <<"validate", h>>[1] = "validate"
  /\ \A r \in ModelRequest : <<"sync", r>> \in ModelStep /\ <<"sync", r>>[1] = "sync"
BY DEF ModelStep, Model!User

(* A step in front of others. *)
LEMMA TodoPush ==
  ASSUME NEW s \in ModelStep, NEW t \in Seq(ModelStep)
  PROVE  /\ <<s>> \o t \in Seq(ModelStep) /\ <<s>> \o t # <<>>
         /\ Range(<<s>> \o t) = {s} \cup Range(t)
         /\ Head(<<s>> \o t) = s /\ Tail(<<s>> \o t) = t
<1>1. <<s>> \o t \in Seq(ModelStep) /\ <<s>> \o t # <<>> /\ Range(<<s>> \o t) = {s} \cup Range(t)
  BY RangePush
<1>2. Head(<<s>> \o t) = s /\ Tail(<<s>> \o t) = t
  OBVIOUS
<1> QED BY <1>1, <1>2

(* A silent loop is a loop. *)
LEMMA SilentIsFlush ==
  SilentFlush \in ModelStep /\ SilentFlush[1] = "flush" /\ SilentFlush[2] = TRUE
BY DEF SilentFlush, ModelStep

(* The parts of an activation that has something to do. *)
LEMMA TodoSplit ==
  ASSUME NEW td \in Seq(ModelStep), td # <<>>
  PROVE  /\ Head(td) \in ModelStep /\ Tail(td) \in Seq(ModelStep)
         /\ Range(td) = {Head(td)} \cup Range(Tail(td))
<1>1. PICK s, t : s = Head(td) /\ t = Tail(td) /\ s \in ModelStep /\ t \in Seq(ModelStep) /\ td = <<s>> \o t
  BY StackSplit
<1>2. Range(<<s>> \o t) = {s} \cup Range(t)
  BY <1>1, RangePush
<1> QED BY <1>1, <1>2

(* Steps that are not set or validate need no care. *)
Plain(todo) == todo \in Seq(ModelStep) /\ \A s \in Range(todo) : s[1] \notin {"set", "validate"}

(* Steps that have no loop of change events. *)
Fresh(todo) == todo \in Seq(ModelStep) /\ TodoOK(todo) /\ ~Flushes(todo)

(* What an API call or an answer begins with. *)
LEMMA TodoFresh ==
  ASSUME NEW s \in ModelStep, NEW t, Plain(t), s[1] # "flush", ~Flushes(t)
  PROVE  Fresh(<<s>> \o t)
<1>1. <<s>> \o t \in Seq(ModelStep) /\ Range(<<s>> \o t) = {s} \cup Range(t) /\ Tail(<<s>> \o t) = t
  BY TodoPush DEF Plain
<1>2. ~Flushes(<<s>> \o t)
  BY <1>1 DEF Flushes
<1> QED BY <1>1, <1>2 DEF Fresh, TodoOK, Plain

(* Steps that are not set or validate are in order. *)
LEMMA TodoPlain ==
  ASSUME NEW t, Plain(t)
  PROVE  TodoOK(t)
<1>1. t # <<>> => Range(t) = {Head(t)} \cup Range(Tail(t))
  BY TodoSplit DEF Plain
<1> QED BY <1>1 DEF TodoOK, Plain

(* The trivial ones. *)
LEMMA TodoEmpty ==
  /\ Plain(<<>>) /\ ~Flushes(<<>>) /\ Fresh(<<>>) /\ NoneSilent(<<>>) /\ TodoOK(<<>>)
<1>1. <<>> \in Seq(ModelStep) /\ Range(<<>>) = {}
  BY RangeEmpty, EmptySeq
<1> QED BY <1>1 DEF Plain, Flushes, Fresh, NoneSilent, TodoOK

(* A handler that is called, and nothing else. *)
LEMMA TodoUser ==
  /\ Plain(<<Model!User>>) /\ ~Flushes(<<Model!User>>) /\ Fresh(<<Model!User>>) /\ NoneSilent(<<Model!User>>)
<1>1. Model!User \in ModelStep /\ Model!User[1] = "user"
  BY ModelStepsOf
<1>2. <<Model!User>> \in Seq(ModelStep) /\ Range(<<Model!User>>) = {Model!User}
  <2>1. <<Model!User>> = <<Model!User>> \o <<>>
    BY <1>1, ConcatEmptySeq
  <2>2. Range(<<Model!User>> \o <<>>) = {Model!User} \cup Range(<<>>) /\ <<Model!User>> \o <<>> \in Seq(ModelStep)
    BY <1>1, RangePush, EmptySeq
  <2>3. Range(<<>>) = {}
    BY RangeEmpty
  <2> QED BY <2>1, <2>2, <2>3
<1>3. Plain(<<Model!User>>) /\ ~Flushes(<<Model!User>>)
  BY <1>1, <1>2 DEF Plain, Flushes
<1>4. NoneSilent(<<Model!User>>)
  BY <1>1, <1>2, SilentIsFlush DEF NoneSilent
<1> QED BY <1>3, <1>4, TodoPlain DEF Fresh, Plain

(* One of the two lists, or both. *)
LEMMA TodoJoin ==
  ASSUME NEW x, NEW y, Plain(x), Plain(y)
  PROVE  Plain(x \o y) /\ (Flushes(x \o y) <=> Flushes(x) \/ Flushes(y))
         /\ (NoneSilent(x \o y) <=> NoneSilent(x) /\ NoneSilent(y))
<1>1. x \in Seq(ModelStep) /\ y \in Seq(ModelStep) /\ x \o y \in Seq(ModelStep)
  BY ConcatProperties DEF Plain
<1>2. Range(x \o y) = Range(x) \cup Range(y)
  BY <1>1, RangeConcatenation
<1> QED BY <1>1, <1>2 DEF Plain, Flushes, NoneSilent

(* An API call from the event loop begins with its own activation. *)
LEMMA FreshLoud ==
  ASSUME NEW t, Fresh(t)
  PROVE  NoneSilent(t)
BY SilentIsFlush DEF Fresh, Flushes, NoneSilent

(* The activation on top, and the top of the specification. *)
AtTop(td, u, t) == /\ TopAct(td, u, t)
                   /\ Model!Top = Act(td, u) /\ Model!Top.todo = td /\ Model!Top.user = u /\ Tail(modelStack) = t

(* An activation. *)
LEMMA ActFrame ==
  ASSUME NEW td \in Seq(ModelStep), NEW u \in BOOLEAN
  PROVE  Act(td, u) \in ModelFrame /\ Act(td, u).todo = td /\ Act(td, u).user = u
BY DEF Act, ModelFrame

(* There is one if the stack is not empty. *)
LEMMA ModelTop ==
  ASSUME ModelInv, modelStack # <<>>
  PROVE  \E td, u, t : AtTop(td, u, t)
<1>1. PICK td, u, t : TopAct(td, u, t)
  BY DEF ModelInv
<1>2. PICK f : f = Act(td, u) /\ f \in ModelFrame /\ f.todo = td /\ f.user = u /\ t \in Seq(ModelFrame)
  BY <1>1 DEF TopAct, Act, ModelFrame, BelowOK
<1>3. modelStack = <<f>> \o t
  BY <1>1, <1>2 DEF TopAct
<1>4. Head(modelStack) = f /\ Tail(modelStack) = t
  BY <1>2, <1>3
<1>5. AtTop(td, u, t)
  BY <1>1, <1>2, <1>4 DEF AtTop, Model!Top
<1> QED BY <1>5

(* Its remaining steps are replaced. *)
LEMMA ModelGoto ==
  ASSUME NEW td, NEW u, NEW t, AtTop(td, u, t), NEW new
  PROVE  <<[Model!Top EXCEPT !.todo = new]>> \o Tail(modelStack) = <<Act(new, u)>> \o t
<1>1. [Model!Top EXCEPT !.todo = new] = Act(new, u)
  BY DEF AtTop, Act
<1> QED BY <1>1 DEF AtTop

(* The state after a step of the activation on top. *)
LEMMA ModelPut ==
  ASSUME Books', NEW new \in Seq(ModelStep), NEW u \in BOOLEAN, NEW t,
         modelStack' = <<Act(new, u)>> \o t, BelowOK(t), TodoOK(new), Loud(new)',
         _changing' => Flushes(new) \/ FlushBelow(t)
  PROVE  ModelInv'
<1>1. TopAct(new, u, t)'
  BY DEF TopAct
<1> QED BY <1>1 DEF ModelInv

(* An activation that waits for the ones above it. *)
LEMMA BelowPush ==
  ASSUME NEW td \in Seq(ModelStep), NEW u \in BOOLEAN, NEW t, BelowOK(t), TodoOK(td), NoneSilent(td)
  PROVE  BelowOK(<<Act(td, u)>> \o t) /\ (FlushBelow(<<Act(td, u)>> \o t) <=> Flushes(td) \/ FlushBelow(t))
<1>1. PICK f : f = Act(td, u) /\ f \in ModelFrame /\ f.todo = td /\ t \in Seq(ModelFrame)
  BY ActFrame DEF BelowOK
<1>2. <<f>> \o t \in Seq(ModelFrame) /\ Range(<<f>> \o t) = {f} \cup Range(t)
  BY <1>1, RangePush
<1>3. BelowOK(<<f>> \o t) /\ (FlushBelow(<<f>> \o t) <=> Flushes(td) \/ FlushBelow(t))
  BY <1>1, <1>2 DEF BelowOK, FlushBelow
<1> QED BY <1>1, <1>3

(* The state after the activation on top has returned. *)
LEMMA ModelPop ==
  ASSUME Books', NEW t, modelStack' = t, BelowOK(t), _changing' => FlushBelow(t)
  PROVE  ModelInv'
<1>1. CASE t = <<>>
  <2>1. Range(t) = {}
    BY <1>1, RangeEmpty
  <2>2. ~_changing'
    BY <2>1 DEF FlushBelow
  <2> QED BY <1>1, <2>2 DEF ModelInv
<1>2. CASE t # <<>>
  <2>1. t \in Seq(ModelFrame)
    BY DEF BelowOK
  <2>2. PICK f, b : f \in ModelFrame /\ b \in Seq(ModelFrame) /\ t = <<f>> \o b
    BY <1>2, <2>1, StackSplit
  <2>3. Range(t) = {f} \cup Range(b)
    BY <2>2, RangePush
  <2>4. f = Act(f.todo, f.user) /\ f.todo \in Seq(ModelStep) /\ f.user \in BOOLEAN
    BY <2>2 DEF ModelFrame, Act
  <2>5. BelowOK(b) /\ TodoOK(f.todo) /\ NoneSilent(f.todo)
    BY <2>2, <2>3 DEF BelowOK
  <2>6. _changing' => Flushes(f.todo) \/ FlushBelow(b)
    BY <2>3 DEF FlushBelow
  <2>7. Loud(f.todo)'
    BY <2>5 DEF Loud
  <2>8. modelStack' = <<Act(f.todo, f.user)>> \o b
    BY <2>2, <2>4
  <2> QED BY <2>4, <2>5, <2>6, <2>7, <2>8, ModelPut
<1> QED BY <1>1, <1>2

(* Steps that do not touch the data. *)
LEMMA BooksKept ==
  ASSUME Books, UNCHANGED Model!Data, modelRequests' \subseteq ModelRequest
  PROVE  Books' /\ _changing' = _changing /\ _pending' = _pending /\ dirty' = dirty
BY DEF Books, Model!Data

(* The initial state satisfies the invariant. *)
LEMMA ModelStart ==
  ASSUME ModelConstants, Model!Init
  PROVE  ModelInv
<1> USE DEF Model!Init
<1>1. attributes \in Model!All /\ _previousAttributes \in Model!All
  BY DEF Model!All
<1>2. _changing \in BOOLEAN /\ _pending \in BOOLEAN /\ dirty \in BOOLEAN /\ modelRequests \subseteq ModelRequest
  BY Zenon
<1>3. {b \in Attrs : attributes[b] # _previousAttributes[b]} = {}
  OBVIOUS
<1>4. changed = [a \in {b \in Attrs : attributes[b] # _previousAttributes[b]} |-> attributes[a]]
  <2>1. changed = [a \in {} |-> Unset]
    BY DEF Model!Empty
  <2> QED BY <1>3, <2>1
<1>5. id = attributes["id"]
  BY DEF ModelConstants
<1> QED BY <1>1, <1>2, <1>4, <1>5 DEF ModelInv, Books

(* Outside the calls of the model no set is under way. *)
LEMMA ModelIdle ==
  ASSUME ModelInv, modelStack = <<>>
  PROVE  ~_changing
<1> SUFFICES ASSUME NEW td, NEW u, NEW t, TopAct(td, u, t) PROVE FALSE
  BY DEF ModelInv
<1>1. <<Act(td, u)>> \o t # <<>>
  <2>1. Act(td, u) \in ModelFrame /\ t \in Seq(ModelFrame)
    BY ActFrame DEF TopAct, BelowOK
  <2> QED BY <2>1, RangePush
<1> QED BY <1>1 DEF TopAct

(* The call of a handler: it may call the model. *)
LEMMA ModelHandler ==
  ASSUME ModelInv, Model!Handler
  PROVE  ModelInv'
<1>1. modelStack # <<>> /\ Model!Top.todo # <<>> /\ Head(Model!Top.todo) = Model!User
      /\ modelStack' = <<[todo |-> <<>>, user |-> TRUE], [Model!Top EXCEPT !.todo = Tail(@)]>> \o Tail(modelStack)
      /\ UNCHANGED Model!Data /\ modelRequests' = modelRequests
  BY DEF Model!Handler
<1>2. PICK td, u, t : AtTop(td, u, t)
  BY <1>1, ModelTop
<1>3. td \in Seq(ModelStep) /\ td # <<>> /\ Head(td) = Model!User /\ u \in BOOLEAN /\ TodoOK(td) /\ Loud(td) /\ BelowOK(t)
      /\ (_changing => Flushes(td) \/ FlushBelow(t))
  BY <1>1, <1>2 DEF AtTop, TopAct
<1>4. Tail(td) \in Seq(ModelStep) /\ Range(td) = {Model!User} \cup Range(Tail(td))
  BY <1>3, TodoSplit
<1>5. NoneSilent(td)
  BY <1>3, ModelStepsOf, SilentIsFlush DEF Loud
<1>6. Plain(Tail(td)) /\ NoneSilent(Tail(td)) /\ (Flushes(td) => Flushes(Tail(td)))
  BY <1>3, <1>4, <1>5, ModelStepsOf DEF Plain, NoneSilent, Flushes, TodoOK
<1>7. BelowOK(<<Act(Tail(td), u)>> \o t)
      /\ (FlushBelow(<<Act(Tail(td), u)>> \o t) <=> Flushes(Tail(td)) \/ FlushBelow(t))
  BY <1>3, <1>4, <1>6, BelowPush, TodoPlain
<1>8. modelStack' = <<Act(<<>>, TRUE)>> \o (<<Act(Tail(td), u)>> \o t)
  <2>1. [Model!Top EXCEPT !.todo = Tail(@)] = Act(Tail(td), u) /\ [todo |-> <<>>, user |-> TRUE] = Act(<<>>, TRUE)
    <3>1. Model!Top.todo = td /\ \A new : [Model!Top EXCEPT !.todo = new] = Act(new, u)
      BY <1>2 DEF AtTop, Act
    <3>2. [Model!Top EXCEPT !.todo = Tail(@)] = [Model!Top EXCEPT !.todo = Tail(Model!Top.todo)]
      OBVIOUS
    <3> QED BY <3>1, <3>2 DEF Act
  <2>2. PICK f, g : f = Act(<<>>, TRUE) /\ g = Act(Tail(td), u) /\ f \in ModelFrame /\ g \in ModelFrame
    BY <1>3, <1>4, ActFrame, EmptySeq
  <2>3. modelStack' = <<f, g>> \o t
    BY <1>1, <1>2, <2>1, <2>2 DEF AtTop
  <2>4. <<f, g>> = <<f>> \o <<g>>
    BY <2>2, SeqTwo
  <2>5. <<f>> \in Seq(ModelFrame) /\ <<g>> \in Seq(ModelFrame) /\ t \in Seq(ModelFrame)
    <3>1. t \in Seq(ModelFrame)
      BY <1>3 DEF BelowOK
    <3>2. f \in ModelFrame /\ g \in ModelFrame
      BY <2>2
    <3>3. <<f>> \in Seq(ModelFrame) /\ <<g>> \in Seq(ModelFrame)
      BY <3>2, SeqOne
    <3> QED BY <3>1, <3>3
  <2>6. modelStack' = <<f>> \o (<<g>> \o t)
    BY <2>3, <2>4, <2>5, ConcatAssociative
  <2> QED BY <2>2, <2>6
<1>9. Books' /\ _changing' = _changing
  BY <1>1, BooksKept DEF ModelInv, Books
<1> QED BY <1>3, <1>6, <1>7, <1>8, <1>9, ModelPut, TodoEmpty DEF Fresh, Loud

(* An activation or a handler returns. *)
LEMMA ModelReturn ==
  ASSUME ModelInv, Model!Return
  PROVE  ModelInv'
<1>1. modelStack # <<>> /\ Model!Top.todo = <<>> /\ modelStack' = Tail(modelStack) /\ UNCHANGED Model!Data /\ modelRequests' = modelRequests
  BY DEF Model!Return
<1>2. PICK td, u, t : AtTop(td, u, t)
  BY <1>1, ModelTop
<1>3. td = <<>> /\ modelStack' = t /\ BelowOK(t) /\ (_changing => Flushes(td) \/ FlushBelow(t))
  BY <1>1, <1>2 DEF AtTop, TopAct
<1>4. Books' /\ _changing' = _changing
  BY <1>1, BooksKept DEF ModelInv, Books
<1> QED BY <1>3, <1>4, ModelPop, TodoEmpty

(* The activation on top and its next step: what set and validate give up, *)
(* and what the other steps leave.                                         *)
LEMMA ModelNextStep ==
  ASSUME ModelInv, modelStack # <<>>, Model!Top.todo # <<>>
  PROVE  \E td, u, t, s, rest :
           /\ AtTop(td, u, t) /\ u \in BOOLEAN /\ BelowOK(t)
           /\ s = Head(td) /\ rest = Tail(td) /\ s \in ModelStep /\ Plain(rest)
           /\ s = Head(Model!Top.todo) /\ rest = Tail(Model!Top.todo)
           /\ NoneSilent(rest) /\ (s = SilentFlush => ~_pending /\ ~dirty)
           /\ s[1] \in {"set", "validate"} => ~Flushes(rest) /\ (_changing => FlushBelow(t))
           /\ s[1] # "flush" /\ _changing => Flushes(rest) \/ FlushBelow(t)
<1>1. PICK td, u, t : AtTop(td, u, t)
  BY ModelTop
<1>2. td \in Seq(ModelStep) /\ td # <<>> /\ td = Model!Top.todo /\ u \in BOOLEAN /\ BelowOK(t) /\ TodoOK(td) /\ Loud(td)
      /\ (_changing => Flushes(td) \/ FlushBelow(t))
  BY <1>1 DEF AtTop, TopAct
<1>3. PICK s, rest : s = Head(td) /\ rest = Tail(td)
  OBVIOUS
<1>4. s \in ModelStep /\ rest \in Seq(ModelStep) /\ Range(td) = {s} \cup Range(rest)
  BY <1>2, <1>3, TodoSplit
<1>5. Plain(rest)
  BY <1>2, <1>3, <1>4 DEF TodoOK, Plain
<1>6. NoneSilent(rest) /\ (s = SilentFlush => ~_pending /\ ~dirty)
  BY <1>2, <1>3, <1>4 DEF Loud, NoneSilent
<1>7. s[1] \in {"set", "validate"} => ~Flushes(td)
  BY <1>2, <1>3 DEF TodoOK
<1>8. Flushes(td) <=> s[1] = "flush" \/ Flushes(rest)
  BY <1>4 DEF Flushes
<1> QED BY <1>1, <1>2, <1>3, <1>4, <1>5, <1>6, <1>7, <1>8

(* An activation goes on with plain steps that keep what it has still to   *)
(* flush.                                                                  *)
LEMMA ModelGoOn ==
  ASSUME ModelInv, NEW td, NEW u \in BOOLEAN, NEW t, AtTop(td, u, t), BelowOK(t), NEW new, Plain(new), NoneSilent(new),
         modelStack' = <<[Model!Top EXCEPT !.todo = new]>> \o Tail(modelStack), UNCHANGED Model!Data,
         modelRequests' \subseteq ModelRequest,
         _changing => Flushes(new) \/ FlushBelow(t)
  PROVE  ModelInv'
<1>1. Books' /\ _changing' = _changing
  BY BooksKept DEF ModelInv
<1>2. modelStack' = <<Act(new, u)>> \o t
  BY ModelGoto
<1> QED BY <1>1, <1>2, ModelPut, TodoPlain DEF Plain, Loud

(* save gives up attributes that would be invalid. *)
LEMMA ModelValidate ==
  ASSUME ModelInv, Model!Validate
  PROVE  ModelInv'
<1>1. modelStack # <<>> /\ Model!Top.todo # <<>> /\ Head(Model!Top.todo)[1] = "validate"
      /\ UNCHANGED Model!Data /\ modelRequests' = modelRequests
  BY DEF Model!Validate
<1>2. PICK new : new \in {<<Model!User>>, Tail(Model!Top.todo)}
                 /\ modelStack' = <<[Model!Top EXCEPT !.todo = new]>> \o Tail(modelStack)
  BY DEF Model!Validate, Model!Goto
<1>3. PICK td, u, t, s, rest :
        /\ AtTop(td, u, t) /\ u \in BOOLEAN /\ BelowOK(t)
        /\ Plain(rest) /\ s = Head(Model!Top.todo) /\ rest = Tail(Model!Top.todo) /\ NoneSilent(rest)
        /\ s[1] \in {"set", "validate"} => ~Flushes(rest) /\ (_changing => FlushBelow(t))
  BY <1>1, ModelNextStep
<1>4. Plain(new) /\ NoneSilent(new) /\ (_changing => FlushBelow(t))
  BY <1>1, <1>2, <1>3, TodoUser
<1>5. modelRequests' \subseteq ModelRequest
  BY <1>1 DEF ModelInv, Books
<1> QED BY <1>1, <1>2, <1>3, <1>4, <1>5, ModelGoOn

(* sync sends the request. *)
LEMMA ModelSync ==
  ASSUME ModelInv, Model!Sync
  PROVE  ModelInv'
<1>1. modelStack # <<>> /\ Model!Top.todo # <<>> /\ Head(Model!Top.todo)[1] = "sync" /\ UNCHANGED Model!Data
      /\ modelRequests' = modelRequests \cup {Head(Model!Top.todo)[2]}
      /\ modelStack' = <<[Model!Top EXCEPT !.todo = <<Model!User>> \o Tail(Model!Top.todo)]>> \o Tail(modelStack)
  BY DEF Model!Sync, Model!Goto
<1>2. PICK td, u, t, s, rest :
        /\ AtTop(td, u, t) /\ u \in BOOLEAN /\ BelowOK(t) /\ s \in ModelStep
        /\ Plain(rest) /\ s = Head(Model!Top.todo) /\ rest = Tail(Model!Top.todo) /\ NoneSilent(rest)
        /\ s[1] # "flush" /\ _changing => Flushes(rest) \/ FlushBelow(t)
  BY <1>1, ModelNextStep
<1>3. PICK new : new = <<Model!User>> \o rest
  OBVIOUS
<1>4. Plain(new) /\ NoneSilent(new) /\ (Flushes(rest) => Flushes(new))
  BY <1>2, <1>3, TodoUser, TodoJoin
<1>5. modelRequests' \subseteq ModelRequest
  BY <1>1, <1>2, ModelSteps DEF ModelInv, Books
<1> QED BY <1>1, <1>2, <1>3, <1>4, <1>5, ModelGoOn

(* The loop of change events at the end of the outermost set. *)
LEMMA ModelFlush ==
  ASSUME ModelInv, Model!Flush
  PROVE  ModelInv'
<1>1. modelStack # <<>> /\ Model!Top.todo # <<>> /\ Head(Model!Top.todo)[1] = "flush"
      /\ Model!flush(Head(Model!Top.todo)[2], Tail(Model!Top.todo))
      /\ attributes' = attributes /\ _previousAttributes' = _previousAttributes /\ changed' = changed
      /\ id' = id /\ modelRequests' = modelRequests
  BY DEF Model!Flush
<1>2. PICK td, u, t, s, rest :
        /\ AtTop(td, u, t) /\ u \in BOOLEAN /\ BelowOK(t) /\ s \in ModelStep
        /\ Plain(rest) /\ s = Head(Model!Top.todo) /\ rest = Tail(Model!Top.todo) /\ NoneSilent(rest)
        /\ s = SilentFlush => ~_pending /\ ~dirty
  BY <1>1, ModelNextStep
<1>3. s[2] \in BOOLEAN /\ s = <<"flush", s[2]>>
  BY <1>1, <1>2, ModelSteps
<1>4. Books
  BY DEF ModelInv
<1>a. CASE ~s[2] /\ _pending
  <2>1. _pending' = FALSE /\ dirty' = FALSE /\ _changing' = _changing
        /\ modelStack' = <<[Model!Top EXCEPT !.todo = <<Model!User, s>> \o rest]>> \o Tail(modelStack)
    BY <1>1, <1>2, <1>3, <1>a DEF Model!flush, Model!Goto
  <2>2. PICK f, new : f = <<Model!User, s>> /\ new = f \o rest
    OBVIOUS
  <2>3. f = <<Model!User>> \o <<s>> /\ <<s>> = <<s>> \o <<>> /\ <<s>> \in Seq(ModelStep)
    BY <1>2, <2>2, ModelStepsOf, SeqTwo, SeqOne, ConcatEmptySeq
  <2>4. Range(<<s>>) = {s}
    <3>1. Range(<<s>> \o <<>>) = {s} \cup Range(<<>>) /\ Range(<<>>) = {}
      BY <1>2, RangePush, RangeEmpty, EmptySeq
    <3> QED BY <2>3, <3>1
  <2>5. s # SilentFlush /\ s[1] = "flush"
    BY <1>1, <1>2, <1>a, SilentIsFlush
  <2>6. Plain(<<s>>) /\ Flushes(<<s>>) /\ NoneSilent(<<s>>)
    BY <2>3, <2>4, <2>5 DEF Plain, Flushes, NoneSilent
  <2>7. Plain(f) /\ Flushes(f) /\ NoneSilent(f)
    BY <2>3, <2>6, TodoUser, TodoJoin
  <2>8. Plain(new) /\ Flushes(new) /\ NoneSilent(new)
    BY <1>2, <2>2, <2>7, TodoJoin
  <2>9. modelStack' = <<Act(new, u)>> \o t
    <3>1. AtTop(td, u, t)
      BY <1>2
    <3>2. <<[Model!Top EXCEPT !.todo = new]>> \o Tail(modelStack) = <<Act(new, u)>> \o t
      BY <3>1, ModelGoto
    <3> QED BY <2>1, <2>2, <3>2
  <2>10. Books'
    BY <1>1, <1>4, <2>1 DEF Books
  <2> QED BY <1>2, <2>8, <2>9, <2>10, ModelPut, TodoPlain DEF Plain, Loud
<1>b. CASE ~(~s[2] /\ _pending)
  <2>1. _pending' = FALSE /\ _changing' = FALSE /\ dirty' = dirty
        /\ modelStack' = <<[Model!Top EXCEPT !.todo = rest]>> \o Tail(modelStack)
    BY <1>1, <1>2, <1>3, <1>b DEF Model!flush, Model!Goto
  <2>2. ~dirty
    <3>1. CASE s[2]
      BY <1>2, <1>3, <3>1 DEF SilentFlush
    <3>2. CASE ~s[2]
      BY <1>4, <1>b, <3>2 DEF Books
    <3> QED BY <3>1, <3>2
  <2>3. modelStack' = <<Act(rest, u)>> \o t
    <3>1. AtTop(td, u, t)
      BY <1>2
    <3>2. <<[Model!Top EXCEPT !.todo = rest]>> \o Tail(modelStack) = <<Act(rest, u)>> \o t
      BY <3>1, ModelGoto
    <3> QED BY <2>1, <3>2
  <2>4. Books'
    BY <1>1, <1>4, <2>1, <2>2 DEF Books
  <2> QED BY <1>2, <2>1, <2>3, <2>4, ModelPut, TodoPlain DEF Plain, Loud
<1> QED BY <1>a, <1>b

(* A script calls the model. *)
LEMMA ModelCalls ==
  ASSUME ModelInv, NEW todo, Fresh(todo), Model!Calls(todo)
  PROVE  ModelInv'
<1>1. Books' /\ _changing' = _changing
  BY BooksKept DEF Model!Calls, ModelInv, Books
<1>2. NoneSilent(todo) /\ todo \in Seq(ModelStep) /\ TodoOK(todo)
  BY FreshLoud DEF Fresh
<1>3. CASE modelStack = <<>> /\ modelStack' = <<[todo |-> todo, user |-> FALSE]>>
  <2>1. ~_changing
    BY <1>3, ModelIdle
  <2>2. modelStack' = <<Act(todo, FALSE)>> \o <<>> /\ BelowOK(<<>>)
    <3>1. <<Act(todo, FALSE)>> \in Seq(ModelFrame)
      BY <1>2, ActFrame, SeqOne
    <3>2. Range(<<>>) = {} /\ <<>> \in Seq(ModelFrame)
      BY RangeEmpty, EmptySeq
    <3> QED BY <1>3, <3>1, <3>2, ConcatEmptySeq DEF Act, BelowOK
  <2> QED BY <1>1, <1>2, <2>1, <2>2, ModelPut DEF Loud
<1>4. CASE /\ modelStack # <<>> /\ Model!Top.user /\ Model!Top.todo = <<>>
           /\ modelStack' = <<[Model!Top EXCEPT !.todo = todo]>> \o Tail(modelStack)
  <2>1. PICK td, u, t : AtTop(td, u, t)
    BY <1>4, ModelTop
  <2>2. td = <<>> /\ u \in BOOLEAN /\ BelowOK(t) /\ (_changing => Flushes(td) \/ FlushBelow(t))
    BY <1>4, <2>1 DEF AtTop, TopAct
  <2>3. _changing => FlushBelow(t)
    BY <2>2, TodoEmpty
  <2>4. modelStack' = <<Act(todo, u)>> \o t
    BY <1>4, <2>1, ModelGoto
  <2> QED BY <1>1, <1>2, <2>2, <2>3, <2>4, ModelPut DEF Loud
<1> QED BY <1>3, <1>4 DEF Model!Calls

(* How the attributes differ from the previous ones, and what set writes   *)
(* down of that.                                                           *)
Difference(at, prev) == [a \in {b \in Attrs : at[b] # prev[b]} |-> at[a]]
Written(at, prev, h) ==
  [a \in (DOMAIN Difference(at, prev) \ DOMAIN h) \cup {a \in DOMAIN h : prev[a] # h[a]} |->
     IF a \in DOMAIN h THEN h[a] ELSE Difference(at, prev)[a]]

(* The difference that set writes down is that of the attributes from the  *)
(* previous ones, whether it is the outermost set or a nested one.         *)
LEMMA SetDifference ==
  ASSUME NEW at \in Model!All, NEW prev \in Model!All, NEW h \in Model!Hash
  PROVE  Model!Extend(at, h) \in Model!All /\ Written(at, prev, h) = Difference(Model!Extend(at, h), prev)
<1>0. PICK old, keys : /\ old = [a \in {b \in Attrs : at[b] # prev[b]} |-> at[a]]
                       /\ keys = (DOMAIN old \ DOMAIN h) \cup {a \in DOMAIN h : prev[a] # h[a]}
  OBVIOUS
<1>1. DOMAIN h \subseteq Attrs /\ h \in [DOMAIN h -> AttrValues \cup {Unset}]
  BY HashFunctions
<1>2. DOMAIN at = Attrs /\ DOMAIN prev = Attrs /\ at \in [Attrs -> AttrValues \cup {Unset}]
  BY DEF Model!All
<1>3. PICK e : e = Model!Extend(at, h)
  OBVIOUS
<1>4. e = [a \in Attrs |-> IF a \in DOMAIN h THEN h[a] ELSE at[a]]
  <2>1. DOMAIN at \cup DOMAIN h = Attrs
    BY <1>1, <1>2
  <2> QED BY <1>3, <2>1 DEF Model!Extend
<1>5. e \in Model!All
  BY <1>1, <1>2, <1>4 DEF Model!All
<1>6. {b \in Attrs : e[b] # prev[b]} = keys
  BY <1>0, <1>1, <1>4
<1>7. \A a \in keys : e[a] = IF a \in DOMAIN h THEN h[a] ELSE old[a]
  BY <1>0, <1>1, <1>4
<1>8. [a \in keys |-> IF a \in DOMAIN h THEN h[a] ELSE old[a]] = [a \in keys |-> e[a]]
  BY <1>7
<1>9. old = Difference(at, prev)
  BY <1>0 DEF Difference
<1>10. Written(at, prev, h) = [a \in keys |-> IF a \in DOMAIN h THEN h[a] ELSE old[a]]
  BY <1>0, <1>9 DEF Written
<1>11. Difference(e, prev) = [a \in keys |-> e[a]]
  BY <1>6 DEF Difference
<1> QED BY <1>3, <1>5, <1>8, <1>10, <1>11

(* A set that is not refused keeps the books. *)
LEMMA SetBooks ==
  ASSUME ModelConstants, Books, NEW h \in Model!Hash, NEW o \in SetOptions, NEW rest, ~Model!Invalid(h, o), Model!set(h, o, rest),
         modelRequests' = modelRequests
  PROVE  Books' /\ _changing' = TRUE
<1>0. PICK at, prev, old, changes :
        /\ at = attributes
        /\ prev = (IF _changing THEN _previousAttributes ELSE attributes)
        /\ old = (IF _changing THEN changed ELSE Model!Empty)
        /\ changes = {a \in DOMAIN h : attributes[a] # h[a]}
  OBVIOUS
<1>1. /\ _changing' = TRUE /\ _previousAttributes' = prev
      /\ changed' = [a \in (DOMAIN old \ DOMAIN h) \cup {a \in DOMAIN h : prev[a] # h[a]} |->
                       IF a \in DOMAIN h THEN h[a] ELSE old[a]]
      /\ id' = (IF "id" \in DOMAIN h THEN h["id"] ELSE id)
      /\ attributes' = Model!Extend(at, h)
      /\ _pending' = (_pending \/ Model!ToNotify(o, changes))
      /\ dirty' = (dirty \/ (~o.silent /\ changes # {}))
  BY <1>0, Zenon DEF Model!set
<1>2. at \in Model!All /\ prev \in Model!All /\ old = Difference(at, prev)
  <2>1. CASE _changing
    BY <1>0, <2>1 DEF Books, Difference
  <2>2. CASE ~_changing
    <3>1. prev = at /\ old = [a \in {} |-> Unset] /\ prev \in Model!All
      BY <1>0, <2>2 DEF Books, Model!Empty
    <3>2. {b \in Attrs : at[b] # prev[b]} = {}
      BY <3>1
    <3>3. Difference(at, prev) = [a \in {} |-> at[a]]
      BY <3>2 DEF Difference
    <3> QED BY <3>1, <3>3
  <2> QED BY <2>1, <2>2
<1>3. attributes' \in Model!All /\ changed' = Difference(attributes', prev)
  <2>1. changed' = Written(at, prev, h)
    BY <1>1, <1>2 DEF Written
  <2>2. Model!Extend(at, h) \in Model!All /\ Written(at, prev, h) = Difference(Model!Extend(at, h), prev)
    BY <1>2, SetDifference
  <2> QED BY <1>1, <2>1, <2>2
<1>4. id' = attributes'["id"]
  <2>1. DOMAIN h \subseteq Attrs
    BY HashFunctions
  <2> QED BY <1>0, <1>1, <2>1 DEF Books, ModelConstants, Model!Extend, Model!All
<1>5. o.silent \in BOOLEAN
  BY DEF SetOptions
<1>6. _pending' \in BOOLEAN /\ dirty' \in BOOLEAN /\ (dirty' => _pending')
  BY <1>1, <1>5 DEF Books, Model!ToNotify
<1>7. _previousAttributes' \in Model!All
      /\ changed' = [a \in {b \in Attrs : attributes'[b] # _previousAttributes'[b]} |-> attributes'[a]]
  BY <1>1, <1>2, <1>3 DEF Difference
<1> QED BY <1>1, <1>3, <1>4, <1>6, <1>7 DEF Books

(* The steps a set leaves: handlers of the attributes, then the loop of    *)
(* change events if it is the outermost set.                               *)
SetSteps(changes, silent, nested, rest) ==
  (IF silent THEN <<>> ELSE Model!Times(Model!Cardinality(changes), Model!User))
  \o (IF nested THEN <<>> ELSE << <<"flush", silent>> >>) \o rest

(* They keep the loop of the outermost set.                                *)
LEMMA SetTodo ==
  ASSUME ModelConstants, NEW changes \in SUBSET Attrs, NEW rest, Plain(rest), NoneSilent(rest),
         NEW silent \in BOOLEAN, NEW nested \in BOOLEAN, NEW new, new = SetSteps(changes, silent, nested, rest)
  PROVE  /\ Plain(new)
         /\ Flushes(rest) => Flushes(new)
         /\ ~nested => Flushes(new)
         /\ \/ NoneSilent(new)
            \/ ~nested /\ silent /\ new # <<>> /\ Head(new) = SilentFlush /\ NoneSilent(Tail(new))
<1>1. PICK hs, fl : /\ hs = (IF silent THEN <<>> ELSE Model!Times(Model!Cardinality(changes), Model!User))
                    /\ fl = (IF nested THEN <<>> ELSE << <<"flush", silent>> >>)
                    /\ new = (hs \o fl) \o rest
  BY DEF SetSteps
<1>2. Plain(hs) /\ NoneSilent(hs)
  <2>1. Model!Cardinality(changes) \in Nat
    <3>1. IsFiniteSet(changes)
      BY FS_Subset DEF ModelConstants
    <3>2. Model!Cardinality(changes) = Cardinality(changes)
      BY DEF Model!Cardinality, Cardinality
    <3> QED BY <3>1, <3>2, FS_CardinalityType
  <2>2. PICK n \in Nat : n = Model!Cardinality(changes)
    BY <2>1
  <2>3. PICK x : x = [i \in 1 .. n |-> Model!User]
    OBVIOUS
  <2>4. x \in Seq(ModelStep) /\ DOMAIN x = 1 .. n /\ \A i \in 1 .. n : x[i] = Model!User
    BY <2>3, ModelStepsOf
  <2>5. Range(x) \subseteq {Model!User}
    <3>1. Range(x) = {x[i] : i \in 1 .. Len(x)} /\ Len(x) = n
      BY <2>4, RangeEquality
    <3> QED BY <2>4, <3>1
  <2>6. Plain(x) /\ NoneSilent(x)
    BY <2>4, <2>5, ModelStepsOf, SilentIsFlush DEF Plain, NoneSilent
  <2>7. hs = <<>> \/ hs = x
    BY <1>1, <2>2, <2>3 DEF Model!Times
  <2> QED BY <2>6, <2>7, TodoEmpty
<1>3. PICK F : F = <<"flush", silent>> /\ F \in ModelStep /\ F[1] = "flush" /\ F[2] = silent
  BY ModelStepsOf
<1>4. <<F>> \in Seq(ModelStep) /\ <<F>> \o <<>> = <<F>> /\ Range(<<F>>) = {F}
  <2>1. <<F>> \in Seq(ModelStep)
    BY <1>3, SeqOne
  <2>2. <<F>> \o <<>> = <<F>>
    BY <2>1, ConcatEmptySeq
  <2>3. Range(<<F>> \o <<>>) = {F} \cup Range(<<>>) /\ Range(<<>>) = {}
    BY <1>3, RangePush, RangeEmpty, EmptySeq
  <2> QED BY <2>1, <2>2, <2>3
<1>5. Plain(<<F>>) /\ Flushes(<<F>>) /\ (~silent => NoneSilent(<<F>>))
  BY <1>3, <1>4, SilentIsFlush DEF Plain, Flushes, NoneSilent
<1>6. Plain(fl) /\ (~nested => Flushes(fl)) /\ (nested \/ ~silent => NoneSilent(fl))
  BY <1>1, <1>3, <1>5, TodoEmpty
<1>7. Plain(hs \o fl) /\ (Flushes(fl) => Flushes(hs \o fl)) /\ (NoneSilent(fl) => NoneSilent(hs \o fl))
  BY <1>2, <1>6, TodoJoin
<1>8. Plain(new) /\ (Flushes(hs \o fl) => Flushes(new)) /\ (Flushes(rest) => Flushes(new))
      /\ (NoneSilent(hs \o fl) => NoneSilent(new))
  BY <1>1, <1>7, TodoJoin
<1>9. ASSUME ~nested, silent PROVE new # <<>> /\ Head(new) = SilentFlush /\ NoneSilent(Tail(new))
  <2>1. hs = <<>> /\ fl = <<F>> /\ F = SilentFlush
    BY <1>1, <1>3, <1>9 DEF SilentFlush
  <2>2. hs \o fl = <<F>>
    BY <1>4, <2>1, ConcatEmptySeq
  <2>3. new = <<F>> \o rest /\ rest \in Seq(ModelStep)
    BY <1>1, <2>2 DEF Plain
  <2>4. new # <<>> /\ Head(new) = F /\ Tail(new) = rest
    BY <1>3, <2>3, TodoPush
  <2> QED BY <2>1, <2>4
<1> QED BY <1>6, <1>7, <1>8, <1>9

(* set: refused, or the outermost one, or nested in a handler. *)
LEMMA ModelSet ==
  ASSUME ModelConstants, ModelInv, Model!Set
  PROVE  ModelInv'
<1>1. modelStack # <<>> /\ Model!Top.todo # <<>> /\ Head(Model!Top.todo)[1] = "set"
      /\ Model!set(Head(Model!Top.todo)[2], Head(Model!Top.todo)[3], Tail(Model!Top.todo)) /\ modelRequests' = modelRequests
  BY DEF Model!Set
<1>2. PICK td, u, t, s, rest :
        /\ AtTop(td, u, t) /\ u \in BOOLEAN /\ BelowOK(t) /\ s \in ModelStep
        /\ Plain(rest) /\ s = Head(Model!Top.todo) /\ rest = Tail(Model!Top.todo) /\ NoneSilent(rest)
        /\ s[1] \in {"set", "validate"} => ~Flushes(rest) /\ (_changing => FlushBelow(t))
  BY <1>1, ModelNextStep
<1>3. PICK h \in Model!Hash, o \in SetOptions : h = s[2] /\ o = s[3]
  BY <1>1, <1>2, ModelSteps
<1>4. Model!set(h, o, rest) /\ (_changing => FlushBelow(t))
  BY <1>1, <1>2, <1>3
<1>5. Books /\ AtTop(td, u, t)
  BY <1>2 DEF ModelInv
<1>a. CASE Model!Invalid(h, o)
  <2>1. UNCHANGED Model!Data /\ modelStack' = <<[Model!Top EXCEPT !.todo = <<Model!User>>]>> \o Tail(modelStack)
    BY <1>4, <1>a DEF Model!set, Model!Goto, Model!Data
  <2>2. modelRequests' \subseteq ModelRequest
    BY <1>1, <1>5 DEF Books
  <2> QED BY <1>2, <1>4, <2>1, <2>2, TodoUser, ModelGoOn
<1>b. CASE ~Model!Invalid(h, o)
  <2>1. Books' /\ _changing' = TRUE
    BY <1>1, <1>4, <1>5, <1>b, SetBooks
  <2>2. PICK changes, new :
          /\ changes = {a \in DOMAIN h : attributes[a] # h[a]}
          /\ new = SetSteps(changes, o.silent, _changing, rest)
          /\ modelStack' = <<[Model!Top EXCEPT !.todo = new]>> \o Tail(modelStack)
          /\ _pending' = (_pending \/ Model!ToNotify(o, changes))
          /\ dirty' = (dirty \/ (~o.silent /\ changes # {}))
    BY <1>4, <1>b DEF Model!set, Model!Goto, SetSteps
  <2>3. PICK silent \in BOOLEAN, nested \in BOOLEAN : silent = o.silent /\ nested = _changing
    BY <1>5 DEF SetOptions, Books
  <2>4. /\ Plain(new)
        /\ ~nested => Flushes(new)
        /\ \/ NoneSilent(new)
           \/ ~nested /\ silent /\ new # <<>> /\ Head(new) = SilentFlush /\ NoneSilent(Tail(new))
    <3>1. new = SetSteps(changes, silent, nested, rest)
      BY <2>2, <2>3
    <3>2. changes \in SUBSET Attrs
      BY <2>2, HashFunctions
    <3>3. Plain(rest) /\ NoneSilent(rest)
      BY <1>2
    <3> QED BY <3>1, <3>2, <3>3, SetTodo
  <2>5. ~nested /\ silent => ~_pending' /\ ~dirty'
    BY <1>5, <2>2, <2>3 DEF Books, Model!ToNotify
  <2>6. Loud(new)'
    BY <2>4, <2>5 DEF Loud
  <2>7. modelStack' = <<Act(new, u)>> \o t
    <3>1. <<[Model!Top EXCEPT !.todo = new]>> \o Tail(modelStack) = <<Act(new, u)>> \o t
      BY <1>5, ModelGoto
    <3> QED BY <2>2, <3>1
  <2>8. Flushes(new) \/ FlushBelow(t)
    BY <1>4, <2>3, <2>4
  <2>9. TodoOK(new) /\ new \in Seq(ModelStep)
    BY <2>4, TodoPlain DEF Plain
  <2> QED BY <1>2, <2>1, <2>6, <2>7, <2>8, <2>9, ModelPut
<1> QED BY <1>a, <1>b

(* A call that begins with any step but a loop, and what may follow it. *)
LEMMA FreshSteps ==
  ASSUME NEW x \in ModelStep, x[1] # "flush", NEW y \in ModelStep, y[1] \notin {"flush", "set", "validate"}
  PROVE  /\ Fresh(<<x>>) /\ Fresh(<<x, y>>) /\ Fresh(<<x, Model!User, Model!User>>)
         /\ Plain(<<y>>) /\ ~Flushes(<<y>>)
<1>0. Plain(<<>>) /\ ~Flushes(<<>>) /\ Plain(<<Model!User>>) /\ ~Flushes(<<Model!User>>)
  BY TodoEmpty, TodoUser
<1>1. Fresh(<<x>>)
  <2>1. <<x>> \o <<>> = <<x>>
    BY SeqOne, ConcatEmptySeq
  <2>2. Fresh(<<x>> \o <<>>)
    BY <1>0, TodoFresh
  <2> QED BY <2>1, <2>2
<1>2. Plain(<<y>>) /\ ~Flushes(<<y>>)
  <2>1. <<y>> \in Seq(ModelStep) /\ <<y>> \o <<>> = <<y>>
    BY SeqOne, ConcatEmptySeq
  <2>2. Range(<<y>> \o <<>>) = {y} \cup Range(<<>>) /\ Range(<<>>) = {}
    BY RangePush, RangeEmpty, EmptySeq
  <2> QED BY <2>1, <2>2 DEF Plain, Flushes
<1>3. Fresh(<<x, y>>)
  <2>1. <<x, y>> = <<x>> \o <<y>>
    BY SeqTwo
  <2>2. Fresh(<<x>> \o <<y>>)
    BY <1>2, TodoFresh
  <2> QED BY <2>1, <2>2
<1>4. Fresh(<<x, Model!User, Model!User>>)
  <2>1. <<x, Model!User, Model!User>> = <<x>> \o <<Model!User, Model!User>> /\ <<Model!User, Model!User>> = <<Model!User>> \o <<Model!User>>
    <3>1. Model!User \in ModelStep
      BY ModelStepsOf
    <3>2. <<x, Model!User, Model!User>> = <<x>> \o <<Model!User, Model!User>>
      BY <3>1, SeqThree
    <3>3. <<Model!User, Model!User>> = <<Model!User>> \o <<Model!User>>
      BY <3>1, SeqTwo
    <3> QED BY <3>2, <3>3
  <2>2. Plain(<<Model!User>> \o <<Model!User>>) /\ ~Flushes(<<Model!User>> \o <<Model!User>>)
    BY <1>0, TodoJoin
  <2>3. PICK t : t = <<Model!User>> \o <<Model!User>>
    OBVIOUS
  <2>4. Fresh(<<x>> \o t)
    BY <2>2, <2>3, TodoFresh
  <2> QED BY <2>1, <2>3, <2>4
<1> QED BY <1>1, <1>2, <1>3, <1>4

(* The options of set, and the requests. *)
LEMMA ModelData ==
  /\ Model!Loud \in SetOptions /\ [Model!Loud EXCEPT !.validate = TRUE] \in SetOptions
  /\ \A s \in BOOLEAN : [silent |-> s, validate |-> FALSE] \in SetOptions
  /\ \A as \in SUBSET Attrs : [a \in as |-> Unset] \in Model!Hash
  /\ [kind |-> "fetch"] \in ModelRequest
  /\ \A w \in BOOLEAN : [kind |-> "destroy", wait |-> w] \in ModelRequest
  /\ \A w \in BOOLEAN, h \in Model!Hash : [kind |-> "save", wait |-> w, attrs |-> h] \in ModelRequest
<1>1. Model!Loud \in SetOptions /\ [Model!Loud EXCEPT !.validate = TRUE] \in SetOptions
      /\ \A s \in BOOLEAN : [silent |-> s, validate |-> FALSE] \in SetOptions
  BY DEF Model!Loud, SetOptions
<1>2. ASSUME NEW as \in SUBSET Attrs PROVE [a \in as |-> Unset] \in Model!Hash
  <2>1. PICK h : h = [a \in as |-> Unset]
    OBVIOUS
  <2>2. DOMAIN h \subseteq Attrs /\ h \in [DOMAIN h -> AttrValues \cup {Unset}]
    BY <2>1
  <2>3. h \in Model!Hash
    BY <2>2, HashFunctions
  <2> QED BY <2>1, <2>3
<1>3. [kind |-> "fetch"] \in ModelRequest
  BY DEF ModelRequest
<1>4. \A w \in BOOLEAN : [kind |-> "destroy", wait |-> w] \in ModelRequest
  BY DEF ModelRequest
<1>5. \A w \in BOOLEAN, h \in Model!Hash : [kind |-> "save", wait |-> w, attrs |-> h] \in ModelRequest
  BY DEF ModelRequest
<1> QED BY <1>1, <1>2, <1>3, <1>4, <1>5

(* set, unset and clear. *)
LEMMA ModelCallSet ==
  ASSUME ModelInv, NEW h \in Model!Hash, NEW o \in SetOptions, Model!Calls(<< <<"set", h, o>> >>)
  PROVE  ModelInv'
<1>1. PICK s : s = <<"set", h, o>> /\ s \in ModelStep /\ s[1] = "set"
  BY ModelStepsOf
<1>2. Fresh(<<s>>)
  <2>1. Model!User \in ModelStep /\ Model!User[1] = "user"
    BY ModelStepsOf
  <2> QED BY <1>1, <2>1, FreshSteps
<1> QED BY <1>1, <1>2, ModelCalls

(* fetch *)
LEMMA ModelCallFetch ==
  ASSUME ModelInv, Model!CallFetch
  PROVE  ModelInv'
<1>1. PICK s : s = <<"sync", [kind |-> "fetch"]>> /\ s \in ModelStep /\ s[1] = "sync"
  BY ModelStepsOf, ModelData
<1>2. Fresh(<<s>>)
  BY <1>1, FreshSteps
<1> QED BY <1>1, <1>2, ModelCalls DEF Model!CallFetch

(* save, with and without wait. *)
LEMMA ModelCallSave ==
  ASSUME ModelInv, NEW h \in Model!Hash, NEW w \in BOOLEAN, Model!CallSave(h, w)
  PROVE  ModelInv'
<1>1. PICK y : y = <<"sync", [kind |-> "save", wait |-> w, attrs |-> h]>> /\ y \in ModelStep /\ y[1] = "sync"
  BY ModelStepsOf, ModelData
<1>2. PICK x : /\ x = (IF w THEN <<"validate", h>> ELSE <<"set", h, [Model!Loud EXCEPT !.validate = TRUE]>>)
               /\ x \in ModelStep /\ x[1] \in {"set", "validate"}
  BY ModelStepsOf, ModelData
<1>3. Fresh(<<x, y>>)
  BY <1>1, <1>2, FreshSteps
<1>4. Model!Calls(<<x, y>>)
  BY <1>1, <1>2 DEF Model!CallSave
<1> QED BY <1>3, <1>4, ModelCalls

(* destroy *)
LEMMA ModelCallDestroy ==
  ASSUME ModelInv, NEW w \in BOOLEAN, Model!CallDestroy(w)
  PROVE  ModelInv'
<1>1. PICK y : y = <<"sync", [kind |-> "destroy", wait |-> w]>> /\ y \in ModelStep /\ y[1] = "sync"
  BY ModelStepsOf, ModelData
<1>2. PICK todo : /\ todo = IF Model!isNew THEN <<Model!User>> ELSE <<y>> \o (IF w THEN <<>> ELSE <<Model!User>>)
                  /\ Model!Calls(todo)
  BY <1>1 DEF Model!CallDestroy
<1>3. Fresh(todo)
  <2>1. Fresh(<<y>> \o <<>>) /\ Fresh(<<y>> \o <<Model!User>>) /\ Fresh(<<Model!User>>)
    BY <1>1, TodoFresh, TodoEmpty, TodoUser
  <2> QED BY <1>2, <2>1
<1> QED BY <1>2, <1>3, ModelCalls

(* The event loop starts an activation. *)
LEMMA ModelEvent ==
  ASSUME ModelInv, modelStack = <<>>, NEW todo, Fresh(todo), modelStack' = <<Act(todo, FALSE)>>,
         UNCHANGED Model!Data, modelRequests' \subseteq ModelRequest
  PROVE  ModelInv'
<1>1. Books' /\ _changing' = _changing /\ ~_changing
  BY BooksKept, ModelIdle DEF ModelInv
<1>2. NoneSilent(todo) /\ todo \in Seq(ModelStep) /\ TodoOK(todo)
  BY FreshLoud DEF Fresh
<1>3. <<Act(todo, FALSE)>> \in Seq(ModelFrame)
  BY <1>2, ActFrame, SeqOne
<1>4. Range(<<>>) = {} /\ <<>> \in Seq(ModelFrame)
  BY RangeEmpty, EmptySeq
<1>5. modelStack' = <<Act(todo, FALSE)>> \o <<>> /\ BelowOK(<<>>)
  BY <1>3, <1>4, ConcatEmptySeq DEF BelowOK
<1> QED BY <1>1, <1>2, <1>5, ModelPut DEF Loud

(* The server answers. *)
LEMMA ModelSuccess ==
  ASSUME ModelInv, NEW r \in modelRequests, NEW h \in Model!Hash, Model!Success(r, h)
  PROVE  ModelInv'
<1>1. modelStack = <<>> /\ modelRequests' = modelRequests \ {r} /\ UNCHANGED Model!Data
  BY DEF Model!Success
<1>2. modelRequests \subseteq ModelRequest /\ r \in ModelRequest
  BY DEF ModelInv, Books
<1>3. PICK todo :
        /\ modelStack' = <<[user |-> FALSE, todo |-> todo]>>
        /\ r.kind = "fetch" => todo = << <<"set", h, Model!Loud>>, Model!User, Model!User>>
        /\ r.kind = "save" => todo = << <<"set", IF r.wait THEN Model!Extend(r.attrs, h) ELSE h,
                                         [Model!Loud EXCEPT !.validate = TRUE]>>, Model!User, Model!User>>
        /\ r.kind = "destroy" => todo = (IF r.wait \/ Model!isNew THEN <<Model!User>> ELSE <<>>)
                                        \o (IF Model!isNew THEN <<>> ELSE <<Model!User>>)
  BY DEF Model!Success
<1>4. r.kind \in {"fetch", "save", "destroy"} /\ (r.kind = "save" => r.attrs \in Model!Hash)
  BY <1>2 DEF ModelRequest
<1>u. Model!User \in ModelStep /\ Model!User[1] = "user"
  BY ModelStepsOf
<1>5. ASSUME NEW g \in Model!Hash, NEW o \in SetOptions PROVE Fresh(<< <<"set", g, o>>, Model!User, Model!User>>)
  <2>1. PICK s : s = <<"set", g, o>> /\ s \in ModelStep /\ s[1] = "set"
    BY ModelStepsOf
  <2>2. Fresh(<<s, Model!User, Model!User>>)
    BY <1>u, <2>1, FreshSteps
  <2> QED BY <2>1, <2>2
<1>6. Fresh(todo)
  <2>1. CASE r.kind = "fetch"
    BY <1>3, <1>5, <2>1, ModelData
  <2>2. CASE r.kind = "save"
    <3>1. (IF r.wait THEN Model!Extend(r.attrs, h) ELSE h) \in Model!Hash
      BY <1>4, <2>2, ExtendHash
    <3> QED BY <1>3, <1>5, <2>2, <3>1, ModelData
  <2>3. CASE r.kind = "destroy"
    <3>1. PICK x, y : x = (IF r.wait \/ Model!isNew THEN <<Model!User>> ELSE <<>>) /\ y = (IF Model!isNew THEN <<>> ELSE <<Model!User>>)
      OBVIOUS
    <3>2. Plain(x) /\ Plain(y) /\ ~Flushes(x) /\ ~Flushes(y)
      BY <3>1, TodoEmpty, TodoUser
    <3>3. Plain(x \o y) /\ ~Flushes(x \o y)
      BY <3>2, TodoJoin
    <3>4. todo = x \o y
      BY <1>3, <2>3, <3>1
    <3> QED BY <3>3, <3>4, TodoPlain DEF Fresh, Plain
  <2> QED BY <1>4, <2>1, <2>2, <2>3
<1>7. modelStack' = <<Act(todo, FALSE)>> /\ modelRequests' \subseteq ModelRequest
  BY <1>1, <1>2, <1>3 DEF Act
<1> QED BY <1>1, <1>6, <1>7, ModelEvent

(* The request fails. *)
LEMMA ModelError ==
  ASSUME ModelInv, NEW r, Model!Error(r)
  PROVE  ModelInv'
<1>1. modelStack = <<>> /\ modelRequests' = modelRequests \ {r} /\ UNCHANGED Model!Data
      /\ modelStack' = <<[user |-> FALSE, todo |-> <<Model!User, Model!User>>]>>
  BY DEF Model!Error
<1>2. modelRequests' \subseteq ModelRequest
  BY <1>1 DEF ModelInv, Books
<1>3. Fresh(<<Model!User, Model!User>>)
  BY ModelStepsOf, FreshSteps
<1>4. modelStack' = <<Act(<<Model!User, Model!User>>, FALSE)>>
  BY <1>1 DEF Act
<1> QED BY <1>1, <1>2, <1>3, <1>4, ModelEvent

(* Every step of a Backbone.Model preserves the invariant. *)
LEMMA ModelKeeps ==
  ASSUME ModelConstants, ModelInv, [Model!Next]_Model!vars
  PROVE  ModelInv'
<1>1. CASE Model!Set \/ Model!Flush \/ Model!Validate \/ Model!Sync \/ Model!Handler \/ Model!Return
  BY <1>1, ModelSet, ModelFlush, ModelValidate, ModelSync, ModelHandler, ModelReturn
<1>2. ASSUME NEW h \in Model!Hash, NEW s \in BOOLEAN, Model!CallSet(h, [silent |-> s, validate |-> FALSE]) PROVE ModelInv'
  BY <1>2, ModelCallSet, ModelData DEF Model!CallSet
<1>3. ASSUME NEW h \in Model!Hash, NEW s \in BOOLEAN, Model!CallSave(h, s) PROVE ModelInv'
  BY <1>3, ModelCallSave
<1>4. ASSUME NEW as \in SUBSET Attrs, Model!CallUnset(as) PROVE ModelInv'
  BY <1>4, ModelCallSet, ModelData DEF Model!CallUnset
<1>5. CASE \E a \in Attrs : Model!CallUnset({a})
  <2>1. PICK a \in Attrs : Model!CallUnset({a})
    BY <1>5
  <2> QED BY <1>4, <2>1
<1>6. CASE Model!CallClear
  <2>1. {a \in Attrs : attributes[a] # Unset} \in SUBSET Attrs
    OBVIOUS
  <2> QED BY <1>4, <1>6, <2>1 DEF Model!CallClear
<1>7. CASE Model!CallFetch
  BY <1>7, ModelCallFetch
<1>8. CASE \E w \in BOOLEAN : Model!CallDestroy(w)
  BY <1>8, ModelCallDestroy
<1>9. CASE \E r \in modelRequests : Model!Error(r) \/ \E h \in Model!Hash : Model!Success(r, h)
  BY <1>9, ModelError, ModelSuccess
<1>10. CASE UNCHANGED Model!vars
  <2>1. Books' /\ _changing' = _changing /\ modelStack' = modelStack /\ _pending' = _pending /\ dirty' = dirty
    BY <1>10, BooksKept DEF Model!vars, Model!Data, ModelInv, Books
  <2>2. \A td, u, t : TopAct(td, u, t) => TopAct(td, u, t)'
    BY <2>1 DEF TopAct, Loud
  <2>3. (modelStack' = <<>> /\ ~_changing') \/ \E td, u, t : TopAct(td, u, t)'
    BY <2>1, <2>2 DEF ModelInv
  <2> QED BY <2>1, <2>3 DEF ModelInv
<1> QED BY <1>1, <1>2, <1>3, <1>5, <1>6, <1>7, <1>8, <1>9, <1>10 DEF Model!Next

(* At every point where a handler can look, changed is the difference of   *)
(* the attributes from the previous ones and id is the attribute id; and   *)
(* when all code has returned, every change that was not silent has been   *)
(* followed by a change event and no set is under way (ChangeTracking).    *)
THEOREM ModelTracksChanges ==
  ASSUME ModelConstants
  PROVE  Model!Spec => []ChangeTracking
<1>1. Model!Init => ModelInv
  BY ModelStart
<1>2. ModelInv /\ [Model!Next]_Model!vars => ModelInv'
  BY ModelKeeps
<1>3. ModelInv => ChangeTracking
  <2> SUFFICES ASSUME ModelInv PROVE Model!ChangeTracking
    BY DEF ChangeTracking
  <2>1. Books /\ (modelStack = <<>> => ~_changing)
    BY ModelIdle DEF ModelInv
  <2> QED BY <2>1 DEF Books, Model!ChangeTracking
<1> QED BY <1>1, <1>2, <1>3, PTL DEF Model!Spec

-----------------------------------------------------------------------------
(***************************************************************************)
(* Backbone.History and the pages of the application.                      *)
(***************************************************************************)
Address == entries \in Seq(Hashes) /\ pos \in 1 .. Len(entries) /\ pending \in Nat

(* An event is on its way, or the address is what it was. *)
Announced == pending' = 0 => entries'[pos'] = entries[pos]

(* A hash that is set is in the address bar, and announced if it is new. *)
LEMMA HashUpdated ==
  ASSUME Address, NEW h \in Hashes, NEW r \in BOOLEAN, Nav!_updateHash(h, r)
  PROVE  Address' /\ Announced /\ entries'[pos'] = h
<1>1. CASE h = entries[pos]
  BY <1>1 DEF Address, Announced, Nav!_updateHash, Nav!location
<1>2. CASE h # entries[pos]
  <2>1. /\ entries' = IF r THEN [entries EXCEPT ![pos] = h]
                      ELSE Append(SubSeq(entries, 1, pos), h)
        /\ pos' = IF r THEN pos ELSE pos + 1
        /\ pending' = pending + 1
    BY <1>2 DEF Nav!_updateHash, Nav!location
  <2>2. CASE r
    <3>1. entries' \in Seq(Hashes) /\ Len(entries') = Len(entries) /\ entries'[pos] = h
      BY <2>1, <2>2 DEF Address
    <3> QED BY <2>1, <2>2, <3>1 DEF Address, Announced
  <2>3. CASE ~r
    <3>1. PICK s \in Seq(Hashes) : s = SubSeq(entries, 1, pos) /\ Len(s) = pos
      <4>1. entries \in Seq(Hashes) /\ pos \in 0 .. Len(entries)
        BY DEF Address
      <4>2. SubSeq(entries, 1, pos) \in Seq(Hashes) /\ Len(SubSeq(entries, 1, pos)) = pos
        BY <4>1, RangeSplit
      <4> QED BY <4>2
    <3>2. Append(s, h) \in Seq(Hashes) /\ Len(Append(s, h)) = pos + 1 /\ Append(s, h)[pos + 1] = h
      BY <3>1
    <3>3. entries' = Append(s, h) /\ pos' = pos + 1
      BY <2>1, <2>3, <3>1
    <3> QED BY <2>1, <3>2, <3>3 DEF Address, Announced
  <2> QED BY <2>2, <2>3
<1> QED BY <1>1, <1>2

(* So is the hash of the entry that the user goes to. *)
LEMMA HashTraversed ==
  ASSUME Address, NEW to \in 1 .. Len(entries), Nav!Traverse(to)
  PROVE  Address' /\ Announced
BY DEF Address, Announced, Nav!Traverse, Nav!location

-----------------------------------------------------------------------------
(* The history by itself. *)
HistoryInv ==
  /\ Address
  /\ started => shown = fragment \/ quiet
  /\ started /\ pending = 0 => fragment = Strip[entries[pos]]

(* Every step of the history preserves its invariant. *)
LEMMA HistoryKeeps ==
  ASSUME Nav!StripOnce, HistoryInv, [Nav!HistoryNext]_Nav!historyVars
  PROVE  HistoryInv'
<1>0. Address /\ (started => shown = fragment \/ quiet)
      /\ (started /\ pending = 0 => fragment = Strip[entries[pos]])
  BY DEF HistoryInv
<1>1. ASSUME NEW b \in BOOLEAN, Nav!start(b) PROVE HistoryInv'
  BY <1>0, <1>1 DEF HistoryInv, Address, Nav!start, Nav!loadUrl, Nav!Strip0, Nav!location
<1>2. CASE Nav!stop
  BY <1>0, <1>2 DEF HistoryInv, Address, Nav!stop
<1>3. CASE Nav!checkUrl
  BY <1>0, <1>3 DEF HistoryInv, Address, Nav!checkUrl, Nav!loadUrl, Nav!Strip0, Nav!location
<1>4. ASSUME NEW h \in Hashes, Nav!Follow(h) PROVE HistoryInv'
  <2>1. Address' /\ Announced
    BY <1>0, <1>4, HashUpdated DEF Nav!Follow
  <2>2. pending' = 0 => pending = 0
    BY <1>0, <1>4 DEF Nav!Follow, Nav!_updateHash, Address
  <2> QED BY <1>0, <1>4, <2>1, <2>2 DEF HistoryInv, Nav!Follow, Announced
<1>5. ASSUME NEW f \in Hashes, NEW t \in BOOLEAN, NEW r \in BOOLEAN, Nav!navigate(f, t, r)
      PROVE HistoryInv'
  <2>1. CASE ~started \/ fragment = Strip[f]
    BY <1>0, <1>5, <2>1 DEF HistoryInv, Address, Nav!navigate
  <2>2. CASE ~(~started \/ fragment = Strip[f])
    <3>1. PICK h \in Hashes : h = Strip[f] /\ Strip[h] = h
      BY DEF Nav!StripOnce
    <3>2. Nav!_updateHash(h, r) /\ started' = started
      BY <1>5, <2>2, <3>1 DEF Nav!navigate
    <3>3. Address' /\ entries'[pos'] = h
      BY <1>0, <3>2, HashUpdated
    <3>4. fragment' = h /\ (shown' = fragment' \/ quiet')
      BY <1>5, <2>2, <3>1 DEF Nav!navigate, Nav!loadUrl
    <3> QED BY <3>1, <3>3, <3>4 DEF HistoryInv
  <2> QED BY <2>1, <2>2
<1>6. ASSUME NEW to \in 1 .. Len(entries), Nav!Traverse(to) PROVE HistoryInv'
  <2>1. Address' /\ Announced
    BY <1>0, <1>6, HashTraversed
  <2>2. pending' = 0 => pending = 0
    BY <1>0, <1>6 DEF Nav!Traverse, Address
  <2> QED BY <1>0, <1>6, <2>1, <2>2 DEF HistoryInv, Nav!Traverse, Announced
<1>7. CASE UNCHANGED Nav!historyVars
  BY <1>0, <1>7 DEF HistoryInv, Address, Nav!historyVars
<1> QED BY <1>1, <1>2, <1>3, <1>4, <1>5, <1>6, <1>7 DEF Nav!HistoryNext

(* However clicks, back and forward, navigate, stop and start race with    *)
(* the hashchange events, once these are delivered the fragment of the     *)
(* router is that of the address bar, and it was loaded last unless it was *)
(* set without a trigger (Synced).                                         *)
THEOREM HistorySynced ==
  ASSUME Nav!StripOnce
  PROVE  Nav!HistorySpec => []Nav!Synced
<1>1. Nav!HistoryInit => HistoryInv
  BY DEF Nav!HistoryInit, HistoryInv, Address
<1>2. HistoryInv /\ [Nav!HistoryNext]_Nav!historyVars => HistoryInv'
  BY HistoryKeeps
<1>3. HistoryInv => Nav!Synced
  BY DEF HistoryInv, Nav!Synced, Nav!Strip0, Nav!location
<1> QED BY <1>1, <1>2, <1>3, PTL DEF Nav!HistorySpec

-----------------------------------------------------------------------------
(* A sequence without its element i. *)
LEMMA Removed ==
  ASSUME NEW S, NEW q \in Seq(S), NEW i \in 1 .. Len(q)
  PROVE  \E r \in Seq(S) :
           /\ r = Nav!RemoveAt(q, i) /\ Len(r) = Len(q) - 1
           /\ \A k \in 1 .. Len(q) - 1 : r[k] = q[IF k < i THEN k ELSE k + 1]
<1>1. PICK r : r = Cut(q, i)
  OBVIOUS
<1>2. /\ r \in Seq(S) /\ Len(r) = Len(q) - 1
      /\ \A k \in 1 .. Len(q) - 1 : k < i => r[k] = q[k]
      /\ \A k \in 1 .. Len(q) - 1 : k >= i => r[k] = q[k + 1]
  BY <1>1, RemoveIndex
<1>3. r = Nav!RemoveAt(q, i)
  BY <1>1 DEF Nav!RemoveAt, Cut
<1> QED BY <1>2, <1>3

-----------------------------------------------------------------------------
PagesConstants == Nav!RoutesFit /\ Nav!PredsFit /\ Spans \in Nat /\ Lim \in Nat

SearchView == [live : BOOLEAN, preds : Seq(Preds), busy : BOOLEAN,
               results : Seq(1 .. Spans), under : Seq(Preds)]
Query == [v : Nat, preds : Seq(Preds), prev : 0 .. Spans, under : Seq(Preds)]
Sections == {"about", "search", "*unknown"}

Bar ==
  /\ Address /\ handlers = Nav!Bound(<<>>) /\ started \in BOOLEAN
  /\ started => shown = fragment
  /\ started /\ pending = 0 => fragment = Strip[entries[pos]]
  /\ started => Nav!RouteOf(handlers, fragment) \in Sections

(* The router's view is the only one that is live, and the one that the   *)
(* fragment asks for, if the about page does not come late.               *)
PageKept ==
  /\ views \in Seq(SearchView)
  /\ view \in {Nav!None, Nav!About} \cup (1 .. Len(views))
  /\ Nav!Live = {view} \ {Nav!None, Nav!About}
  /\ delegated = Nav!Live /\ resize \subseteq Nav!Live
  /\ nav = Nav!Kind /\ fetches \in Nat
Agrees == started /\ fetches = 0 /\ ~excuse => Nav!RouteOf(handlers, fragment) \in {Nav!Kind, "*unknown"}

InFlight(u) == \E i \in 1 .. Len(queries) : queries[i].v = u

(* Results that are all for the criteria w they match, in the order of   *)
(* the source, and each comes once unless the source is an at-most one.   *)
Listed(w, r) == /\ \A k \in 1 .. Len(r) : Nav!Matches(w, r[k])
                /\ Nav!Sorted(w, r) /\ (Nav!SourceOp(w) = "le" \/ Nav!Once(r))
ResultsFit(w, r) == w # <<>> => Listed(w, r)

(* The span x is not after y in the order of the source.                  *)
Before(w, x, y) == IF Nav!SourceOp(w) = "le" THEN Nav!ValueOf(w, x) >= Nav!ValueOf(w, y)
                   ELSE Nav!ValueOf(w, x) <= Nav!ValueOf(w, y)

(* The results r of a view that waits for the answer to w after the span p *)
(* (0: the first ones).                                                   *)
Awaited(w, p, r) == /\ Listed(w, r)
                    /\ p = 0 => r = <<>>
                    /\ p # 0 => Nav!Matches(w, p) /\ \A k \in 1 .. Len(r) : Before(w, r[k], p)
Awaits(q, r) == q.under # <<>> => q.under = q.preds /\ Awaited(q.preds, q.prev, r)

(* A view has at most one query in flight, a live one if and only if it is *)
(* busy; and a query continues results for its own criteria or makes none. *)
Paged ==
  /\ queries \in Seq(Query)
  /\ \A i \in 1 .. Len(queries) : queries[i].v \in 1 .. Len(views)
  /\ \A i, j \in 1 .. Len(queries) : queries[i].v = queries[j].v => i = j
  /\ \A u \in 1 .. Len(views) : ResultsFit(views[u].under, views[u].results)
  /\ \A i \in 1 .. Len(queries) : Awaits(queries[i], views[queries[i].v].results)
  /\ \A u \in 1 .. Len(views) : views[u].live => (views[u].busy <=> InFlight(u))

PagesInv == Bar /\ PageKept /\ Agrees /\ Paged

-----------------------------------------------------------------------------
(* Views that are made, closed or get other predicates: the results and   *)
(* the queries are as they were.                                          *)
ViewsKept ==
  /\ Len(views) <= Len(views') /\ queries' = queries
  /\ \A u \in 1 .. Len(views) :
       /\ views'[u].results = views[u].results /\ views'[u].under = views[u].under
       /\ (views'[u].busy <=> views[u].busy) /\ (views'[u].live => views[u].live)
  /\ \A u \in 1 .. Len(views') : u > Len(views) => views'[u].under = <<>> /\ ~views'[u].busy

LEMMA PagedKept ==
  ASSUME views \in Seq(SearchView), views' \in Seq(SearchView), Paged, ViewsKept
  PROVE  Paged'
<1>1. Len(views) \in Nat /\ Len(views') \in Nat /\ queries' = queries /\ Len(views) <= Len(views')
  BY DEF ViewsKept
<1>2. /\ queries \in Seq(Query)
      /\ \A i \in 1 .. Len(queries) : queries[i].v \in 1 .. Len(views)
      /\ \A i, j \in 1 .. Len(queries) : queries[i].v = queries[j].v => i = j
  BY DEF Paged
<1>3. \A u \in 1 .. Len(views') : u \in 1 .. Len(views) \/ u > Len(views)
  BY <1>1
<1>4. ASSUME NEW u \in 1 .. Len(views')
      PROVE  ResultsFit(views'[u].under, views'[u].results)
  <2>1. CASE u \in 1 .. Len(views)
    BY <2>1 DEF ViewsKept, Paged
  <2>2. CASE u > Len(views)
    <3>1. views'[u].under = <<>>
      BY <2>2 DEF ViewsKept
    <3> QED BY <3>1 DEF ResultsFit
  <2> QED BY <1>3, <2>1, <2>2
<1>5. \A i \in 1 .. Len(queries) : Awaits(queries[i], views'[queries[i].v].results)
  BY <1>2 DEF ViewsKept, Paged
<1>6. ASSUME NEW u \in 1 .. Len(views'), views'[u].live
      PROVE  views'[u].busy <=> InFlight(u)
  <2>1. CASE u \in 1 .. Len(views)
    BY <1>6, <2>1 DEF ViewsKept, Paged
  <2>2. CASE u > Len(views)
    <3>1. ~InFlight(u)
      BY <1>1, <1>2, <2>2 DEF InFlight
    <3> QED BY <2>2, <3>1 DEF ViewsKept
  <2> QED BY <1>3, <2>1, <2>2
<1>7. \A i \in 1 .. Len(queries) : queries[i].v \in 1 .. Len(views')
  BY <1>1, <1>2
<1>8. \A u : InFlight(u)' <=> InFlight(u)
  BY <1>1 DEF InFlight
<1> QED BY <1>1, <1>2, <1>4, <1>5, <1>6, <1>7, <1>8 DEF Paged

(* The view of the router is closed: it is not live any more. *)
LEMMA ViewsClosed ==
  ASSUME NEW vs \in Seq(SearchView)
  PROVE  \E cs \in Seq(SearchView) :
           /\ cs = Nav!Closed(vs) /\ Len(cs) = Len(vs)
           /\ \A u \in 1 .. Len(vs) :
                /\ cs[u].results = vs[u].results /\ cs[u].under = vs[u].under
                /\ (cs[u].busy <=> vs[u].busy) /\ (cs[u].live <=> vs[u].live /\ u # view)
<1>1. CASE view \in 1 .. Len(vs)
  <2>1. PICK cs : cs = [vs EXCEPT ![view].live = FALSE, ![view].preds = <<>>]
    OBVIOUS
  <2>2. cs = Nav!Closed(vs)
    <3>1. view \in DOMAIN vs
      BY <1>1
    <3> QED BY <2>1, <3>1, Zenon DEF Nav!Closed
  <2>3. vs[view] \in SearchView
    BY <1>1
  <2>4. PICK sv : sv = [vs[view] EXCEPT !.live = FALSE, !.preds = <<>>]
    OBVIOUS
  <2>5. /\ sv \in SearchView /\ sv.results = vs[view].results /\ sv.under = vs[view].under
        /\ (sv.busy <=> vs[view].busy) /\ ~sv.live
    <3>1. <<>> \in Seq(Preds)
      OBVIOUS
    <3> QED BY <2>3, <2>4, <3>1 DEF SearchView
  <2>6. cs = [vs EXCEPT ![view] = sv]
    BY <1>1, <2>1, <2>4
  <2>7. cs \in Seq(SearchView) /\ Len(cs) = Len(vs)
    BY <1>1, <2>5, <2>6
  <2>8. cs[view] = sv /\ \A u \in 1 .. Len(vs) : u # view => cs[u] = vs[u]
    BY <1>1, <2>6
  <2> QED BY <2>2, <2>5, <2>7, <2>8
<1>2. CASE view \notin 1 .. Len(vs)
  BY <1>2 DEF Nav!Closed
<1> QED BY <1>1, <1>2

(* A new view takes the page from the view before it. *)
LEMMA SearchShown ==
  ASSUME PagesConstants, Address, PageKept, Paged, Nav!search,
         Nav!RouteOf(handlers', fragment') = "search"
  PROVE  PageKept' /\ Agrees' /\ Paged'
<1>1. PICK v : v = Len(views) + 1
  OBVIOUS
<1>2. /\ view' = v
      /\ views' = Nav!Closed(Append(views, Nav!NewSearchView))
      /\ delegated' = ((delegated \ {v}) \cup {v}) \ {view}
      /\ resize' = IF view \in DOMAIN views THEN {} ELSE resize \cup {v}
      /\ nav' = "search" /\ fetches' = fetches /\ queries' = queries
  BY <1>1 DEF Nav!search, Nav!switchView, Nav!delegateEvents, Nav!undelegateEvents
<1>3. /\ views \in Seq(SearchView) /\ Len(views) \in Nat /\ v \in Nat
      /\ view \in {Nav!None, Nav!About} \cup (1 .. Len(views))
      /\ Nav!Live = {view} \ {Nav!None, Nav!About} /\ delegated = Nav!Live /\ resize \subseteq Nav!Live
      /\ fetches \in Nat
  BY <1>1 DEF PageKept
<1>4. PICK new \in SearchView : new = Nav!NewSearchView
  <2>1. Nav!NewSearchView \in SearchView
    BY DEF Nav!NewSearchView, SearchView
  <2> QED BY <2>1
<1>5. PICK vs \in Seq(SearchView) :
        /\ vs = Append(views, new) /\ Len(vs) = v /\ vs[v] = new
        /\ \A u \in 1 .. Len(views) : vs[u] = views[u]
  <2>1. /\ Append(views, new) \in Seq(SearchView) /\ Len(Append(views, new)) = v
        /\ Append(views, new)[v] = new
        /\ \A u \in 1 .. Len(views) : Append(views, new)[u] = views[u]
    BY <1>1, <1>3
  <2> QED BY <2>1, Zenon
<1>6. views' = Nav!Closed(vs)
  BY <1>2, <1>4, <1>5
<1>7. new.live /\ new.under = <<>> /\ ~new.busy
  BY <1>4 DEF Nav!NewSearchView
<1>8. /\ views' \in Seq(SearchView) /\ Len(views') = v
      /\ \A u \in 1 .. v :
           /\ views'[u].results = vs[u].results /\ views'[u].under = vs[u].under
           /\ (views'[u].busy <=> vs[u].busy) /\ (views'[u].live <=> vs[u].live /\ u # view)
  <2>1. PICK cs \in Seq(SearchView) :
          /\ cs = Nav!Closed(vs) /\ Len(cs) = Len(vs)
          /\ \A u \in 1 .. Len(vs) :
               /\ cs[u].results = vs[u].results /\ cs[u].under = vs[u].under
               /\ (cs[u].busy <=> vs[u].busy) /\ (cs[u].live <=> vs[u].live /\ u # view)
    BY ViewsClosed, Zenon
  <2> QED BY <1>5, <1>6, <2>1
<1>9. Nav!None = -1 /\ Nav!About = 0
  BY DEF Nav!None, Nav!About
<1>10. Nav!Live' = {v}
  <2>1. \A u \in 1 .. Len(views) : views[u].live => u = view
    BY <1>3 DEF Nav!Live
  <2>2. ASSUME NEW u \in 1 .. v, u # v PROVE ~views'[u].live
    <3>1. u \in 1 .. Len(views)
      BY <1>1, <1>3, <2>2
    <3> QED BY <1>5, <1>8, <2>1, <3>1
  <2>3. v # view /\ v \in 1 .. v
    BY <1>1, <1>3, <1>9
  <2>4. views'[v].live
    BY <1>5, <1>8, <1>7, <2>3
  <2>5. DOMAIN views' = 1 .. v
    BY <1>8
  <2> QED BY <2>2, <2>3, <2>4, <2>5 DEF Nav!Live
<1>11. v # Nav!None /\ v # Nav!About /\ v \in 1 .. v /\ v \notin 1 .. Len(views) /\ v # view
  BY <1>1, <1>3, <1>9
<1>12. delegated' = {v} /\ resize' \subseteq {v}
  <2>1. CASE view \in 1 .. Len(views)
    BY <1>2, <1>3, <1>11, <2>1
  <2>2. CASE view \notin 1 .. Len(views)
    BY <1>2, <1>3, <1>11, <2>2
  <2> QED BY <2>1, <2>2
<1>13. Nav!Kind' = "search"
  BY <1>2, <1>8, <1>11 DEF Nav!Kind
<1>14. PageKept'
  BY <1>2, <1>3, <1>8, <1>10, <1>11, <1>12, <1>13 DEF PageKept, Nav!None, Nav!About
<1>15. ViewsKept
  <2>1. \A u \in 1 .. Len(views) : u \in 1 .. v
    BY <1>1, <1>3
  <2>2. \A u \in 1 .. v : u > Len(views) => u = v
    BY <1>1, <1>3
  <2>3. Len(views) <= v
    BY <1>1, <1>3
  <2> QED BY <1>2, <1>5, <1>8, <1>7, <2>1, <2>2, <2>3 DEF ViewsKept
<1>16. Paged'
  BY <1>3, <1>8, <1>15, PagedKept
<1>17. Agrees'
  BY <1>13 DEF Agrees
<1> QED BY <1>14, <1>16, <1>17

(* The about page takes the page from the view before it. *)
LEMMA AboutShown ==
  ASSUME PagesConstants, Bar, PageKept, Paged, Nav!AboutArrives
  PROVE  PageKept' /\ Agrees' /\ Paged'
<1>1. /\ view' = Nav!About /\ views' = Nav!Closed(views) /\ delegated' = delegated \ {view}
      /\ resize' = IF view \in DOMAIN views THEN {} ELSE resize
      /\ nav' = "about" /\ queries' = queries /\ fetches' = fetches - 1 /\ fetches > 0
      /\ fragment' = fragment /\ handlers' = handlers /\ started' = started
  BY DEF Nav!AboutArrives, Nav!switchView, Nav!undelegateEvents, Nav!historyVars
<1>2. excuse' = (fragment # "about")
  BY DEF Nav!AboutArrives
<1>3. /\ views \in Seq(SearchView)
      /\ view \in {Nav!None, Nav!About} \cup (1 .. Len(views))
      /\ Nav!Live = {view} \ {Nav!None, Nav!About} /\ delegated = Nav!Live /\ resize \subseteq Nav!Live
      /\ fetches \in Nat
  BY DEF PageKept
<1>4. /\ views' \in Seq(SearchView) /\ Len(views') = Len(views)
      /\ \A u \in 1 .. Len(views) :
           /\ views'[u].results = views[u].results /\ views'[u].under = views[u].under
           /\ (views'[u].busy <=> views[u].busy) /\ (views'[u].live <=> views[u].live /\ u # view)
  BY <1>1, <1>3, ViewsClosed
<1>5. Nav!Live' = {}
  <2>1. \A u \in 1 .. Len(views) : views[u].live => u = view
    BY <1>3 DEF Nav!Live
  <2>2. \A u \in DOMAIN views' : ~views'[u].live
    BY <1>4, <2>1
  <2> QED BY <2>2 DEF Nav!Live
<1>6. delegated' = {} /\ resize' = {}
  <2>1. CASE view \in 1 .. Len(views)
    BY <1>1, <1>3, <2>1
  <2>2. CASE view \notin 1 .. Len(views)
    BY <1>1, <1>3, <2>2
  <2> QED BY <2>1, <2>2
<1>7. Nav!Kind' = "about" /\ Nav!About \notin DOMAIN views'
  BY <1>1, <1>4 DEF Nav!Kind, Nav!About
<1>8. PageKept'
  BY <1>1, <1>3, <1>4, <1>5, <1>6, <1>7 DEF PageKept, Nav!About, Nav!None
<1>9. ViewsKept
  BY <1>1, <1>3, <1>4 DEF ViewsKept
<1>10. Paged'
  BY <1>3, <1>4, <1>9, PagedKept
<1>11. Agrees'
  <2>1. CASE fragment = "about"
    <3>1. Nav!RouteOf(handlers', fragment') = "about"
      BY <1>1, <2>1 DEF PagesConstants, Nav!RoutesFit, Bar
    <3> QED BY <1>7, <3>1 DEF Agrees
  <2>2. CASE fragment # "about"
    <3>1. excuse'
      BY <1>2, <2>2
    <3> QED BY <3>1, Zenon DEF Agrees
  <2> QED BY <2>1, <2>2
<1> QED BY <1>8, <1>10, <1>11

(* A step that leaves the page alone, and one that leaves the views alone. *)
LEMMA PageSame ==
  ASSUME PageKept, UNCHANGED <<view, nav, views, delegated, resize>>, fetches' \in Nat
  PROVE  PageKept'
<1>1. Nav!Live' = Nav!Live /\ Nav!Kind' = Nav!Kind
  BY DEF Nav!Live, Nav!Kind, Nav!About
<1> QED BY <1>1 DEF PageKept, Nav!None, Nav!About

LEMMA PagedSame ==
  ASSUME Paged, UNCHANGED <<views, queries>>
  PROVE  Paged'
BY DEF Paged, InFlight

(* The server is asked for what the about page shows. *)
LEMMA AboutAsked ==
  ASSUME PageKept, Paged, Nav!about
  PROVE  PageKept' /\ Agrees' /\ Paged'
<1>1. fetches' = fetches + 1 /\ fetches \in Nat
      /\ UNCHANGED <<view, nav, views, delegated, resize, queries>>
  BY DEF Nav!about, PageKept
<1>2. fetches' \in Nat /\ fetches' # 0
  BY <1>1
<1>3. Agrees'
  BY <1>2 DEF Agrees
<1> QED BY <1>1, <1>2, <1>3, PageSame, PagedSame

(* The callback of a route: the fragment that was loaded is the one of the *)
(* page, or the about page is on its way.                                 *)
LEMMA RouteCalled ==
  ASSUME PagesConstants, Bar, PageKept, Paged, NEW f, Nav!Callback(f), handlers' = handlers,
         Nav!RouteOf(handlers, f) \in {"", "about", "search", "*unknown"},
         Nav!RouteOf(handlers, f) \in {"search", "*unknown"} =>
           Nav!RouteOf(handlers', fragment') = Nav!RouteOf(handlers, f)
  PROVE  PageKept' /\ Agrees' /\ Paged'
<1>1. CASE Nav!RouteOf(handlers, f) \in {"", "about"}
  <2>1. Nav!about
    BY <1>1, Zenon DEF Nav!Callback
  <2> QED BY <2>1, AboutAsked
<1>2. CASE Nav!RouteOf(handlers, f) = "search"
  <2>1. Nav!search
    BY <1>2 DEF Nav!Callback
  <2>2. Nav!RouteOf(handlers', fragment') = "search"
    BY <1>2
  <2> QED BY <2>1, <2>2, SearchShown DEF Bar
<1>3. CASE Nav!RouteOf(handlers, f) = "*unknown"
  <2>1. Nav!unknown
    BY <1>3 DEF Nav!Callback
  <2>2. UNCHANGED <<view, nav, views, delegated, resize, queries, fetches>>
    BY <2>1 DEF Nav!unknown, Nav!appVars
  <2>3. Agrees'
    BY <1>3 DEF Agrees
  <2>4. fetches' \in Nat
    BY <2>2 DEF PageKept
  <2> QED BY <2>2, <2>3, <2>4, PageSame, PagedSame
<1> QED BY <1>1, <1>2, <1>3

LEMMA PagesStart ==
  ASSUME PagesConstants, PagesInv, Nav!Start
  PROVE  PagesInv'
<1>1. Bar /\ PageKept /\ Agrees /\ Paged
  BY DEF PagesInv
<1>2. PICK f : f = Strip[entries[pos]]
  OBVIOUS
<1>3. Address /\ handlers = Nav!Bound(<<>>) /\ handlers' = handlers /\ started' = TRUE
      /\ entries[pos] \in Hashes
  <2>1. Address /\ handlers = Nav!Bound(<<>>)
    BY <1>1 DEF Bar
  <2>2. handlers' = handlers /\ started' = TRUE
    BY DEF Nav!Start
  <2> QED BY <2>1, <2>2 DEF Address
<1>4. /\ f \in Hashes /\ Nav!RouteOf(handlers, f) \in {"", "about", "search", "*unknown"}
      /\ "about" \in Hashes /\ Nav!RouteOf(handlers, "about") = "about"
  BY <1>2, <1>3 DEF PagesConstants, Nav!RoutesFit
<1>5. /\ Nav!LoadRoute(f) /\ Nav!Callback(f)
      /\ pending' = IF Nav!RouteOf(handlers, f) = "" THEN pending + 1 ELSE pending
  BY <1>2 DEF Nav!Start, Nav!Strip0, Nav!location
<1>6. CASE Nav!RouteOf(handlers, f) = ""
  <2>1. Nav!_updateHash("about", TRUE) /\ fragment' = "about" /\ shown' = "about"
    BY <1>5, <1>6 DEF Nav!LoadRoute, Nav!loadUrl
  <2>2. Address' /\ pending' # 0
    <3>1. Address'
      BY <1>3, <1>4, <2>1, HashUpdated
    <3>2. pending \in Nat /\ pending' = pending + 1
      BY <1>3, <1>5, <1>6 DEF Address
    <3> QED BY <3>1, <3>2
  <2>3. Nav!RouteOf(handlers', fragment') = "about"
    BY <1>3, <1>4, <2>1
  <2>4. Bar'
    BY <1>3, <2>1, <2>2, <2>3 DEF Bar, Sections
  <2>5. PageKept' /\ Agrees' /\ Paged'
    BY <1>1, <1>3, <1>4, <1>5, <1>6, RouteCalled
  <2> QED BY <2>4, <2>5 DEF PagesInv
<1>7. CASE Nav!RouteOf(handlers, f) # ""
  <2>1. fragment' = f /\ shown' = f /\ entries' = entries /\ pos' = pos /\ pending' = pending
    BY <1>5, <1>7 DEF Nav!LoadRoute, Nav!loadUrl
  <2>2. Address'
    BY <1>3, <2>1 DEF Address
  <2>3. Nav!RouteOf(handlers', fragment') = Nav!RouteOf(handlers, f)
    BY <1>3, <2>1
  <2>4. Bar'
    BY <1>2, <1>3, <1>4, <1>7, <2>1, <2>2, <2>3 DEF Bar, Sections
  <2>5. PageKept' /\ Agrees' /\ Paged'
    BY <1>1, <1>3, <1>4, <1>5, <2>3, RouteCalled
  <2> QED BY <2>4, <2>5 DEF PagesInv
<1> QED BY <1>6, <1>7

LEMMA PagesHashChange ==
  ASSUME PagesConstants, PagesInv, Nav!HashChange
  PROVE  PagesInv'
<1>1. Bar /\ PageKept /\ Agrees /\ Paged
  BY DEF PagesInv
<1>2. PICK f : f = Strip[entries[pos]]
  OBVIOUS
<1>3. /\ Address /\ handlers = Nav!Bound(<<>>) /\ handlers' = handlers
      /\ started' = started /\ started /\ entries[pos] \in Hashes
      /\ pending \in Nat /\ pending > 0
      /\ shown = fragment /\ Nav!RouteOf(handlers, fragment) \in Sections
  <2>1. handlers' = handlers /\ started' = started /\ started /\ pending > 0
    BY DEF Nav!HashChange
  <2>2. /\ Address /\ handlers = Nav!Bound(<<>>)
        /\ shown = fragment /\ Nav!RouteOf(handlers, fragment) \in Sections
    BY <1>1, <2>1 DEF Bar
  <2> QED BY <2>1, <2>2 DEF Address
<1>4. /\ f \in Hashes /\ Nav!RouteOf(handlers, f) \in {"", "about", "search", "*unknown"}
      /\ "about" \in Hashes /\ Nav!RouteOf(handlers, "about") = "about"
  BY <1>2, <1>3 DEF PagesConstants, Nav!RoutesFit
<1>5. CASE f = fragment
  <2>1. /\ pending' = pending - 1 /\ entries' = entries /\ pos' = pos
        /\ fragment' = fragment /\ shown' = shown /\ UNCHANGED Nav!appVars
    BY <1>2, <1>5 DEF Nav!HashChange, Nav!Strip0, Nav!location
  <2>2. Address'
    BY <1>3, <2>1 DEF Address
  <2>3. Bar'
    BY <1>2, <1>3, <1>5, <2>1, <2>2 DEF Bar
  <2>4. /\ UNCHANGED <<view, nav, views, delegated, resize, queries, fetches>>
        /\ excuse' = excuse
    BY <2>1 DEF Nav!appVars
  <2>5. fetches' \in Nat
    BY <1>1, <2>4 DEF PageKept
  <2>6. Nav!Kind' = Nav!Kind
    BY <2>4 DEF Nav!Kind, Nav!About
  <2>7. Agrees'
    BY <1>1, <1>3, <2>1, <2>4, <2>6 DEF Agrees
  <2> QED BY <1>1, <2>3, <2>4, <2>5, <2>7, PageSame, PagedSame DEF PagesInv
<1>6. CASE f # fragment /\ Nav!RouteOf(handlers, f) = ""
  <2>1. /\ entries' = [entries EXCEPT ![pos] = "about"] /\ pos' = pos /\ pending' = pending
        /\ fragment' = "about" /\ shown' = "about" /\ Nav!Callback(f)
    BY <1>2, <1>6 DEF Nav!HashChange, Nav!loadUrl, Nav!Strip0, Nav!location
  <2>2. Address'
    <3>1. PICK h \in Hashes : h = "about"
      BY <1>4
    <3>2. [entries EXCEPT ![pos] = h] \in Seq(Hashes)
          /\ Len([entries EXCEPT ![pos] = h]) = Len(entries)
      BY <1>3 DEF Address
    <3> QED BY <3>2, <1>3, <2>1, <3>1 DEF Address
  <2>3. Bar'
    <3>1. pending' # 0 /\ started' /\ handlers' = Nav!Bound(<<>>) /\ started' \in BOOLEAN
      BY <1>1, <1>3, <2>1 DEF Bar
    <3>2. Nav!RouteOf(handlers', fragment') = "about"
      BY <1>3, <1>4, <2>1
    <3> QED BY <2>1, <2>2, <3>1, <3>2 DEF Bar, Sections
  <2>4. PageKept' /\ Agrees' /\ Paged'
    BY <1>1, <1>3, <1>4, <1>6, <2>1, RouteCalled
  <2> QED BY <2>3, <2>4 DEF PagesInv
<1>7. CASE f # fragment /\ Nav!RouteOf(handlers, f) # ""
  <2>1. /\ entries' = entries /\ pos' = pos /\ pending' = pending - 1
        /\ fragment' = f /\ shown' = f /\ Nav!Callback(f)
    BY <1>2, <1>7 DEF Nav!HashChange, Nav!loadUrl, Nav!Strip0, Nav!location
  <2>2. Address'
    BY <1>3, <2>1 DEF Address
  <2>3. Nav!RouteOf(handlers', fragment') = Nav!RouteOf(handlers, f)
    BY <1>3, <2>1
  <2>4. Bar'
    BY <1>2, <1>3, <1>4, <1>7, <2>1, <2>2, <2>3 DEF Bar, Sections
  <2>5. PageKept' /\ Agrees' /\ Paged'
    BY <1>1, <1>3, <1>4, <2>1, <2>3, RouteCalled
  <2> QED BY <2>4, <2>5 DEF PagesInv
<1> QED BY <1>5, <1>6, <1>7

LEMMA PagesUserMoves ==
  ASSUME PagesInv, Nav!UserMoves
  PROVE  PagesInv'
<1>1. Bar /\ PageKept /\ Agrees /\ Paged
  BY DEF PagesInv
<1>2. Address
  BY <1>1 DEF Bar
<1>3. /\ Address' /\ Announced /\ (pending' = 0 => pending = 0)
      /\ UNCHANGED <<started, fragment, handlers, shown>>
  <2>1. ASSUME NEW h \in Hashes, Nav!Follow(h)
        PROVE  /\ Address' /\ Announced /\ (pending' = 0 => pending = 0)
               /\ UNCHANGED <<started, fragment, handlers, shown>>
    <3>1. pending' = 0 => pending = 0
      BY <1>2, <2>1 DEF Nav!Follow, Nav!_updateHash, Address
    <3> QED BY <1>2, <2>1, <3>1, HashUpdated DEF Nav!Follow
  <2>2. ASSUME NEW to \in 1 .. Len(entries), Nav!Traverse(to)
        PROVE  /\ Address' /\ Announced /\ (pending' = 0 => pending = 0)
               /\ UNCHANGED <<started, fragment, handlers, shown>>
    <3>1. pending' = 0 => pending = 0
      BY <1>2, <2>2 DEF Nav!Traverse, Address
    <3> QED BY <1>2, <2>2, <3>1, HashTraversed DEF Nav!Traverse
  <2> QED BY <2>1, <2>2 DEF Nav!UserMoves
<1>4. Bar'
  BY <1>1, <1>3 DEF Bar, Announced
<1>5. /\ UNCHANGED <<view, nav, views, delegated, resize, queries, fetches>>
      /\ excuse' = excuse
  BY DEF Nav!UserMoves, Nav!appVars
<1>6. fetches' \in Nat
  BY <1>1, <1>5 DEF PageKept
<1>7. Nav!Kind' = Nav!Kind
  BY <1>5 DEF Nav!Kind, Nav!About
<1>8. Agrees'
  BY <1>1, <1>3, <1>5, <1>7 DEF Agrees
<1> QED BY <1>1, <1>4, <1>5, <1>6, <1>8, PageSame, PagedSame DEF PagesInv

LEMMA PagesAbout ==
  ASSUME PagesConstants, PagesInv, Nav!AboutArrives \/ Nav!AboutFails
  PROVE  PagesInv'
<1>1. Bar /\ PageKept /\ Agrees /\ Paged
  BY DEF PagesInv
<1>2. UNCHANGED Nav!historyVars
  BY DEF Nav!AboutArrives, Nav!AboutFails
<1>3. Bar'
  BY <1>1, <1>2 DEF Bar, Address, Nav!historyVars
<1>4. CASE Nav!AboutArrives
  BY <1>1, <1>3, <1>4, AboutShown DEF PagesInv
<1>5. CASE Nav!AboutFails
  <2>1. /\ UNCHANGED <<view, nav, views, delegated, resize, queries>>
        /\ fetches' = fetches - 1 /\ fetches > 0
    BY <1>5 DEF Nav!AboutFails
  <2>2. fetches' \in Nat
    BY <1>1, <2>1 DEF PageKept
  <2>3. excuse'
    BY <1>5 DEF Nav!AboutFails
  <2>4. Agrees'
    BY <2>3, Zenon DEF Agrees
  <2> QED BY <1>1, <1>3, <2>1, <2>2, <2>4, PageSame, PagedSame DEF PagesInv
<1> QED BY <1>4, <1>5

-----------------------------------------------------------------------------
(* A step that changes one search view, and not whether it is live. *)
LEMMA ViewChanged ==
  ASSUME Bar, PageKept, Agrees, Nav!Elsewhere,
         NEW v \in 1 .. Len(views), NEW sv \in SearchView, sv.live <=> views[v].live,
         views' = [views EXCEPT ![v] = sv]
  PROVE  /\ Bar' /\ PageKept' /\ Agrees'
         /\ views' \in Seq(SearchView) /\ Len(views') = Len(views) /\ views'[v] = sv
         /\ \A u \in 1 .. Len(views) : u # v => views'[u] = views[u]
<1>1. views \in Seq(SearchView)
  BY DEF PageKept
<1>2. /\ views' \in Seq(SearchView) /\ Len(views') = Len(views) /\ views'[v] = sv
      /\ \A u \in 1 .. Len(views) : u # v => views'[u] = views[u]
  BY <1>1
<1>3. /\ UNCHANGED Nav!historyVars
      /\ UNCHANGED <<view, nav, fetches, delegated, resize, excuse>>
  BY DEF Nav!Elsewhere
<1>4. Bar'
  BY <1>3 DEF Bar, Address, Nav!historyVars
<1>5. DOMAIN views' = DOMAIN views /\ DOMAIN views = 1 .. Len(views)
  BY <1>1, <1>2
<1>6. \A u \in DOMAIN views : views'[u].live <=> views[u].live
  BY <1>2, <1>5
<1>7. Nav!Live' = Nav!Live
  BY <1>5, <1>6 DEF Nav!Live
<1>8. Nav!Kind' = Nav!Kind
  BY <1>3, <1>5 DEF Nav!Kind, Nav!About
<1>9. PageKept'
  BY <1>2, <1>3, <1>7, <1>8 DEF PageKept, Nav!None, Nav!About
<1>10. started' = started /\ fragment' = fragment /\ handlers' = handlers
  BY <1>3 DEF Nav!historyVars
<1>11. Agrees'
  BY <1>3, <1>8, <1>10 DEF Agrees
<1> QED BY <1>2, <1>4, <1>9, <1>11

(* The predicates of a view change. *)
LEMMA PagesPredicates ==
  ASSUME PagesInv, NEW v \in DOMAIN views,
         \/ \E w \in Preds : Nav!AddPredicate(v, w)
         \/ \E k \in DOMAIN views[v].preds :
              Nav!RemovePredicate(v, k) \/ \E w \in Preds : Nav!EditPredicate(v, k, w)
  PROVE  PagesInv'
<1>1. Bar /\ PageKept /\ Agrees /\ Paged /\ views \in Seq(SearchView) /\ v \in 1 .. Len(views)
  BY DEF PagesInv, PageKept
<1>2. PICK x \in SearchView : x = views[v]
  BY <1>1
<1>3. PICK ps \in Seq(Preds) : ps = x.preds
  BY DEF SearchView
<1>4. PICK new \in Seq(Preds) : views' = [views EXCEPT ![v].preds = new]
  <2>1. ASSUME NEW w \in Preds, Nav!AddPredicate(v, w)
        PROVE  \E new \in Seq(Preds) : views' = [views EXCEPT ![v].preds = new]
    <3>1. Append(ps, w) \in Seq(Preds)
      OBVIOUS
    <3>2. views' = [views EXCEPT ![v].preds = Append(ps, w)]
      BY <1>1, <1>2, <1>3, <2>1 DEF Nav!AddPredicate
    <3> QED BY <3>1, <3>2
  <2>2. ASSUME NEW k \in 1 .. Len(ps), Nav!RemovePredicate(v, k)
        PROVE  \E new \in Seq(Preds) : views' = [views EXCEPT ![v].preds = new]
    <3>1. PICK r \in Seq(Preds) : r = Nav!RemoveAt(ps, k)
      <4>1. \E r \in Seq(Preds) : /\ r = Nav!RemoveAt(ps, k) /\ Len(r) = Len(ps) - 1
                                  /\ \A m \in 1 .. Len(ps) - 1 : r[m] = ps[IF m < k THEN m ELSE m + 1]
        BY Removed
      <4> QED BY <4>1
    <3>2. views' = [views EXCEPT ![v].preds = Nav!RemoveAt(views[v].preds, k)]
      BY <1>1, <2>2 DEF Nav!RemovePredicate
    <3> QED BY <1>2, <1>3, <3>1, <3>2
  <2>3. ASSUME NEW k \in 1 .. Len(ps), NEW w \in Preds, Nav!EditPredicate(v, k, w)
        PROVE  \E new \in Seq(Preds) : views' = [views EXCEPT ![v].preds = new]
    <3>1. [ps EXCEPT ![k] = w] \in Seq(Preds)
      OBVIOUS
    <3>2. views' = [views EXCEPT ![v].preds = [ps EXCEPT ![k] = w]]
      BY <1>1, <1>2, <1>3, <2>3 DEF Nav!EditPredicate
    <3> QED BY <3>1, <3>2
  <2>4. DOMAIN views[v].preds = 1 .. Len(ps)
    BY <1>2, <1>3
  <2> QED BY <2>1, <2>2, <2>3, <2>4
<1>5. PICK sv : sv = [x EXCEPT !.preds = new]
  OBVIOUS
<1>6. /\ sv \in SearchView /\ sv.results = x.results /\ sv.under = x.under
      /\ (sv.busy <=> x.busy) /\ (sv.live <=> x.live)
  BY <1>5 DEF SearchView
<1>7. views' = [views EXCEPT ![v] = sv]
  BY <1>1, <1>2, <1>4, <1>5
<1>8. Nav!Elsewhere /\ queries' = queries
  BY DEF Nav!AddPredicate, Nav!RemovePredicate, Nav!EditPredicate
<1>9. /\ Bar' /\ PageKept' /\ Agrees'
      /\ views' \in Seq(SearchView) /\ Len(views') = Len(views) /\ views'[v] = sv
      /\ \A u \in 1 .. Len(views) : u # v => views'[u] = views[u]
  BY <1>1, <1>2, <1>6, <1>7, <1>8, ViewChanged
<1>10. ViewsKept
  <2>1. ASSUME NEW u \in 1 .. Len(views)
        PROVE  /\ views'[u].results = views[u].results /\ views'[u].under = views[u].under
               /\ (views'[u].busy <=> views[u].busy) /\ (views'[u].live => views[u].live)
    BY <1>2, <1>6, <1>9
  <2>2. Len(views) \in Nat
    BY <1>1
  <2> QED BY <1>8, <1>9, <2>1, <2>2 DEF ViewsKept
<1>11. Paged'
  BY <1>1, <1>9, <1>10, PagedKept
<1> QED BY <1>9, <1>11 DEF PagesInv

(* What At is in the application. *)
LEMMA PartsOfResults ==
  ASSUME NEW s, NEW I
  PROVE  Nav!At(s, I) = At(s, I)
<1>1. Nav!Cardinality(I) = Cardinality(I)
  BY DEF Nav!Cardinality, Cardinality
<1>2. Nav!InOrder(I) = InOrder(I)
  BY <1>1, Zenon DEF Nav!InOrder, InOrder
<1> QED BY <1>1, <1>2, Zenon DEF Nav!At, At

(* A set of indexes has a smallest one. *)
LEMMA SmallestIndex ==
  ASSUME NEW n \in Nat, NEW I \in SUBSET (1 .. n), I # {}
  PROVE  \E k \in I : \A j \in I : k <= j
<1>1. PICK J : J = {n - k : k \in I}
  OBVIOUS
<1>2. \A x \in J : x \in 0 .. n
  <2> SUFFICES ASSUME NEW k \in I PROVE n - k \in 0 .. n
    BY <1>1
  <2>1. k \in 1 .. n
    OBVIOUS
  <2> QED BY <2>1
<1>3. J # {} /\ IsFiniteSet(J)
  <2>1. J \in SUBSET (0 .. n) /\ J # {}
    BY <1>1, <1>2
  <2>2. IsFiniteSet(0 .. n)
    BY FS_Interval
  <2> QED BY <2>1, <2>2, FS_Subset
<1>4. PICK m \in J : \A x \in J : x <= m
  <2>1. J \in SUBSET Int
    BY <1>2
  <2> QED BY <1>3, <2>1, LargestNumber
<1>5. PICK k \in I : m = n - k
  BY <1>1
<1>6. \A j \in I : n - j <= n - k
  BY <1>1, <1>4, <1>5
<1>7. \A j \in I : k <= j
  BY <1>6
<1> QED BY <1>7

(* What a query is sorted by, is a number.                                *)
LEMMA SourceValue ==
  ASSUME PagesConstants, NEW w \in Seq(Preds)
  PROVE  /\ \A x \in 1 .. Spans : Nav!ValueOf(w, x) \in Int
         /\ Nav!SourceOp(w) \in {"gt", "le", "eq"}
         /\ Nav!SourceAt(w) = 0 \/ (/\ Nav!SourceAt(w) \in 1 .. Len(w)
                                   /\ Nav!SourceOp(w) = PredOp[w[Nav!SourceAt(w)]]
                                   /\ \A x \in 1 .. Spans : Nav!ValueOf(w, x) = PredValue[w[Nav!SourceAt(w)]][x])
<1>1. /\ PredOp \in [Preds -> {"gt", "le", "eq", "filter"}]
      /\ PredValue \in [Preds -> [1 .. Spans -> Int]]
  BY DEF PagesConstants, Nav!PredsFit
<1>2. PICK at : at = Nav!SourceAt(w)
  OBVIOUS
<1>3. CASE Nav!Sources(w) = {}
  <2>1. at = 0
    BY <1>2, <1>3 DEF Nav!SourceAt
  <2>2. Nav!SourceOp(w) = "gt" /\ \A x : Nav!ValueOf(w, x) = x
    BY <1>2, <2>1 DEF Nav!SourceOp, Nav!ValueOf
  <2> QED BY <1>2, <2>1, <2>2
<1>4. CASE Nav!Sources(w) # {}
  <2>1. PICK S \in SUBSET (1 .. Len(w)) : S = Nav!Sources(w)
    <3>1. Nav!Sources(w) \in SUBSET (1 .. Len(w))
      BY DEF Nav!Sources
    <3> QED BY <3>1
  <2>2. \E k \in S : \A j \in S : k <= j
    <3>1. S # {} /\ Len(w) \in Nat
      BY <1>4, <2>1
    <3> QED BY <3>1, SmallestIndex
  <2>3. at \in S
    <3>1. at = CHOOSE k \in S : \A j \in S : k <= j
      BY <1>2, <1>4, <2>1 DEF Nav!SourceAt
    <3> QED BY <2>2, <3>1
  <2>4. at \in 1 .. Len(w) /\ PredOp[w[at]] # "filter" /\ at # 0
    BY <2>1, <2>3 DEF Nav!Sources
  <2>5. Nav!SourceOp(w) = PredOp[w[at]] /\ \A x : Nav!ValueOf(w, x) = PredValue[w[at]][x]
    BY <1>2, <2>4 DEF Nav!SourceOp, Nav!ValueOf
  <2>6. w[at] \in Preds
    BY <2>4
  <2>7. PredOp[w[at]] \in {"gt", "le", "eq"} /\ \A x \in 1 .. Spans : PredValue[w[at]][x] \in Int
    BY <1>1, <2>4, <2>6
  <2> QED BY <1>2, <2>4, <2>5, <2>7
<1> QED BY <1>3, <1>4

(* The results that a clear leaves are listed as they were, and were      *)
(* results before.                                                        *)
LEMMA CleanedResults ==
  ASSUME Spans \in Nat, NEW s \in Seq(1 .. Spans), NEW gone
  PROVE  \E r \in Seq(1 .. Spans) :
           /\ r = Nav!At(s, DOMAIN s \ gone)
           /\ \A w : Listed(w, s) => Listed(w, r)
           /\ \A w, p : Awaited(w, p, s) => Awaited(w, p, r)
<1>1. PICK I \in SUBSET (1 .. Len(s)) : I = DOMAIN s \ gone
  <2>1. DOMAIN s \ gone \in SUBSET (1 .. Len(s))
    OBVIOUS
  <2> QED BY <2>1
<1>3. PICK r : r = At(s, I)
  OBVIOUS
<1>t. /\ At(s, I) \in Seq(1 .. Spans)
      /\ \E n \in Nat : \E f \in [1 .. n -> I] : Picks(f, n, I, s, At(s, I))
  BY PartInOrder
<1>5. PICK n \in Nat : \E f \in [1 .. n -> I] : Picks(f, n, I, s, r)
  BY <1>3, <1>t
<1>u. PICK f \in [1 .. n -> I] : Picks(f, n, I, s, r)
  BY <1>5
<1>6. /\ r \in Seq(1 .. Spans) /\ Len(r) = n
      /\ \A k \in 1 .. n : r[k] = s[f[k]]
      /\ \A i, j \in 1 .. n : i < j => f[i] < f[j]
  BY <1>3, <1>t, <1>u DEF Picks, Increasing
<1>7. \A k \in 1 .. n : f[k] \in 1 .. Len(s)
  OBVIOUS
<1>8. r = Nav!At(s, DOMAIN s \ gone)
  BY <1>1, <1>3, PartsOfResults
<1>9. DOMAIN r = 1 .. n /\ DOMAIN s = 1 .. Len(s)
  BY <1>6
<1>10. ASSUME NEW w, Listed(w, s) PROVE Listed(w, r)
  <2>1. \A k \in 1 .. Len(r) : Nav!Matches(w, r[k])
    BY <1>6, <1>7, <1>10 DEF Listed
  <2>2. Nav!Sorted(w, r)
    <3> SUFFICES ASSUME NEW i \in 1 .. n, NEW j \in 1 .. n, i < j
                 PROVE  IF Nav!SourceOp(w) = "le" THEN Nav!ValueOf(w, r[i]) >= Nav!ValueOf(w, r[j])
                        ELSE Nav!ValueOf(w, r[i]) <= Nav!ValueOf(w, r[j])
      BY <1>9, Zenon DEF Nav!Sorted
    <3>1. f[i] < f[j] /\ f[i] \in DOMAIN s /\ f[j] \in DOMAIN s
      BY <1>6, <1>7, <1>9
    <3>2. Nav!Sorted(w, s)
      BY <1>10 DEF Listed
    <3>3. IF Nav!SourceOp(w) = "le" THEN Nav!ValueOf(w, s[f[i]]) >= Nav!ValueOf(w, s[f[j]])
          ELSE Nav!ValueOf(w, s[f[i]]) <= Nav!ValueOf(w, s[f[j]])
      BY <3>1, <3>2, Zenon DEF Nav!Sorted
    <3>4. r[i] = s[f[i]] /\ r[j] = s[f[j]]
      BY <1>6
    <3> QED BY <3>3, <3>4, Zenon
  <2>3. Nav!Once(s) => Nav!Once(r)
    <3> SUFFICES ASSUME Nav!Once(s), NEW i \in 1 .. n, NEW j \in 1 .. n, r[i] = r[j], i # j
                 PROVE  FALSE
      BY <1>9, Zenon DEF Nav!Once
    <3>1. f[i] = f[j]
      <4>1. s[f[i]] = s[f[j]] /\ f[i] \in DOMAIN s /\ f[j] \in DOMAIN s
        BY <1>6, <1>7, <1>9
      <4> QED BY <4>1, Zenon DEF Nav!Once
    <3>2. i < j \/ j < i
      OBVIOUS
    <3> QED BY <1>6, <1>7, <3>1, <3>2
  <2> QED BY <1>10, <2>1, <2>2, <2>3, Zenon DEF Listed
<1>11. ASSUME NEW w, NEW p, Awaited(w, p, s) PROVE Awaited(w, p, r)
  <2>1. Listed(w, s) /\ (p = 0 => s = <<>>)
        /\ (p # 0 => Nav!Matches(w, p) /\ \A k \in 1 .. Len(s) : Before(w, s[k], p))
    BY <1>11, Zenon DEF Awaited
  <2>2. Listed(w, r)
    BY <1>10, <2>1
  <2>3. p = 0 => r = <<>>
    <3> SUFFICES ASSUME s = <<>> PROVE r = <<>>
      BY <2>1
    <3>1. n = 0
      <4>1. CASE n = 0
        BY <4>1
      <4>2. CASE n # 0
        <5>1. 1 \in 1 .. n
          BY <4>2
        <5>2. f[1] \in 1 .. Len(s)
          BY <1>7, <5>1
        <5> QED BY <5>2
      <4> QED BY <4>1, <4>2
    <3> QED BY <1>6, <3>1
  <2>4. p # 0 => \A k \in 1 .. Len(r) : Before(w, r[k], p)
    <3> SUFFICES ASSUME p # 0, NEW k \in 1 .. n PROVE Before(w, r[k], p)
      BY <1>6
    <3>1. r[k] = s[f[k]] /\ f[k] \in 1 .. Len(s)
      BY <1>6, <1>7
    <3>2. Before(w, s[f[k]], p)
      BY <2>1, <3>1
    <3> QED BY <3>1, <3>2
  <2> QED BY <2>1, <2>2, <2>3, <2>4, Zenon DEF Awaited
<1> QED BY <1>6, <1>8, <1>10, <1>11

LEMMA PagesClear ==
  ASSUME PagesConstants, PagesInv, NEW v \in DOMAIN views, NEW gone, Nav!Clear(v, gone)
  PROVE  PagesInv'
<1>1. Bar /\ PageKept /\ Agrees /\ Paged /\ views \in Seq(SearchView) /\ v \in 1 .. Len(views)
  BY DEF PagesInv, PageKept
<1>2. PICK x \in SearchView : x = views[v]
  BY <1>1
<1>3. PICK s \in Seq(1 .. Spans) : s = x.results
  BY DEF SearchView
<1>5. PICK r \in Seq(1 .. Spans) :
        /\ r = Nav!At(s, DOMAIN s \ gone)
        /\ \A w : Listed(w, s) => Listed(w, r)
        /\ \A w, p : Awaited(w, p, s) => Awaited(w, p, r)
  BY CleanedResults DEF PagesConstants
<1>6. PICK sv : sv = [x EXCEPT !.results = r]
  OBVIOUS
<1>7. /\ sv \in SearchView /\ sv.results = r /\ sv.under = x.under
      /\ (sv.busy <=> x.busy) /\ (sv.live <=> x.live)
  BY <1>6 DEF SearchView
<1>8. views' = [views EXCEPT ![v] = sv] /\ Nav!Elsewhere /\ queries' = queries
  <2>1. views' = [views EXCEPT ![v] = [views[v] EXCEPT !.results =
                    Nav!At(views[v].results, DOMAIN views[v].results \ gone)]]
    BY <1>1 DEF Nav!Clear
  <2> QED BY <1>2, <1>3, <1>5, <1>6, <2>1 DEF Nav!Clear
<1>9. /\ Bar' /\ PageKept' /\ Agrees'
      /\ views' \in Seq(SearchView) /\ Len(views') = Len(views) /\ views'[v] = sv
      /\ \A u \in 1 .. Len(views) : u # v => views'[u] = views[u]
  BY <1>1, <1>2, <1>7, <1>8, ViewChanged
<1>10. Paged'
  <2>1. /\ queries \in Seq(Query)
        /\ \A i \in 1 .. Len(queries) : queries[i].v \in 1 .. Len(views)
        /\ \A i, j \in 1 .. Len(queries) : queries[i].v = queries[j].v => i = j
    BY <1>1 DEF Paged
  <2>2. ASSUME NEW u \in 1 .. Len(views) PROVE ResultsFit(views'[u].under, views'[u].results)
    <3>1. ResultsFit(views[u].under, views[u].results)
      BY <1>1 DEF Paged
    <3>2. CASE u = v
      BY <1>2, <1>3, <1>5, <1>7, <1>9, <3>1, <3>2 DEF ResultsFit
    <3>3. CASE u # v
      BY <1>9, <3>1, <3>3
    <3> QED BY <3>2, <3>3
  <2>3. ASSUME NEW i \in 1 .. Len(queries) PROVE Awaits(queries[i], views'[queries[i].v].results)
    <3>1. Awaits(queries[i], views[queries[i].v].results) /\ queries[i].v \in 1 .. Len(views)
      BY <1>1, <2>1 DEF Paged
    <3>2. CASE queries[i].v = v
      BY <1>2, <1>3, <1>5, <1>7, <1>9, <3>1, <3>2 DEF Awaits
    <3>3. CASE queries[i].v # v
      BY <1>9, <3>1, <3>3
    <3> QED BY <3>2, <3>3
  <2>4. \A u : InFlight(u)' <=> InFlight(u)
    BY <1>8 DEF InFlight
  <2>5. \A u \in 1 .. Len(views) : views'[u].live => (views'[u].busy <=> InFlight(u))
    BY <1>1, <1>2, <1>7, <1>9 DEF Paged
  <2> QED BY <1>8, <1>9, <2>1, <2>2, <2>3, <2>4, <2>5 DEF Paged
<1> QED BY <1>9, <1>10 DEF PagesInv

-----------------------------------------------------------------------------
(* The next query asks for what comes after the last result.              *)
LEMMA LastResult ==
  ASSUME PagesConstants, NEW v, NEW s \in Seq(1 .. Spans), s = views[v].results
  PROVE  /\ Nav!Prev(v) \in 0 .. Spans
         /\ \A w \in Seq(Preds) : s = <<>> \/ Listed(w, s) => Awaited(w, Nav!Prev(v), s)
<1>0. Spans \in Nat
  BY DEF PagesConstants
<1>1. CASE s = <<>>
  <2>1. Nav!Prev(v) = 0
    BY <1>1 DEF Nav!Prev
  <2>2. \A w : Listed(w, s)
    BY <1>1 DEF Listed, Nav!Sorted, Nav!Once
  <2> QED BY <1>0, <1>1, <2>1, <2>2 DEF Awaited
<1>2. CASE s # <<>>
  <2>1. PICK p \in 1 .. Spans : p = s[Len(s)] /\ p = Nav!Prev(v) /\ Len(s) \in 1 .. Len(s)
    <3>1. Nav!Prev(v) = s[Len(s)] /\ Len(s) \in 1 .. Len(s)
      <4>1. Nav!Prev(v) = Nav!Last(s)
        BY <1>2, Zenon DEF Nav!Prev
      <4>2. Nav!Last(s) = s[Len(s)]
        BY DEF Nav!Last
      <4>3. Len(s) \in 1 .. Len(s)
        BY <1>2
      <4> QED BY <4>1, <4>2, <4>3
    <3>2. \A k \in 1 .. Len(s) : s[k] \in 1 .. Spans
      BY ElementOfSeq
    <3>3. s[Len(s)] \in 1 .. Spans
      BY <3>1, <3>2, Zenon
    <3> QED BY <3>1, <3>3, Zenon
  <2>2. ASSUME NEW w \in Seq(Preds), Listed(w, s) PROVE Awaited(w, p, s)
    <3>1. Nav!Matches(w, p)
      BY <2>1, <2>2 DEF Listed
    <3>2. ASSUME NEW k \in 1 .. Len(s) PROVE Before(w, s[k], p)
      <4>1. k = Len(s) \/ k < Len(s)
        OBVIOUS
      <4>2. CASE k = Len(s)
        <5>1. Nav!ValueOf(w, p) \in Int
          BY SourceValue
        <5>2. s[k] = p
          BY <2>1, <4>2
        <5>3. Nav!ValueOf(w, p) >= Nav!ValueOf(w, p) /\ Nav!ValueOf(w, p) <= Nav!ValueOf(w, p)
          BY <5>1
        <5> QED BY <5>2, <5>3, Zenon DEF Before
      <4>3. CASE k < Len(s)
        <5>1. Nav!Sorted(w, s) /\ k \in DOMAIN s /\ Len(s) \in DOMAIN s
          BY <2>1, <2>2 DEF Listed
        <5> QED BY <2>1, <4>3, <5>1, Zenon DEF Before, Nav!Sorted
      <4> QED BY <4>1, <4>2, <4>3
    <3>3. p # 0
      OBVIOUS
    <3> QED BY <2>2, <3>1, <3>2, <3>3, Zenon DEF Awaited
  <2> QED BY <1>0, <1>2, <2>1, <2>2
<1> QED BY <1>1, <1>2

LEMMA PagesDoSearch ==
  ASSUME PagesConstants, PagesInv, NEW v \in DOMAIN views, Nav!doSearch(v)
  PROVE  PagesInv'
<1>1. /\ Bar /\ PageKept /\ Agrees /\ Paged /\ views \in Seq(SearchView) /\ v \in 1 .. Len(views)
      /\ Len(views) \in Nat
  BY DEF PagesInv, PageKept
<1>2. PICK x \in SearchView : x = views[v]
  BY <1>1
<1>3. CASE views[v].busy \/ views[v].preds = <<>>
  <2>1. views' = views /\ queries' = queries /\ Nav!Elsewhere
    BY <1>3 DEF Nav!doSearch
  <2>2. views' = [views EXCEPT ![v] = x]
    BY <1>1, <1>2, <2>1
  <2>3. Bar' /\ PageKept' /\ Agrees'
    BY <1>1, <1>2, <2>1, <2>2, ViewChanged
  <2> QED BY <1>1, <2>1, <2>3, PagedSame DEF PagesInv
<1>4. CASE ~(views[v].busy \/ views[v].preds = <<>>)
  <2>1. PICK sv : sv = [x EXCEPT !.busy = TRUE]
    OBVIOUS
  <2>2. /\ sv \in SearchView /\ sv.results = x.results /\ sv.under = x.under
        /\ sv.busy /\ (sv.live <=> x.live)
    BY <2>1 DEF SearchView
  <2>3. /\ views' = [views EXCEPT ![v] = sv] /\ Nav!Elsewhere /\ v \in delegated
        /\ queries' = Append(queries, Nav!QueryOf(v))
    BY <1>1, <1>2, <1>4, <2>1 DEF Nav!doSearch, Nav!Click
  <2>4. /\ Bar' /\ PageKept' /\ Agrees'
        /\ views' \in Seq(SearchView) /\ Len(views') = Len(views) /\ views'[v] = sv
        /\ \A u \in 1 .. Len(views) : u # v => views'[u] = views[u]
    BY <1>1, <1>2, <2>2, <2>3, ViewChanged
  <2>5. views[v].live
    BY <1>1, <2>3 DEF PageKept, Nav!Live
  <2>6. ~InFlight(v)
    BY <1>1, <1>4, <2>5 DEF Paged
  <2>7. PICK s \in Seq(1 .. Spans) : s = x.results
    BY DEF SearchView
  <2>8. PICK w \in Seq(Preds) : w = x.preds
    BY DEF SearchView
  <2>9. PICK p \in 0 .. Spans :
          p = Nav!Prev(v) /\ \A d \in Seq(Preds) : s = <<>> \/ Listed(d, s) => Awaited(d, p, s)
    BY <1>2, <2>7, LastResult
  <2>e. PICK d \in Seq(Preds) : d = Nav!Under(v) /\ (d # <<>> => d = w /\ Awaited(w, p, s))
    <3>1. CASE s = <<>> \/ x.under = w
      <4>1. Nav!Under(v) = w
        BY <1>2, <2>7, <2>8, <3>1 DEF Nav!Under
      <4>2. w # <<>> => s = <<>> \/ Listed(w, s)
        BY <1>1, <1>2, <2>7, <3>1 DEF Paged, ResultsFit
      <4> QED BY <2>9, <4>1, <4>2
    <3>2. CASE ~(s = <<>> \/ x.under = w)
      <4>1. Nav!Under(v) = <<>>
        BY <1>2, <2>7, <2>8, <3>2 DEF Nav!Under
      <4>2. <<>> \in Seq(Preds)
        OBVIOUS
      <4> QED BY <4>1, <4>2
    <3> QED BY <3>1, <3>2
  <2>10. PICK q \in Query : q = Nav!QueryOf(v) /\ q.v = v /\ Awaits(q, s)
    <3>1. PICK q : q = [v |-> v, preds |-> w, prev |-> p, under |-> d]
      OBVIOUS
    <3>2. q \in Query /\ q.v = v /\ q.preds = w /\ q.prev = p /\ q.under = d
      BY <1>1, <3>1 DEF Query
    <3>3. q = Nav!QueryOf(v)
      BY <1>2, <2>8, <2>9, <2>e, <3>1 DEF Nav!QueryOf
    <3>4. Awaits(q, s)
      BY <2>e, <3>2 DEF Awaits
    <3> QED BY <3>2, <3>3, <3>4
  <2>11. /\ queries \in Seq(Query)
         /\ \A i \in 1 .. Len(queries) : queries[i].v \in 1 .. Len(views)
         /\ \A i, j \in 1 .. Len(queries) : queries[i].v = queries[j].v => i = j
    BY <1>1 DEF Paged
  <2>12. PICK n \in Nat : n = Len(queries)
    BY <2>11
  <2>13. /\ queries' \in Seq(Query) /\ Len(queries') = n + 1 /\ queries'[n + 1] = q
         /\ \A i \in 1 .. n : queries'[i] = queries[i]
    <3>1. queries' = Append(queries, q)
      BY <2>3, <2>10
    <3> QED BY <2>11, <2>12, <3>1
  <2>14. \A i \in 1 .. n + 1 : i \in 1 .. n \/ i = n + 1
    OBVIOUS
  <2>15. \A i \in 1 .. n : queries[i].v # v
    BY <2>6, <2>12 DEF InFlight
  <2>16. \A i \in 1 .. n + 1 : queries'[i].v \in 1 .. Len(views)
    BY <1>1, <2>10, <2>11, <2>12, <2>13, <2>14
  <2>17. \A i, j \in 1 .. n + 1 : queries'[i].v = queries'[j].v => i = j
    BY <2>10, <2>11, <2>12, <2>13, <2>14, <2>15
  <2>18. \A u \in 1 .. Len(views) : views'[u].results = views[u].results /\ views'[u].under = views[u].under
    BY <1>2, <2>2, <2>4
  <2>19. \A u \in 1 .. Len(views) : ResultsFit(views'[u].under, views'[u].results)
    BY <1>1, <2>18 DEF Paged
  <2>20. ASSUME NEW i \in 1 .. n + 1 PROVE Awaits(queries'[i], views'[queries'[i].v].results)
    <3>1. CASE i \in 1 .. n
      BY <1>1, <2>11, <2>12, <2>13, <2>18, <3>1 DEF Paged
    <3>2. CASE i = n + 1
      BY <1>1, <1>2, <2>7, <2>10, <2>13, <2>18, <3>2
    <3> QED BY <2>14, <3>1, <3>2
  <2>21. ASSUME NEW u \in 1 .. Len(views), views'[u].live
         PROVE  views'[u].busy <=> InFlight(u)'
    <3>1. CASE u = v
      <4>1. n + 1 \in 1 .. Len(queries')
        BY <2>13
      <4>2. InFlight(u)'
        BY <2>10, <2>13, <3>1, <4>1 DEF InFlight
      <4> QED BY <2>2, <2>4, <3>1, <4>2
    <3>2. CASE u # v
      <4>0. queries'[n + 1].v # u
        BY <2>10, <2>13, <3>2
      <4>1. InFlight(u)' <=> InFlight(u)
        <5>1. InFlight(u)' <=> \E i \in 1 .. n + 1 : queries'[i].v = u
          BY <2>13 DEF InFlight
        <5>2. InFlight(u) <=> \E i \in 1 .. n : queries[i].v = u
          BY <2>12 DEF InFlight
        <5>3. (\E i \in 1 .. n : queries[i].v = u) <=> \E i \in 1 .. n : queries'[i].v = u
          BY <2>13
        <5>4. \A i \in 1 .. n : i \in 1 .. n + 1
          OBVIOUS
        <5>5. (\E i \in 1 .. n + 1 : queries'[i].v = u) <=> \E i \in 1 .. n : queries'[i].v = u
          BY <2>14, <4>0, <5>4
        <5> QED BY <5>1, <5>2, <5>3, <5>5
      <4> QED BY <1>1, <2>4, <2>21, <3>2, <4>1 DEF Paged
    <3> QED BY <3>1, <3>2
  <2>22. Paged'
    BY <2>4, <2>13, <2>16, <2>17, <2>19, <2>20, <2>21 DEF Paged
  <2> QED BY <2>4, <2>22 DEF PagesInv
<1> QED BY <1>3, <1>4

-----------------------------------------------------------------------------
(* A query is answered: its view has none in flight any more. *)
LEMMA AnsweredQuery ==
  ASSUME Paged, NEW i \in 1 .. Len(queries), queries' = Nav!RemoveAt(queries, i)
  PROVE  /\ queries' \in Seq(Query)
         /\ \A k \in 1 .. Len(queries') : \E m \in 1 .. Len(queries) : queries'[k] = queries[m] /\ m # i
         /\ \A j, k \in 1 .. Len(queries') : queries'[j].v = queries'[k].v => j = k
         /\ \A u : InFlight(u)' <=> InFlight(u) /\ u # queries[i].v
<1>1. /\ queries \in Seq(Query)
      /\ \A j, k \in 1 .. Len(queries) : queries[j].v = queries[k].v => j = k
  BY DEF Paged
<1>2. PICK n \in Nat : n = Len(queries)
  BY <1>1
<1>3. PICK r \in Seq(Query) :
        /\ r = Nav!RemoveAt(queries, i) /\ Len(r) = Len(queries) - 1
        /\ \A k \in 1 .. Len(queries) - 1 : r[k] = queries[IF k < i THEN k ELSE k + 1]
  BY <1>1, Removed
<1>4. /\ queries' = r /\ Len(queries') = n - 1 /\ i \in 1 .. n
      /\ \A k \in 1 .. n - 1 : queries'[k] = queries[IF k < i THEN k ELSE k + 1]
  BY <1>2, <1>3
<1>5. \A k \in 1 .. n - 1 : \/ k < i /\ k \in 1 .. n /\ queries'[k] = queries[k]
                            \/ k >= i /\ k + 1 \in 1 .. n /\ queries'[k] = queries[k + 1]
  BY <1>4
<1>6. \A k \in 1 .. n - 1 : \E m \in 1 .. n : queries'[k] = queries[m] /\ m # i
  <2> SUFFICES ASSUME NEW k \in 1 .. n - 1 PROVE \E m \in 1 .. n : queries'[k] = queries[m] /\ m # i
    OBVIOUS
  <2>1. CASE k < i /\ k \in 1 .. n /\ queries'[k] = queries[k]
    BY <2>1
  <2>2. CASE k >= i /\ k + 1 \in 1 .. n /\ queries'[k] = queries[k + 1]
    <3>1. k + 1 # i
      BY <1>4, <2>2
    <3> QED BY <2>2, <3>1
  <2> QED BY <1>5, <2>1, <2>2
<1>7. ASSUME NEW j \in 1 .. n - 1, NEW k \in 1 .. n - 1, queries'[j].v = queries'[k].v
      PROVE  j = k
  <2>1. CASE j < i /\ k < i
    BY <1>1, <1>2, <1>5, <1>7, <2>1
  <2>2. CASE j >= i /\ k >= i
    <3>1. j + 1 = k + 1
      BY <1>1, <1>2, <1>4, <1>5, <1>7, <2>2
    <3> QED BY <3>1
  <2>3. CASE j < i /\ k >= i
    <3>1. j = k + 1
      BY <1>1, <1>2, <1>4, <1>5, <1>7, <2>3
    <3> QED BY <1>4, <2>3, <3>1
  <2>4. CASE j >= i /\ k < i
    <3>1. j + 1 = k
      BY <1>1, <1>2, <1>4, <1>5, <1>7, <2>4
    <3> QED BY <1>4, <2>4, <3>1
  <2> QED BY <1>4, <2>1, <2>2, <2>3, <2>4
<1>8. ASSUME NEW u PROVE InFlight(u)' <=> InFlight(u) /\ u # queries[i].v
  <2>1. ASSUME InFlight(u)' PROVE InFlight(u) /\ u # queries[i].v
    <3>1. PICK k \in 1 .. n - 1 : queries'[k].v = u
      BY <1>4, <2>1 DEF InFlight
    <3>2. PICK m \in 1 .. n : queries'[k] = queries[m] /\ m # i
      BY <1>6
    <3> QED BY <1>1, <1>2, <1>4, <3>1, <3>2 DEF InFlight
  <2>2. ASSUME InFlight(u), u # queries[i].v PROVE InFlight(u)'
    <3>1. PICK m \in 1 .. n : queries[m].v = u
      BY <1>2, <2>2 DEF InFlight
    <3>2. m # i
      BY <2>2, <3>1
    <3>3. \E k \in 1 .. n - 1 : queries'[k] = queries[m]
      <4>1. CASE m < i
        <5>1. m \in 1 .. n - 1
          BY <1>4, <4>1
        <5> QED BY <1>5, <4>1, <5>1
      <4>2. CASE m > i
        <5>1. m - 1 \in 1 .. n - 1 /\ m - 1 >= i /\ (m - 1) + 1 = m
          BY <1>4, <4>2
        <5>2. queries'[m - 1] = queries[(m - 1) + 1]
          BY <1>4, <5>1
        <5> QED BY <5>1, <5>2
      <4> QED BY <1>4, <3>2, <4>1, <4>2
    <3> QED BY <1>4, <3>1, <3>3 DEF InFlight
  <2> QED BY <2>1, <2>2
<1> QED BY <1>2, <1>3, <1>4, <1>6, <1>7, <1>8

(* Its view is not busy, and its results are in order: nothing is left of *)
(* the query in the other views.                                          *)
LEMMA PagedAnswered ==
  ASSUME Paged, views \in Seq(SearchView), NEW i \in 1 .. Len(queries),
         queries' = Nav!RemoveAt(queries, i), NEW v, v = queries[i].v, NEW sv,
         views' \in Seq(SearchView), Len(views') = Len(views), views'[v] = sv,
         \A u \in 1 .. Len(views) : u # v => views'[u] = views[u],
         ResultsFit(sv.under, sv.results), sv.live => ~sv.busy
  PROVE  Paged'
<1>1. /\ queries \in Seq(Query)
      /\ \A m \in 1 .. Len(queries) : queries[m].v \in 1 .. Len(views)
      /\ \A j, k \in 1 .. Len(queries) : queries[j].v = queries[k].v => j = k
  BY DEF Paged
<1>2. /\ queries' \in Seq(Query)
      /\ \A k \in 1 .. Len(queries') : \E m \in 1 .. Len(queries) : queries'[k] = queries[m] /\ m # i
      /\ \A j, k \in 1 .. Len(queries') : queries'[j].v = queries'[k].v => j = k
      /\ \A u : InFlight(u)' <=> InFlight(u) /\ u # queries[i].v
  BY AnsweredQuery
<1>3. \A k \in 1 .. Len(queries') : queries'[k].v \in 1 .. Len(views')
  BY <1>1, <1>2
<1>4. \A u \in 1 .. Len(views') : ResultsFit(views'[u].under, views'[u].results)
  BY DEF Paged
<1>5. ASSUME NEW k \in 1 .. Len(queries') PROVE Awaits(queries'[k], views'[queries'[k].v].results)
  <2>1. PICK m \in 1 .. Len(queries) : queries'[k] = queries[m] /\ m # i
    BY <1>2
  <2>2. queries[m].v # v /\ queries[m].v \in 1 .. Len(views)
    BY <1>1, <2>1
  <2>3. views'[queries'[k].v] = views[queries[m].v]
    BY <2>1, <2>2
  <2> QED BY <2>1, <2>3 DEF Paged
<1>6. ASSUME NEW u \in 1 .. Len(views'), views'[u].live
      PROVE  views'[u].busy <=> InFlight(u)'
  <2>1. CASE u = v
    BY <1>2, <1>6, <2>1
  <2>2. CASE u # v
    BY <1>2, <1>6, <2>2 DEF Paged
  <2> QED BY <2>1, <2>2
<1> QED BY <1>2, <1>3, <1>4, <1>5, <1>6 DEF Paged

(* The answers of the server.                                             *)
LEMMA PageReads ==
  ASSUME PagesConstants, NEW w, NEW p, NEW g \in Nav!Pages(w, p)
  PROVE  /\ g \in Seq(1 .. Spans) /\ DOMAIN g = 1 .. Len(g)
         /\ \A k \in 1 .. Len(g) : g[k] \in 1 .. Spans /\ Nav!Reads(w, p, g[k])
         /\ Nav!Sorted(w, g) /\ Nav!Once(g)
<1>1. PICK R : R = {x \in 1 .. Spans : Nav!Reads(w, p, x)}
  OBVIOUS
<1>2. g \in UNION {[1 .. n -> R] : n \in 0 .. Lim} /\ Nav!Sorted(w, g) /\ Nav!Once(g)
  BY <1>1, Zenon DEF Nav!Pages
<1>3. PICK n \in 0 .. Lim : g \in [1 .. n -> R]
  BY <1>2
<1>4. n \in Nat
  BY DEF PagesConstants
<1>5. g \in Seq(R) /\ Len(g) = n /\ \A k \in 1 .. n : g[k] \in R
  BY <1>3, <1>4, SeqDef
<1>6. \A k \in 1 .. n : g[k] \in 1 .. Spans /\ Nav!Reads(w, p, g[k])
  BY <1>1, <1>5
<1>7. g \in Seq(1 .. Spans)
  <2>1. g \in [1 .. n -> 1 .. Spans]
    BY <1>3, <1>6
  <2> QED BY <1>4, <2>1, SeqDef
<1> QED BY <1>2, <1>3, <1>5, <1>6, <1>7

(* What a page has, matches, and the source goes on from the last result. *)
LEMMA PageMatches ==
  ASSUME PagesConstants, NEW w \in Seq(Preds), NEW p \in 0 .. Spans, p # 0 => Nav!Matches(w, p),
         NEW x \in 1 .. Spans, Nav!Reads(w, p, x)
  PROVE  Nav!Matches(w, x)
<1>1. CASE p = 0
  BY <1>1 DEF Nav!Reads
<1>2. CASE p # 0
  <2>1. /\ \A k \in DOMAIN w : k = Nav!SourceAt(w) \/ x \in PredSpans[w[k]]
        /\ \/ Nav!SourceOp(w) = "le" /\ Nav!ValueOf(w, x) <= Nav!ValueOf(w, p)
           \/ Nav!SourceOp(w) = "gt" /\ Nav!ValueOf(w, x) > Nav!ValueOf(w, p)
    BY <1>2 DEF Nav!Reads
  <2>2. p \in 1 .. Spans /\ \A k \in DOMAIN w : p \in PredSpans[w[k]]
    BY <1>2 DEF Nav!Matches
  <2>3. ASSUME NEW k \in DOMAIN w, k = Nav!SourceAt(w) PROVE x \in PredSpans[w[k]]
    <3>1. k \in 1 .. Len(w) /\ k # 0 /\ w[k] \in Preds
      BY <2>3
    <3>2. /\ Nav!SourceOp(w) = PredOp[w[k]]
          /\ Nav!ValueOf(w, x) = PredValue[w[k]][x] /\ Nav!ValueOf(w, p) = PredValue[w[k]][p]
      BY <2>2, <2>3, <3>1, SourceValue
    <3>3. /\ PredOp[w[k]] = "gt" /\ PredValue[w[k]][x] > PredValue[w[k]][p] => x \in PredSpans[w[k]]
          /\ PredOp[w[k]] = "le" /\ PredValue[w[k]][x] <= PredValue[w[k]][p] => x \in PredSpans[w[k]]
      BY <2>2, <3>1 DEF PagesConstants, Nav!PredsFit
    <3> QED BY <2>1, <3>2, <3>3
  <2> QED BY <2>1, <2>3 DEF Nav!Matches
<1> QED BY <1>1, <1>2

(* A page of results comes after the results that it was asked for.       *)
LEMMA PageAfter ==
  ASSUME PagesConstants, NEW w \in Seq(Preds), NEW p \in 0 .. Spans, NEW s \in Seq(1 .. Spans),
         Awaited(w, p, s), NEW g \in Nav!Pages(w, p)
  PROVE  Listed(w, s \o g)
<1>1. /\ \A k \in 1 .. Len(g) : g[k] \in 1 .. Spans /\ Nav!Reads(w, p, g[k])
      /\ Nav!Sorted(w, g) /\ Nav!Once(g) /\ DOMAIN g = 1 .. Len(g) /\ g \in Seq(1 .. Spans)
  BY PageReads
<1>2. /\ Listed(w, s) /\ (p = 0 => s = <<>>)
      /\ (p # 0 => Nav!Matches(w, p) /\ \A k \in 1 .. Len(s) : Before(w, s[k], p))
  BY Zenon DEF Awaited
<1>3. \A k \in 1 .. Len(g) : Nav!Matches(w, g[k])
  BY <1>1, <1>2, PageMatches
<1>4. CASE p = 0
  <2>1. s \o g = g
    BY <1>1, <1>2, <1>4
  <2> QED BY <1>1, <1>3, <2>1, Zenon DEF Listed
<1>5. CASE p # 0
  <2>1. PICK r : r = s \o g
    OBVIOUS
  <2>2. PICK l \in Nat, n \in Nat : l = Len(s) /\ n = Len(g)
    OBVIOUS
  <2>3. /\ Len(r) = l + n /\ DOMAIN r = 1 .. l + n
        /\ \A k \in 1 .. l + n : r[k] = IF k <= l THEN s[k] ELSE g[k - l]
    BY <2>1, <2>2, ConcatProperties
  <2>4. \A k \in 1 .. l + n : \/ k <= l /\ k \in 1 .. l /\ r[k] = s[k]
                              \/ k > l /\ k - l \in 1 .. n /\ r[k] = g[k - l]
    BY <2>3
  <2>5. p \in 1 .. Spans /\ \A x \in 1 .. Spans : Nav!ValueOf(w, x) \in Int
    BY <1>5, SourceValue
  <2>6. \A k \in 1 .. Len(r) : Nav!Matches(w, r[k])
    BY <1>2, <1>3, <2>2, <2>3, <2>4 DEF Listed
  <2>7. ASSUME NEW i \in 1 .. l, NEW j \in 1 .. n
        PROVE  /\ Before(w, s[i], g[j])
               /\ Nav!SourceOp(w) = "le" \/ s[i] # g[j]
    <3>1. s[i] \in 1 .. Spans /\ g[j] \in 1 .. Spans /\ Before(w, s[i], p) /\ Nav!Reads(w, p, g[j])
      <4>1. s[i] \in 1 .. Spans /\ i \in 1 .. Len(s) /\ j \in 1 .. Len(g)
        <5>1. \A k \in 1 .. Len(s) : s[k] \in 1 .. Spans
          BY ElementOfSeq
        <5>2. i \in 1 .. Len(s) /\ j \in 1 .. Len(g)
          BY <2>2
        <5> QED BY <5>1, <5>2, Zenon
      <4>2. g[j] \in 1 .. Spans /\ Nav!Reads(w, p, g[j])
        BY <1>1, <4>1
      <4>3. Before(w, s[i], p)
        BY <1>2, <1>5, <4>1, Zenon
      <4> QED BY <4>1, <4>2, <4>3
    <3>2. PICK a \in Int, b \in Int, m \in Int :
            a = Nav!ValueOf(w, s[i]) /\ b = Nav!ValueOf(w, g[j]) /\ m = Nav!ValueOf(w, p)
      BY <2>5, <3>1
    <3>3. CASE Nav!SourceOp(w) = "le"
      <4>1. a >= m /\ b <= m
        BY <1>5, <3>1, <3>2, <3>3 DEF Before, Nav!Reads
      <4>2. a >= b
        BY <4>1
      <4> QED BY <3>2, <3>3, <4>2 DEF Before
    <3>4. CASE Nav!SourceOp(w) # "le"
      <4>1. a <= m /\ b > m
        BY <1>5, <3>1, <3>2, <3>4 DEF Before, Nav!Reads
      <4>2. a <= b /\ a # b
        BY <4>1
      <4>3. s[i] # g[j]
        BY <3>2, <4>2
      <4> QED BY <3>2, <3>4, <4>2, <4>3 DEF Before
    <3> QED BY <3>3, <3>4
  <2>8. Nav!Sorted(w, s) /\ (Nav!SourceOp(w) = "le" \/ Nav!Once(s)) /\ DOMAIN s = 1 .. l /\ DOMAIN g = 1 .. n
    BY <1>1, <1>2, <2>2 DEF Listed
  <2>9. ASSUME NEW i \in 1 .. l + n, NEW j \in 1 .. l + n, i < j
        PROVE  Before(w, r[i], r[j])
    <3>1. CASE j <= l
      <4>1. i \in 1 .. l /\ j \in 1 .. l /\ r[i] = s[i] /\ r[j] = s[j]
        BY <2>3, <2>9, <3>1
      <4>2. Before(w, s[i], s[j])
        BY <2>8, <2>9, <4>1, Zenon DEF Before, Nav!Sorted
      <4> QED BY <4>1, <4>2
    <3>2. CASE i <= l /\ j > l
      <4>1. i \in 1 .. l /\ j - l \in 1 .. n /\ r[i] = s[i] /\ r[j] = g[j - l]
        BY <2>3, <3>2
      <4> QED BY <2>7, <4>1
    <3>3. CASE i > l
      <4>1. PICK h \in 1 .. n, k \in 1 .. n : h = i - l /\ k = j - l /\ h < k
        BY <2>9, <3>3
      <4>2. r[i] = g[h] /\ r[j] = g[k]
        BY <2>3, <2>9, <3>3, <4>1
      <4>3. Before(w, g[h], g[k])
        BY <1>1, <2>8, <4>1, Zenon DEF Before, Nav!Sorted
      <4> QED BY <4>2, <4>3
    <3> QED BY <2>9, <3>1, <3>2, <3>3
  <2>10. Nav!Sorted(w, r)
    BY <2>3, <2>9, Zenon DEF Before, Nav!Sorted
  <2>11. Nav!SourceOp(w) = "le" \/ Nav!Once(r)
    <3> SUFFICES ASSUME Nav!SourceOp(w) # "le", NEW i \in 1 .. l + n, NEW j \in 1 .. l + n, i < j
                 PROVE  r[i] # r[j]
      <4>1. \A i, j \in 1 .. l + n : i = j \/ i < j \/ j < i
        OBVIOUS
      <4>2. \A i, j \in DOMAIN r : i = j \/ i < j \/ j < i
        BY <2>3, <4>1
      <4> QED BY <2>3, <4>2, Zenon DEF Nav!Once
    <3>1. CASE j <= l
      <4>1. i \in 1 .. l /\ j \in 1 .. l /\ r[i] = s[i] /\ r[j] = s[j] /\ i # j
        BY <2>3, <3>1
      <4> QED BY <2>8, <4>1 DEF Nav!Once
    <3>2. CASE i <= l /\ j > l
      <4>1. i \in 1 .. l /\ j - l \in 1 .. n /\ r[i] = s[i] /\ r[j] = g[j - l]
        BY <2>3, <3>2
      <4> QED BY <2>7, <4>1
    <3>3. CASE i > l
      <4>1. PICK h \in 1 .. n, k \in 1 .. n : h = i - l /\ k = j - l /\ h # k
        BY <3>3
      <4>2. r[i] = g[h] /\ r[j] = g[k]
        BY <2>3, <3>3, <4>1
      <4> QED BY <1>1, <2>8, <4>1, <4>2, Zenon DEF Nav!Once
    <3> QED BY <3>1, <3>2, <3>3
  <2> QED BY <2>1, <2>6, <2>10, <2>11, Zenon DEF Listed
<1> QED BY <1>4, <1>5

LEMMA PagesAnswer ==
  ASSUME PagesConstants, PagesInv, NEW i \in DOMAIN queries,
         \/ Nav!SearchFails(i)
         \/ \E g \in Nav!Pages(queries[i].preds, queries[i].prev) : Nav!SearchArrives(i, g)
  PROVE  PagesInv'
<1>1. /\ Bar /\ PageKept /\ Agrees /\ Paged /\ views \in Seq(SearchView)
      /\ Len(views) \in Nat /\ queries \in Seq(Query) /\ i \in 1 .. Len(queries)
  BY DEF PagesInv, PageKept, Paged
<1>2. PICK v \in 1 .. Len(views) : v = queries[i].v
  BY <1>1 DEF Paged
<1>3. PICK x \in SearchView : x = views[v]
  BY <1>1
<1>4. PICK q \in Query : q = queries[i]
  BY <1>1
<1>a. q.preds \in Seq(Preds) /\ q.prev \in 0 .. Spans /\ q.under \in Seq(Preds) /\ q.v = v
  BY <1>2, <1>4 DEF Query
<1>5. PICK s \in Seq(1 .. Spans) : s = x.results
  BY DEF SearchView
<1>6. Awaits(q, s)
  BY <1>1, <1>2, <1>3, <1>4, <1>5 DEF Paged
<1>7. PICK sv \in SearchView :
        /\ views' = [views EXCEPT ![v] = sv] /\ (sv.live <=> x.live) /\ (sv.live => ~sv.busy)
        /\ ResultsFit(sv.under, sv.results)
  <2>1. ASSUME NEW g \in Nav!Pages(q.preds, q.prev), Nav!SearchArrives(i, g)
        PROVE  \E sv \in SearchView :
                 /\ views' = [views EXCEPT ![v] = sv] /\ (sv.live <=> x.live) /\ (sv.live => ~sv.busy)
                 /\ ResultsFit(sv.under, sv.results)
    <3>1. PICK r \in Seq(1 .. Spans) : r = s \o g
      <4>1. g \in Seq(1 .. Spans)
        BY PageReads
      <4>2. s \o g \in Seq(1 .. Spans)
        BY <4>1
      <4> QED BY <4>2
    <3>r. ResultsFit(q.under, r)
      <4> SUFFICES ASSUME q.under # <<>> PROVE Listed(q.under, r)
        BY DEF ResultsFit
      <4>1. q.under = q.preds /\ Awaited(q.preds, q.prev, s)
        BY <1>6, Zenon DEF Awaits
      <4> QED BY <1>a, <3>1, <4>1, PageAfter
    <3>2. PICK b \in BOOLEAN : b = (~x.live /\ s = <<>>)
      OBVIOUS
    <3>3. PICK sv : sv = [x EXCEPT !.results = r, !.under = q.under, !.busy = b]
      OBVIOUS
    <3>4. /\ sv \in SearchView /\ (sv.live <=> x.live) /\ (sv.live => ~sv.busy)
          /\ sv.results = r /\ sv.under = q.under
      BY <1>a, <3>2, <3>3 DEF SearchView
    <3>5. views' = [views EXCEPT ![v].results = @ \o g, ![v].under = q.under, ![v].busy = b]
      BY <1>a, <1>3, <1>4, <1>5, <2>1, <3>2 DEF Nav!SearchArrives
    <3>6. views' = [views EXCEPT ![v] = sv]
      BY <1>1, <1>3, <1>5, <3>1, <3>3, <3>5
    <3> QED BY <3>r, <3>4, <3>6
  <2>2. CASE Nav!SearchFails(i)
    <3>1. PICK r \in Seq(1 .. Spans) : r = <<>>
      <4>1. <<>> \in Seq(1 .. Spans)
        OBVIOUS
      <4> QED BY <4>1
    <3>l. \A w : ResultsFit(w, r)
      BY <3>1 DEF ResultsFit, Listed, Nav!Sorted, Nav!Once
    <3>2. PICK sv : sv = [x EXCEPT !.results = r, !.busy = FALSE]
      OBVIOUS
    <3>3. sv \in SearchView /\ (sv.live <=> x.live) /\ (sv.live => ~sv.busy) /\ sv.results = r
      BY <3>2 DEF SearchView
    <3>4. views' = [views EXCEPT ![v] = sv]
      BY <1>1, <1>2, <1>3, <2>2, <3>1, <3>2 DEF Nav!SearchFails
    <3> QED BY <3>l, <3>3, <3>4
  <2> QED BY <1>4, <2>1, <2>2
<1>8. Nav!Elsewhere /\ queries' = Nav!RemoveAt(queries, i)
  BY DEF Nav!SearchArrives, Nav!SearchFails
<1>9. /\ Bar' /\ PageKept' /\ Agrees'
      /\ views' \in Seq(SearchView) /\ Len(views') = Len(views) /\ views'[v] = sv
      /\ \A u \in 1 .. Len(views) : u # v => views'[u] = views[u]
  BY <1>1, <1>3, <1>7, <1>8, ViewChanged
<1>10. Paged'
  BY <1>1, <1>2, <1>7, <1>8, <1>9, PagedAnswered
<1> QED BY <1>9, <1>10 DEF PagesInv

-----------------------------------------------------------------------------
LEMMA PagesStartUp ==
  ASSUME Nav!Init
  PROVE  PagesInv
<1>1. /\ pos = 1 /\ pending = 0 /\ started = FALSE /\ handlers = Nav!Bound(<<>>)
      /\ view = Nav!None /\ nav = "none" /\ fetches = 0 /\ views = <<>>
      /\ delegated = {} /\ resize = {} /\ queries = <<>>
      /\ \E h \in Hashes : entries = <<h>>
  BY DEF Nav!Init, Nav!HistoryInit
<1>2. Bar
  <2>1. PICK h \in Hashes : entries = <<h>>
    BY <1>1
  <2>2. Address
    BY <1>1, <2>1 DEF Address
  <2> QED BY <1>1, <2>2 DEF Bar
<1>3. DOMAIN views = {}
  BY <1>1
<1>4. Nav!Live = {}
  BY <1>3 DEF Nav!Live
<1>5. Nav!Kind = "none"
  BY <1>1, <1>3 DEF Nav!Kind, Nav!None, Nav!About
<1>6. PageKept
  BY <1>1, <1>4, <1>5 DEF PageKept, Nav!None, Nav!About
<1>7. Agrees
  BY <1>1 DEF Agrees
<1>8. Paged
  BY <1>1 DEF Paged, InFlight
<1> QED BY <1>2, <1>6, <1>7, <1>8 DEF PagesInv

(* Every step of the application preserves the invariant. *)
LEMMA PagesKeep ==
  ASSUME PagesConstants, PagesInv, [Nav!Next]_Nav!vars
  PROVE  PagesInv'
<1>1. CASE Nav!Start \/ Nav!HashChange \/ Nav!UserMoves \/ Nav!AboutArrives \/ Nav!AboutFails
  BY <1>1, PagesStart, PagesHashChange, PagesUserMoves, PagesAbout
<1>2. CASE \E v \in DOMAIN views :
             \/ Nav!doSearch(v)
             \/ \E w \in Preds : Nav!AddPredicate(v, w)
             \/ \E k \in DOMAIN views[v].preds :
                  Nav!RemovePredicate(v, k) \/ \E w \in Preds : Nav!EditPredicate(v, k, w)
             \/ \E gone \in SUBSET DOMAIN views[v].results : Nav!Clear(v, gone)
  BY <1>2, PagesPredicates, PagesDoSearch, PagesClear
<1>3. CASE \E i \in DOMAIN queries :
             \/ Nav!SearchFails(i)
             \/ \E page \in Nav!Pages(queries[i].preds, queries[i].prev) : Nav!SearchArrives(i, page)
  BY <1>3, PagesAnswer
<1>4. CASE UNCHANGED Nav!vars
  <2>1. UNCHANGED <<entries, pos, pending, started, fragment, handlers, shown>>
        /\ UNCHANGED <<view, nav, fetches, views, delegated, resize, queries, excuse>>
    BY <1>4 DEF Nav!vars, Nav!historyVars, Nav!appVars
  <2>2. Bar /\ PageKept /\ Agrees /\ Paged
    BY DEF PagesInv
  <2>3. Bar'
    BY <2>1, <2>2 DEF Bar, Address
  <2>4. fetches' \in Nat
    BY <2>1, <2>2 DEF PageKept
  <2>5. PageKept' /\ Paged'
    BY <2>1, <2>2, <2>4, PageSame, PagedSame
  <2>6. Nav!Kind' = Nav!Kind
    BY <2>1 DEF Nav!Kind, Nav!About
  <2>7. Agrees'
    BY <2>1, <2>2, <2>6 DEF Agrees
  <2> QED BY <2>3, <2>5, <2>7 DEF PagesInv
<1> QED BY <1>1, <1>2, <1>3, <1>4 DEF Nav!Next

(* Whatever order clicks, back and forward, hashchange events and answers *)
(* of the server come in, one view has the page, with its events and its  *)
(* entry in the navigation bar, and it is the one of the address bar once *)
(* all events and answers have come, unless the about page came late or   *)
(* did not come (RightPage).                                              *)
THEOREM PagesFollowAddress ==
  ASSUME PagesConstants
  PROVE  Nav!Spec => []RightPage
<1>1. Nav!Init => PagesInv
  BY PagesStartUp
<1>2. PagesInv /\ [Nav!Next]_Nav!vars => PagesInv'
  BY PagesKeep
<1>3. PagesInv => RightPage
  BY DEF PagesInv, Bar, PageKept, Agrees, RightPage, Nav!RightPage, Nav!RightView, Nav!Synced, Nav!Strip0, Nav!location
<1> QED BY <1>1, <1>2, <1>3, PTL DEF Nav!Spec

-----------------------------------------------------------------------------
(***************************************************************************)
(* The search criteria.                                                    *)
(***************************************************************************)
CriteriaConstants == LastDate \in Nat /\ MaxInt64 \in Nat /\ LastDate < MaxInt64

Timed == {"begin", "end", "duration"}

(* The names of the menu and the types that parsePType gives them. *)
LEMMA MenuTypes ==
  ASSUME NEW n \in DOMAIN Criteria!PTypes
  PROVE  LET p == Criteria!PTypes[n] IN
         \/ n = "Began after" /\ p.field = "begin" /\ p.op = "gt"
         \/ n = "Began at or before" /\ p.field = "begin" /\ p.op = "le"
         \/ n = "Ended after" /\ p.field = "end" /\ p.op = "gt"
         \/ n = "Ended at or before" /\ p.field = "end" /\ p.op = "le"
         \/ n = "Description contains" /\ p.field = "description" /\ p.op = "cn"
         \/ n = "Description is exactly" /\ p.field = "description" /\ p.op = "eq"
         \/ n = "Duration is longer than" /\ p.field = "duration" /\ p.op = "gt"
         \/ n = "Duration is at most" /\ p.field = "duration" /\ p.op = "le"
         \/ n = "Span ID is" /\ p.field = "spanid" /\ p.op = "eq"
         \/ n = "ProcessId contains" /\ p.field = "processid" /\ p.op = "cn"
         \/ n = "ProcessId is exactly" /\ p.field = "processid" /\ p.op = "eq"
<1>1. n \in {"Began after", "Began at or before", "Ended after", "Ended at or before",
             "Description contains", "Description is exactly", "Duration is longer than",
             "Duration is at most", "Span ID is", "ProcessId contains", "ProcessId is exactly"}
  BY DEF Criteria!PTypes
<1>2. CASE n = "Began after"
  BY <1>2 DEF Criteria!PTypes, Criteria!PType
<1>3. CASE n = "Began at or before"
  BY <1>3 DEF Criteria!PTypes, Criteria!PType
<1>4. CASE n = "Ended after"
  BY <1>4 DEF Criteria!PTypes, Criteria!PType
<1>5. CASE n = "Ended at or before"
  BY <1>5 DEF Criteria!PTypes, Criteria!PType
<1>6. CASE n = "Description contains"
  BY <1>6 DEF Criteria!PTypes, Criteria!PType
<1>7. CASE n = "Description is exactly"
  BY <1>7 DEF Criteria!PTypes, Criteria!PType
<1>8. CASE n = "Duration is longer than"
  BY <1>8 DEF Criteria!PTypes, Criteria!PType
<1>9. CASE n = "Duration is at most"
  BY <1>9 DEF Criteria!PTypes, Criteria!PType
<1>10. CASE n = "Span ID is"
  BY <1>10 DEF Criteria!PTypes, Criteria!PType
<1>11. CASE n = "ProcessId contains"
  BY <1>11 DEF Criteria!PTypes, Criteria!PType
<1>12. CASE n = "ProcessId is exactly"
  BY <1>12 DEF Criteria!PTypes, Criteria!PType
<1> QED BY <1>1, <1>2, <1>3, <1>4, <1>5, <1>6, <1>7, <1>8, <1>9, <1>10, <1>11, <1>12

(* The texts that a reader may enter: a date is no later than the last one,*)
(* a number is not negative.                                               *)
LEMMA EnteredTexts ==
  ASSUME CriteriaConstants, NEW t \in Criteria!Texts
  PROVE  /\ t \in [chars : {"none", "digits", "date", "hex", "other"}, len : Nat, prefixes : 0 .. 2, n : Int]
         /\ t.chars = "date" => t.n <= LastDate
         /\ t.chars = "digits" => t.n >= 0
         /\ t.chars = "hex" => t.n = 0
BY DEF CriteriaConstants, Criteria!Texts, Criteria!Empty, Criteria!Text

(* Times: parseDate throws or returns the time, as digits when it is not   *)
(* before 1970.                                                            *)
LEMMA TimesNormalized ==
  ASSUME CriteriaConstants, NEW t \in Criteria!Texts, NEW field \in {"begin", "end"}, NEW op,
         NEW p, p.field = field,
         ~Criteria!normalize(field, t).thrown, t.n <= LastDate
  PROVE  LET out == Criteria!normalize(field, t) IN
         /\ Criteria!Accepted(p, out.val)
         /\ out.val.n = t.n
         /\ t.n >= 0 => Criteria!normalize(field, out.val) = out
<1>1. \A x : Criteria!normalize(field, x) = Criteria!parseDate(x)
  BY DEF Criteria!normalize
<1>2. Criteria!parseDate(t) = Criteria!Returns(Criteria!valueOf(t.n))
  BY <1>1 DEF Criteria!parseDate, Criteria!Throws
<1>3. t.n \in Int
  BY EnteredTexts
<1>4. PICK v : v = Criteria!valueOf(t.n)
  OBVIOUS
<1>5. Criteria!normalize(field, t).val = v
  BY <1>1, <1>2, <1>4 DEF Criteria!Returns
<1>6. CASE t.n < 0
  <2>1. v.chars = "other" /\ v.n = t.n
    BY <1>3, <1>4, <1>6 DEF Criteria!valueOf, Criteria!Text, CriteriaConstants
  <2> QED BY <1>3, <1>5, <1>6, <2>1 DEF Criteria!Accepted
<1>7. CASE t.n >= 0
  <2>1. v = [chars |-> "digits", len |-> 1, prefixes |-> 0, n |-> t.n]
    BY <1>3, <1>4, <1>7 DEF Criteria!valueOf, Criteria!Text, CriteriaConstants
  <2>2. v.n = t.n /\ v.n <= MaxInt64 /\ v.chars = "digits" /\ v.prefixes = 0
    BY <2>1, <1>3 DEF CriteriaConstants
  <2>3. Criteria!Accepted(p, v)
    BY <2>2 DEF Criteria!Accepted, Criteria!AllDigits
  <2>4. Criteria!parseDate(v) = Criteria!Returns(v)
    BY <1>4, <2>2 DEF Criteria!parseDate, Criteria!AllDigits
  <2> QED BY <1>1, <1>2, <1>4, <1>5, <2>2, <2>3, <2>4
<1> QED BY <1>3, <1>6, <1>7

(* The other fields: the number, the text or the id with one "0x" less. *)
LEMMA OthersNormalized ==
  ASSUME CriteriaConstants, NEW t \in Criteria!Texts,
         NEW field \in {"duration", "spanid", "description", "processid"},
         NEW p, p.field = field,
         ~Criteria!normalize(field, t).thrown, field = "duration" => t.n <= MaxInt64
  PROVE  LET out == Criteria!normalize(field, t) IN
         /\ Criteria!Accepted(p, out.val)
         /\ out.val.n = t.n
         /\ Criteria!normalize(field, out.val) = out
<1>1. t \in [chars : {"none", "digits", "date", "hex", "other"}, len : Nat, prefixes : 0 .. 2, n : Int]
  BY EnteredTexts
<1>2. CASE field = "duration"
  <2>1. \A x : Criteria!normalize(field, x) = Criteria!checkStringIsPositiveWholeNumber(x)
    BY <1>2 DEF Criteria!normalize
  <2>2. Criteria!AllDigits(t) /\ Criteria!normalize(field, t) = Criteria!Returns(t)
    BY <2>1 DEF Criteria!checkStringIsPositiveWholeNumber, Criteria!Throws
  <2>3. Criteria!Returns(t).val = t
    BY DEF Criteria!Returns
  <2>4. Criteria!Accepted(p, t)
    BY <1>2, <2>2 DEF Criteria!Accepted
  <2> QED BY <2>2, <2>3, <2>4
<1>3. CASE field = "spanid"
  <2>1. \A x : Criteria!normalize(field, x) = Criteria!normalizeSpanId(x)
    BY <1>3 DEF Criteria!normalize
  <2>2. PICK s : s = [t EXCEPT !.prefixes = IF t.prefixes > 0 THEN t.prefixes - 1 ELSE 0]
    OBVIOUS
  <2>3. s.len = t.len /\ s.chars = t.chars /\ s.n = t.n /\ s.prefixes \in 0 .. 1
    BY <1>1, <2>2
  <2>4. Criteria!normalizeSpanId(t) =
          IF s.len + 2 * s.prefixes # 16 \/ s.prefixes > 0 \/ s.chars \notin {"digits", "hex"}
          THEN Criteria!Throws ELSE Criteria!Returns(s)
    BY <2>2 DEF Criteria!normalizeSpanId
  <2>5. /\ Criteria!normalizeSpanId(t) = Criteria!Returns(s)
        /\ s.len + 2 * s.prefixes = 16 /\ ~(s.prefixes > 0) /\ s.chars \in {"digits", "hex"}
    BY <2>1, <2>4 DEF Criteria!Throws
  <2>6. Criteria!Returns(s).val = s /\ s.prefixes = 0 /\ s.len = 16
    BY <1>1, <2>3, <2>5 DEF Criteria!Returns
  <2>7. Criteria!Accepted(p, s)
    BY <1>3, <2>5, <2>6 DEF Criteria!Accepted
  <2>8. [s EXCEPT !.prefixes = IF s.prefixes > 0 THEN s.prefixes - 1 ELSE 0] = s
    <3>1. s \in [chars : {"none", "digits", "date", "hex", "other"}, len : Nat, prefixes : 0 .. 2, n : Int]
      BY <1>1, <2>2
    <3>2. (IF s.prefixes > 0 THEN s.prefixes - 1 ELSE 0) = s.prefixes
      BY <2>6
    <3> QED BY <3>1, <3>2
  <2>9. Criteria!normalizeSpanId(s) = Criteria!Returns(s)
    BY <2>5, <2>6, <2>8 DEF Criteria!normalizeSpanId
  <2> QED BY <2>1, <2>3, <2>5, <2>6, <2>7, <2>9
<1>4. CASE field \in {"description", "processid"}
  <2>1. \A x : Criteria!normalize(field, x) = Criteria!checkStringIsNotEmpty(x)
    BY <1>4 DEF Criteria!normalize
  <2>2. Criteria!normalize(field, t) = Criteria!Returns(t)
    BY <2>1 DEF Criteria!checkStringIsNotEmpty, Criteria!Throws
  <2>3. Criteria!Returns(t).val = t
    BY DEF Criteria!Returns
  <2>4. Criteria!Accepted(p, t)
    BY <1>4 DEF Criteria!Accepted
  <2> QED BY <2>2, <2>3, <2>4
<1> QED BY <1>2, <1>3, <1>4

(* The default of a time or a duration is accepted as it is, that of an    *)
(* other field is not.                                                     *)
LEMMA DefaultsNormalized ==
  ASSUME CriteriaConstants,
         NEW field \in {"begin", "end", "duration", "spanid", "description", "processid"}
  PROVE  Criteria!normalize(field, Criteria!getDefaultValue(field, LastDate)).thrown
           <=> field \notin Timed
<1>1. CASE field \in {"begin", "end"}
  <2>1. PICK t : t = Criteria!getDefaultValue(field, LastDate)
    OBVIOUS
  <2>2. t.chars = "date"
    BY <1>1, <2>1 DEF Criteria!getDefaultValue, Criteria!Text
  <2>3. Criteria!normalize(field, t) = Criteria!Returns(Criteria!valueOf(t.n))
    BY <1>1, <2>2 DEF Criteria!normalize, Criteria!parseDate
  <2> QED BY <1>1, <2>1, <2>3 DEF Criteria!Returns, Timed
<1>2. CASE field = "duration"
  <2>1. PICK t : t = Criteria!getDefaultValue(field, LastDate)
    OBVIOUS
  <2>2. t.chars = "digits" /\ t.prefixes = 0
    BY <1>2, <2>1 DEF Criteria!getDefaultValue, Criteria!Text
  <2>3. Criteria!normalize(field, t) = Criteria!Returns(t)
    BY <1>2, <2>2 DEF Criteria!normalize, Criteria!checkStringIsPositiveWholeNumber, Criteria!AllDigits
  <2> QED BY <1>2, <2>1, <2>3 DEF Criteria!Returns, Timed
<1>3. CASE field \in {"spanid", "description", "processid"}
  <2>1. Criteria!getDefaultValue(field, LastDate) = Criteria!Empty
    BY <1>3 DEF Criteria!getDefaultValue
  <2>2. CASE field = "spanid"
    <3>1. PICK s : s = [Criteria!Empty EXCEPT !.prefixes = IF Criteria!Empty.prefixes > 0 THEN Criteria!Empty.prefixes - 1 ELSE 0]
      OBVIOUS
    <3>2. s.len = 0 /\ s.prefixes = 0
      BY <3>1 DEF Criteria!Empty
    <3>3. Criteria!normalizeSpanId(Criteria!Empty) = Criteria!Throws
      BY <3>1, <3>2 DEF Criteria!normalizeSpanId
    <3>4. Criteria!normalize(field, Criteria!Empty) = Criteria!Throws
      BY <2>2, <3>3 DEF Criteria!normalize
    <3> QED BY <2>1, <2>2, <3>4 DEF Criteria!Throws, Timed
  <2>3. CASE field \in {"description", "processid"}
    <3>1. Criteria!normalize(field, Criteria!Empty) = Criteria!Throws
      BY <2>3 DEF Criteria!normalize, Criteria!checkStringIsNotEmpty
    <3> QED BY <2>1, <2>3, <3>1 DEF Criteria!Throws, Timed
  <2> QED BY <1>3, <2>2, <2>3
<1> QED BY <1>1, <1>2, <1>3

(* Whatever text is entered for whatever criterion, normalize throws or    *)
(* returns what htraced reads, with the same time, number or id, and would *)
(* not change it again; no two types are the same query (Normalized).      *)
LEMMA CriteriaNormalized ==
  ASSUME CriteriaConstants, Criteria!Init
  PROVE  Criteria!Normalized
<1>1. name \in DOMAIN Criteria!PTypes /\ text \in Criteria!Texts
  BY DEF Criteria!Init
<1>2. PICK p : p = Criteria!PTypes[name]
  OBVIOUS
<1>3. PICK out : out = Criteria!normalize(p.field, text)
  OBVIOUS
<1>4. p.field \in {"begin", "end", "duration", "spanid", "description", "processid"}
  BY <1>1, <1>2, MenuTypes
<1>5. ~out.thrown /\ (\/ p.field \notin Timed
                      \/ text.n <= (IF p.field = "duration" THEN MaxInt64 ELSE LastDate))
        => /\ Criteria!Accepted(p, out.val)
           /\ out.val.n = text.n
           /\ text.n >= 0 => Criteria!normalize(p.field, out.val) = out
  <2>1. CASE p.field \in {"begin", "end"}
    BY <1>1, <1>3, <2>1, TimesNormalized DEF Timed
  <2>2. CASE p.field \notin {"begin", "end"}
    BY <1>1, <1>3, <1>4, <2>2, OthersNormalized DEF Timed
  <2> QED BY <2>1, <2>2
<1>6. Criteria!normalize(p.field, Criteria!getDefaultValue(p.field, LastDate)).thrown
        <=> p.field \notin Timed
  BY <1>4, DefaultsNormalized
<1>7. ASSUME NEW other \in DOMAIN Criteria!PTypes \ {name}
      PROVE  Criteria!PTypes[other] # p
  <2>1. PICK q : q = Criteria!PTypes[other]
    OBVIOUS
  <2>2. p.field # q.field \/ p.op # q.op
    BY <1>1, <1>2, <2>1, MenuTypes
  <2> QED BY <2>1, <2>2
<1> QED BY <1>2, <1>3, <1>5, <1>6, <1>7 DEF Criteria!Normalized, Timed

-----------------------------------------------------------------------------
(* However searches, clears, failures, changes of the criteria and of the  *)
(* page interleave with the answers to queries, results that a search view *)
(* got for one list of criteria match these, come in the order of their    *)
(* source and, unless that is an at-most criterion, once; a view that is   *)
(* on the page is busy exactly while a query of it is under way; and the   *)
(* criteria are what was entered, in a form that htraced reads             *)
(* (SearchPages).                                                          *)
THEOREM ResultsInOrder ==
  ASSUME PagesConstants, CriteriaConstants
  PROVE  Nav!Spec /\ [](part = "criteria" => Criteria!Init) => []SearchPages
<1>1. Nav!Init => PagesInv
  BY PagesStartUp
<1>2. PagesInv /\ [Nav!Next]_Nav!vars => PagesInv'
  BY PagesKeep
<1>3. PagesInv => Nav!SearchPages
  <2> SUFFICES ASSUME PagesInv, NEW v \in DOMAIN views
               PROVE  LET r == views[v].results
                          q == views[v].under
                      IN /\ q # <<>> => /\ \A i \in DOMAIN r : Nav!Matches(q, r[i])
                                        /\ Nav!Sorted(q, r)
                                        /\ Nav!SourceOp(q) = "le" \/ Nav!Once(r)
                         /\ views[v].live => (views[v].busy <=> \E i \in DOMAIN queries : queries[i].v = v)
    BY DEF Nav!SearchPages
  <2>1. /\ Paged /\ views \in Seq(SearchView) /\ queries \in Seq(Query) /\ v \in 1 .. Len(views)
    BY DEF PagesInv, PageKept, Paged
  <2>2. views[v].results \in Seq(1 .. Spans)
    <3>1. views[v] \in SearchView
      BY <2>1
    <3> QED BY <3>1 DEF SearchView
  <2>3. DOMAIN views[v].results = 1 .. Len(views[v].results) /\ DOMAIN queries = 1 .. Len(queries)
    BY <2>1, <2>2
  <2>4. ResultsFit(views[v].under, views[v].results) /\ (views[v].live => (views[v].busy <=> InFlight(v)))
    BY <2>1 DEF Paged
  <2>5. InFlight(v) <=> \E i \in DOMAIN queries : queries[i].v = v
    BY <2>3 DEF InFlight
  <2> QED BY <2>3, <2>4, <2>5, Zenon DEF ResultsFit, Listed
<1>4. PagesInv /\ (part = "criteria" => Criteria!Init) => SearchPages
  BY <1>3, CriteriaNormalized DEF SearchPages
<1> QED BY <1>1, <1>2, <1>4, PTL DEF Nav!Spec
=============================================================================
