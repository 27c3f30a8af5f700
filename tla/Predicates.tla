----------------------------- MODULE Predicates -----------------------------
(***************************************************************************)
(* The search criteria of the web application (predicate.js, string.js):   *)
(* the types a reader may choose, and what becomes of the text he enters   *)
(* on its way to htraced.                                                  *)
(*                                                                         *)
(* A text is known by its characters, its length, the number of "0x" in    *)
(* front of them, and the number that it shows (of milliseconds, of        *)
(* digits).  The variables are the arguments.                              *)
(***************************************************************************)
EXTENDS Integers, FiniteSets

CONSTANTS LastDate,    \* the last time that a Date of JavaScript can hold
          MaxInt64     \* the last number that htraced can read, later than LastDate

VARIABLES name, text   \* what was chosen and what was entered

vars == <<name, text>>

Empty == [chars |-> "none", len |-> 0, prefixes |-> 0, n |-> 0]
Text(chars, len, n) == [chars |-> chars, len |-> len, prefixes |-> 0, n |-> n]

(* A date with minutes has as many characters as a span id. *)
Texts == {Empty}
           \cup {Text("digits", len, n) : len \in {1, 16}, n \in 0..MaxInt64 + 1}
           \cup {Text("date", len, n) : len \in {10, 16, 23}, n \in -1..LastDate}
           \cup [chars : {"hex", "digits"}, len : {1, 14, 16, 18}, prefixes : 0..2, n : {0}]
           \cup {Text("other", len, 0) : len \in {1, 16}}

-----------------------------------------------------------------------------
PType(field, op) == [field |-> field, op |-> op]

(* parsePType; a name that is not in the menu has none. *)
PTypes == [n \in {"Began after", "Began at or before", "Ended after", "Ended at or before",
                  "Description contains", "Description is exactly", "Duration is longer than",
                  "Duration is at most", "Span ID is", "ProcessId contains", "ProcessId is exactly"} |->
  CASE n = "Began after" -> PType("begin", "gt")
    [] n = "Began at or before" -> PType("begin", "le")
    [] n = "Ended after" -> PType("end", "gt")
    [] n = "Ended at or before" -> PType("end", "le")
    [] n = "Description contains" -> PType("description", "cn")
    [] n = "Description is exactly" -> PType("description", "eq")
    [] n = "Duration is longer than" -> PType("duration", "gt")
    [] n = "Duration is at most" -> PType("duration", "le")
    [] n = "Span ID is" -> PType("spanid", "eq")
    [] n = "ProcessId contains" -> PType("processid", "cn")
    [] n = "ProcessId is exactly" -> PType("processid", "eq")]

Init == name \in DOMAIN PTypes /\ text \in Texts

(* A function throws, or it returns a text. *)
Throws == [thrown |-> TRUE, val |-> Empty]
Returns(t) == [thrown |-> FALSE, val |-> t]

AllDigits(t) == t.chars = "digits" /\ t.prefixes = 0

checkStringIsPositiveWholeNumber(t) == IF AllDigits(t) THEN Returns(t) ELSE Throws
checkStringIsNotEmpty(t) == IF t = Empty THEN Throws ELSE Returns(t)

(* The time of a date as a string: without a sign, with one, or NaN. *)
valueOf(n) == IF n > LastDate THEN Text("other", 3, 0)
              ELSE IF n < 0 THEN Text("other", 1, n)
              ELSE Text("digits", 1, n)

parseDate(t) == IF AllDigits(t) \/ t.chars = "date" THEN Returns(valueOf(t.n)) ELSE Throws

normalizeSpanId_CountsPrefix(t) ==
  IF t.len + 2 * t.prefixes # 16 \/ t.chars \notin {"digits", "hex"} THEN Throws ELSE Returns(t)

(* One "0x" is taken away; another one is no hexadecimal digit. *)
normalizeSpanId(t) ==
  LET str == [t EXCEPT !.prefixes = IF @ > 0 THEN @ - 1 ELSE 0]
  IN IF str.len + 2 * str.prefixes # 16 THEN Throws
     ELSE IF str.prefixes > 0 \/ str.chars \notin {"digits", "hex"} THEN Throws
     ELSE Returns(str)

normalize(field, t) == CASE field \in {"begin", "end"} -> parseDate(t)
                         [] field = "duration" -> checkStringIsPositiveWholeNumber(t)
                         [] field = "spanid" -> normalizeSpanId(t)
                         [] field \in {"description", "processid"} -> checkStringIsNotEmpty(t)

(* Now is some time that a Date can hold. *)
getDefaultValue(field, now) == CASE field \in {"begin", "end"} -> Text("date", 23, now)
                                 [] field = "duration" -> Text("digits", 1, 0)
                                 [] OTHER -> Empty

(* What htraced can read (loadPredicateData); cn is for strings only. *)
Accepted(ptype, t) ==
  CASE ptype.field = "spanid" -> t.chars \in {"digits", "hex"} /\ t.prefixes = 0 /\ t.len <= 16
    [] ptype.field \in {"begin", "end", "duration"} -> \/ AllDigits(t) /\ t.n <= MaxInt64
                                                       \/ t.chars = "other" /\ t.n < 0
    [] OTHER -> TRUE

-----------------------------------------------------------------------------
(* Whatever the reader enters, normalize throws or returns what htraced    *)
(* reads, showing the same time, number or id, and would not change it     *)
(* again (but the sign of a time before 1970 is refused the second time);  *)
(* numbers that are too large for a date or for htraced get through.  The  *)
(* defaults of times and durations can be sent as they are, those of the   *)
(* other fields cannot; no two types are the same query.                   *)
Normalized ==
  LET ptype == PTypes[name]
      out == normalize(ptype.field, text)
      fits == ptype.field \notin {"begin", "end", "duration"}
                \/ text.n <= (IF ptype.field = "duration" THEN MaxInt64 ELSE LastDate)
      now == getDefaultValue(ptype.field, LastDate)
  IN /\ ~out.thrown /\ fits => /\ Accepted(ptype, out.val)
                               /\ out.val.n = text.n
                               /\ text.n >= 0 => normalize(ptype.field, out.val) = out
     /\ normalize(ptype.field, now).thrown <=> ptype.field \notin {"begin", "end", "duration"}
     /\ \A other \in DOMAIN PTypes \ {name} : PTypes[other] # ptype
=============================================================================
