----------------------------- MODULE Underscore -----------------------------
(***************************************************************************)
(* The functions of underscore-1.7.0.js that Backbone and the pages call,  *)
(* as operators that do what their loops do, and what callers may expect   *)
(* of them: the functions on arrays and objects, those that count or       *)
(* remember their calls, and the text functions escape, unescape and       *)
(* template.                                                               *)
(*                                                                         *)
(* An array is a sequence; positions that a function takes or returns are  *)
(* counted from 0.  An object is a function of its keys.  A text is a      *)
(* sequence of pieces of which none is cut: "&" and the names of the       *)
(* entities; the delimiters of templates, with "-" and "=" apart.  The     *)
(* variables are the arguments.                                            *)
(***************************************************************************)
EXTENDS Integers, Sequences, FiniteSets, FiniteSetsExt, SequencesExt, Functions

CONSTANTS Numbers,     \* what stands in arrays
          Size,        \* bound: length of arrays
          Nodes,       \* the objects that isEqual may meet
          Hole         \* undefined, and the placeholder of partial

VARIABLES xs, ys,      \* two arrays
          graph        \* the objects: [Nodes -> [cls, f]], f a function of the keys

vars == <<xs, ys, graph>>

Arrays == UNION {[1..n -> Numbers] : n \in 0..Size}

(* Objects and arrays with at most one member: a number or an object. *)
Objects == [cls : {"Object", "Array"}, f : {[k \in {} |-> 0]} \cup [{1} -> {0} \cup Nodes]]

Plain == [n \in Nodes |-> [cls |-> "Object", f |-> [k \in {} |-> 0]]]
Init == \/ xs \in Arrays /\ ys \in Arrays /\ graph = Plain
        \/ xs = <<>> /\ ys = <<>> /\ graph \in [Nodes -> Objects]

Spec == Init /\ [][FALSE]_vars

-----------------------------------------------------------------------------
(* Collections.  A function that is passed to them is a TLA+ function; one *)
(* that is used as a test is the set of the values that pass it.           *)
map(a, f) == [i \in DOMAIN a |-> f[a[i]]]

some(a, P) == \E i \in DOMAIN a : a[i] \in P
every(a, P) == \A i \in DOMAIN a : a[i] \in P
find(a, P) == IF some(a, P) THEN a[Min({i \in DOMAIN a : a[i] \in P})] ELSE Hole
filter(a, P) == FoldLeft(LAMBDA acc, v : IF v \in P THEN Append(acc, v) ELSE acc, <<>>, a)
reject(a, P) == filter(a, ToSet(a) \ P)
partition(a, P) ==
  FoldLeft(LAMBDA acc, v : IF v \in P THEN <<Append(acc[1], v), acc[2]>> ELSE <<acc[1], Append(acc[2], v)>>,
           <<<<>>, <<>>>>, a)

(* max and min by a criterion: the first of the best. *)
Infinity == 1000
max(a, f) == FoldLeft(LAMBDA best, v : IF f[v] > best[1] THEN <<f[v], v>> ELSE best,
                      <<0 - Infinity, 0 - Infinity>>, a)[2]
min(a, f) == FoldLeft(LAMBDA best, v : IF f[v] < best[1] THEN <<f[v], v>> ELSE best,
                      <<Infinity, Infinity>>, a)[2]

(* shuffle: all that random may make of it. *)
shuffle(a) ==
  FoldLeft(LAMBDA made, i : {LET moved == IF r # i THEN Append(s, s[r]) ELSE Append(s, a[i])
                             IN [moved EXCEPT ![r] = a[i]] : s \in made, r \in 1..i},
           {<<>>}, [i \in DOMAIN a |-> i])

(* sortBy: by the criterion, then by the position. *)
sortBy(a, f) ==
  LET tagged == [i \in DOMAIN a |-> [value |-> a[i], index |-> i, criteria |-> f[a[i]]]]
      before(l, r) == IF l.criteria # r.criteria THEN l.criteria < r.criteria ELSE l.index < r.index
      sorted == SortSeq(tagged, before)
  IN [i \in DOMAIN sorted |-> sorted[i].value]

(* group, with the three behaviors. *)
Put(o, k, v) == [x \in DOMAIN o \cup {k} |-> IF x = k THEN v ELSE o[x]]
Nothing == [k \in {} |-> 0]
groupBy(a, f) ==
  FoldLeft(LAMBDA o, v : Put(o, f[v], IF f[v] \in DOMAIN o THEN Append(o[f[v]], v) ELSE <<v>>), Nothing, a)
indexBy(a, f) == FoldLeft(LAMBDA o, v : Put(o, f[v], v), Nothing, a)
countBy(a, f) ==
  FoldLeft(LAMBDA o, v : Put(o, f[v], IF f[v] \in DOMAIN o THEN o[f[v]] + 1 ELSE 1), Nothing, a)

(* sortedIndex: the smallest position that keeps the order, by bisection. *)
RECURSIVE Bisect(_, _, _, _)
Bisect(a, value, low, high) ==
  IF low >= high THEN low
  ELSE LET mid == (low + high) \div 2
       IN IF a[mid + 1] < value THEN Bisect(a, value, mid + 1, high) ELSE Bisect(a, value, low, mid)
sortedIndex_RoundsUp(a, value) ==
  LET after == {i \in 0..Len(a) : i = Len(a) \/ a[i + 1] > value} IN Min(after)
sortedIndex(a, value) == Bisect(a, value, 0, Len(a))

-----------------------------------------------------------------------------
(* Arrays *)

(* Array.prototype.slice: a negative position counts from the end. *)
slice(a, from, to) ==
  LET at(i) == IF i < 0 THEN Max({0, Len(a) + i}) ELSE Min({i, Len(a)})
  IN SubSeq(a, at(from) + 1, at(to))

first(a, n) == IF n < 0 THEN <<>> ELSE slice(a, 0, n)
initial(a, n) == slice(a, 0, Max({0, Len(a) - n}))
last(a, n) == slice(a, Max({Len(a) - n, 0}), Len(a))
rest(a, n) == slice(a, n, Len(a))

(* An item of a nested array is <<"leaf", v>> or <<"array", items>>. *)
RECURSIVE flatten(_, _, _)
flatten(input, shallow, strict) ==
  FoldLeft(LAMBDA out, v : out \o (IF v[1] = "leaf" THEN IF strict THEN <<>> ELSE <<v>>
                                    ELSE IF shallow THEN v[2]
                                    ELSE flatten(v[2], shallow, strict)), <<>>, input)

(* The position of item from a position on, -1 for none; a negative start  *)
(* counts from the end.                                                    *)
indexOf(a, item, from) ==
  LET i0 == IF from < 0 THEN Max({0, Len(a) + from}) ELSE from
      hits == {i \in i0..Len(a) - 1 : a[i + 1] = item}
  IN IF hits = {} THEN -1 ELSE Min(hits)
indexOfSorted(a, item) ==
  LET i == sortedIndex(a, item) IN IF i < Len(a) /\ a[i + 1] = item THEN i ELSE -1
lastIndexOf(a, item, from) ==
  LET top == IF from < 0 THEN Len(a) + from + 1 ELSE Min({Len(a), from + 1})
      hits == {i \in 0..top - 1 : a[i + 1] = item}
  IN IF hits = {} THEN -1 ELSE Max(hits)
contains(a, item) == indexOf(a, item, 0) >= 0

(* uniq: of an array that is said to be sorted, only neighbours are        *)
(* compared.                                                               *)
uniq_Neighbours(a, isSorted) ==
  FoldLeft(LAMBDA r, v : IF r = <<>> \/ Last(r) # v THEN Append(r, v) ELSE r, <<>>, a)
uniq(a, isSorted) ==
  IF isSorted THEN LET keep == {i \in DOMAIN a : i = 1 \/ a[i - 1] # a[i]}
                   IN [k \in 1..Cardinality(keep) |-> a[SetToSortSeq(keep, <)[k]]]
  ELSE FoldLeft(LAMBDA r, v : IF contains(r, v) THEN r ELSE Append(r, v), <<>>, a)
union(a, b) == uniq(a \o b, FALSE)
intersection(a, b) ==
  FoldLeft(LAMBDA r, v : IF contains(r, v) \/ ~contains(b, v) THEN r ELSE Append(r, v), <<>>, a)
difference(a, b) == filter(a, {v \in ToSet(a) : ~contains(b, v)})

(* zip: the shorter array is filled up. *)
zip(a, b) == LET at(s, i) == IF i <= Len(s) THEN s[i] ELSE Hole
             IN [i \in 1..Max({Len(a), Len(b)}) |-> <<at(a, i), at(b, i)>>]
object(keys, values) ==
  FoldLeft(LAMBDA o, i : Put(o, keys[i], IF i <= Len(values) THEN values[i] ELSE Hole),
           Nothing, [i \in DOMAIN keys |-> i])

(* range: as many steps as fit, none if the step leads away. *)
range(start, stop, step) ==
  LET ceil == IF step > 0 THEN 0 - ((start - stop) \div step) ELSE 0 - ((stop - start) \div (0 - step))
  IN [i \in 1..Max({0, ceil}) |-> start + (i - 1) * step]

(* partial: the placeholders take the first arguments, the others follow.  *)
partial(bound, args) ==
  LET put == FoldLeft(LAMBDA s, v : IF v # Hole THEN [s EXCEPT !.args = Append(@, v)]
                                    ELSE [args |-> Append(s.args, IF s.position <= Len(args)
                                                                  THEN args[s.position] ELSE Hole),
                                          position |-> s.position + 1],
                      [args |-> <<>>, position |-> 1], bound)
  IN put.args \o SubSeq(args, put.position, Len(args))

-----------------------------------------------------------------------------
(* Objects *)
extend(o, source) == [k \in DOMAIN o \cup DOMAIN source |-> IF k \in DOMAIN source THEN source[k] ELSE o[k]]
defaults(o, source) == [k \in DOMAIN o \cup DOMAIN source |->
                          IF k \in DOMAIN o /\ (k \notin DOMAIN source \/ o[k] # Hole) THEN o[k] ELSE source[k]]
pick(o, keys) == [k \in DOMAIN o \cap keys |-> o[k]]
omit(o, keys) == [k \in DOMAIN o \ keys |-> o[k]]
(* invert: of several keys with one value, any may win. *)
invert(o) == [v \in {o[k] : k \in DOMAIN o} |-> CHOOSE k \in DOMAIN o : o[k] = v]
matches(attrs, o) == \A k \in DOMAIN attrs : k \in DOMAIN o /\ o[k] = attrs[k]

(* eq: on the way down it notes the pairs it compares; an object that it   *)
(* meets again is equal to what it was compared with, and to nothing else. *)
RECURSIVE eq_AssumesCycles(_, _, _)
eq_AssumesCycles(a, b, stack) ==
  IF a = b THEN TRUE
  ELSE IF 0 \in {a, b} \/ graph[a].cls # graph[b].cls THEN FALSE
  ELSE IF \E i \in DOMAIN stack : stack[i][1] = a THEN TRUE
  ELSE /\ DOMAIN graph[a].f = DOMAIN graph[b].f
       /\ \A k \in DOMAIN graph[a].f :
            eq_AssumesCycles(graph[a].f[k], graph[b].f[k], <<<<a, b>>>> \o stack)
RECURSIVE eq(_, _, _)
eq(a, b, stack) ==
  IF a = b THEN TRUE
  ELSE IF 0 \in {a, b} \/ graph[a].cls # graph[b].cls THEN FALSE
  ELSE LET met == {i \in DOMAIN stack : stack[i][1] = a} IN
       IF met # {} THEN stack[Min(met)][2] = b
       ELSE /\ DOMAIN graph[a].f = DOMAIN graph[b].f
            /\ \A k \in DOMAIN graph[a].f : eq(graph[a].f[k], graph[b].f[k], <<<<a, b>>>> \o stack)
isEqual_AssumesCycles(a, b) == eq_AssumesCycles(a, b, <<>>)
isEqual(a, b) == eq(a, b, <<>>)

-----------------------------------------------------------------------------
Sorted(a) == \A i, j \in DOMAIN a : i < j => a[i] <= a[j]
Half == [v \in Numbers |-> v \div 2]
Odd == {v \in Numbers : v % 2 = 1}
Alike(k) == {v \in Numbers : Half[v] = k}
Around == (0 - Size - 1)..Size + 1
Nested == LET leaves == {<<"leaf", v>> : v \in Numbers}
              inner == {<<"array", s>> : s \in UNION {[1..n -> leaves] : n \in 0..1}}
          IN UNION {[1..n -> leaves \cup inner] : n \in 0..2}
Deep(s) == <<"array", s>>

(* The array functions fit together and do what their names say, at every  *)
(* edge of the array: the halves that first, rest, initial and last cut    *)
(* make the whole; the searches agree, sorted or not; sorting is stable;   *)
(* no duplicate survives and nothing else is lost; shuffle makes every     *)
(* permutation and nothing else.                                           *)
ArrayAlgorithms ==
  /\ \A n \in 0..Size + 1 : /\ first(xs, n) \o rest(xs, n) = xs /\ initial(xs, n) \o last(xs, n) = xs
                            /\ Len(first(xs, n)) = Min({n, Len(xs)}) /\ Len(last(xs, n)) = Len(first(xs, n))
  /\ partition(xs, Odd) = <<filter(xs, Odd), reject(xs, Odd)>>
  /\ xs # <<>> => /\ max(xs, Half) = find(xs, {v \in Numbers : every(xs, {w \in Numbers : Half[w] <= Half[v]})})
                  /\ min(xs, Half) = find(xs, {v \in Numbers : every(xs, {w \in Numbers : Half[w] >= Half[v]})})
  /\ shuffle(xs) = {[i \in DOMAIN xs |-> xs[p[i]]] : p \in Bijection(DOMAIN xs, DOMAIN xs)}
  /\ map(sortBy(xs, Half), Half) = SortSeq(map(xs, Half), <)
  /\ \A k \in Range(Half) : filter(sortBy(xs, Half), Alike(k)) = filter(xs, Alike(k))
  /\ \A k \in DOMAIN groupBy(xs, Half) :
       /\ groupBy(xs, Half)[k] = filter(xs, Alike(k))
       /\ countBy(xs, Half)[k] = Len(groupBy(xs, Half)[k])
       /\ indexBy(xs, Half)[k] = Last(groupBy(xs, Half)[k])
  /\ Sorted(xs) => \A v \in Numbers :
       /\ sortedIndex(xs, v) = Cardinality({i \in DOMAIN xs : xs[i] < v})
       /\ indexOfSorted(xs, v) = indexOf(xs, v, 0)
  /\ Sorted(xs) => uniq(xs, TRUE) = uniq(xs, FALSE)
  /\ IsInjective(uniq(xs, FALSE)) /\ ToSet(uniq(xs, FALSE)) = ToSet(xs)
  /\ \A v \in Numbers, n \in Around :
       /\ (n >= 0 /\ n < Len(xs)) => indexOf(xs, v, n - Len(xs)) = indexOf(xs, v, n)
       /\ lastIndexOf(Reverse(xs), v, Len(xs) - 1) =
            IF contains(xs, v) THEN Len(xs) - 1 - indexOf(xs, v, 0) ELSE -1
       /\ (n >= 0 /\ n < Len(xs)) => lastIndexOf(xs, v, n - Len(xs)) = lastIndexOf(xs, v, n)
  /\ IsInjective(union(xs, ys)) /\ ToSet(union(xs, ys)) = ToSet(xs) \cup ToSet(ys)
  /\ IsInjective(intersection(xs, ys)) /\ ToSet(intersection(xs, ys)) = ToSet(xs) \cap ToSet(ys)
  /\ ToSet(difference(xs, ys)) = ToSet(xs) \ ToSet(ys)
  /\ Len(xs) = Len(ys) =>
       LET z == zip(xs, ys)
       IN object(xs, ys) = object([i \in DOMAIN z |-> z[i][1]], [i \in DOMAIN z |-> z[i][2]])
  /\ LET o == object(xs, ys)
     IN /\ extend(pick(o, {0, 1}), omit(o, {0, 1})) = o
        /\ matches(o, defaults(extend(Nothing, o), object(ys, xs))) \/ Hole \in {o[k] : k \in DOMAIN o}
        /\ \A v \in DOMAIN invert(o) : o[invert(o)[v]] = v
  /\ Len(partial(<<Hole, 0, Hole>>, xs)) = Max({3, Len(xs) + 1})
  /\ Len(xs) >= 2 => partial(<<Hole, 0, Hole>>, xs) = <<xs[1], 0, xs[2]>> \o rest(xs, 2)

(* range counts like a loop, in both directions; flattening level by level *)
(* is flattening.                                                          *)
RangeAndFlatten ==
  xs = <<>> /\ ys = <<>> /\ graph = Plain =>
    /\ \A start, stop \in Around, step \in Around \ {0} :
         /\ ToSet(range(start, stop, step)) =
              {n \in -99..99 : IF step > 0 THEN start <= n /\ n < stop /\ (n - start) % step = 0
                               ELSE stop < n /\ n <= start /\ (start - n) % (0 - step) = 0}
         /\ \A i \in DOMAIN range(start, stop, step) : range(start, stop, step)[i] = start + (i - 1) * step
    /\ \A s \in Nested, t \in {<<>>, <<<<"leaf", 1>>>>} :
         flatten(<<Deep(s)>> \o t, FALSE, FALSE) =
           flatten(flatten(<<Deep(s)>> \o t, TRUE, FALSE), TRUE, FALSE)

(* isEqual ends for objects that refer to themselves, it calls only those  *)
(* equal that no path of keys can tell apart, and it finds all of those    *)
(* that have no cycles.  (With cycles it may miss some, and it is not      *)
(* symmetric.)                                                             *)
RECURSIVE AlikeTo(_, _, _), Ends(_, _)
AlikeTo(depth, a, b) ==
  \/ a = b
  \/ /\ 0 \notin {a, b} /\ graph[a].cls = graph[b].cls /\ DOMAIN graph[a].f = DOMAIN graph[b].f
     /\ depth = 0 \/ \A k \in DOMAIN graph[a].f : AlikeTo(depth - 1, graph[a].f[k], graph[b].f[k])
Ends(depth, a) ==
  a = 0 \/ (depth > 0 /\ \A k \in DOMAIN graph[a].f : Ends(depth - 1, graph[a].f[k]))
EqualityExact ==
  \A a, b \in Nodes :
    LET alike == AlikeTo(Cardinality(Nodes), a, b)
        finite == Ends(Cardinality(Nodes), a) /\ Ends(Cardinality(Nodes), b)
    IN (isEqual(a, b) => alike) /\ (finite /\ alike => isEqual(a, b))

Algorithms == ArrayAlgorithms /\ RangeAndFlatten /\ EqualityExact

-----------------------------------------------------------------------------
(* Conversions between objects and lists. *)

(* The keys of an object are numbers here, and come in their order. *)
keys(o) == SetToSortSeq(DOMAIN o, <)
values(o) == map(keys(o), o)
pairs(o) == map(keys(o), [k \in DOMAIN o |-> <<k, o[k]>>])
clone(o) == extend(Nothing, o)

where(list, attrs) == filter(list, {o \in ToSet(list) : matches(attrs, o)})
findWhere(list, attrs) == find(list, {o \in ToSet(list) : matches(attrs, o)})
pluck(list, key) == map(list, [o \in ToSet(list) |-> IF key \in DOMAIN o THEN o[key] ELSE Hole])

compact(a) == filter(a, ToSet(a) \ {0})
without(a, v) == difference(a, <<v>>)
sample(a, n) == {slice(s, 0, Max({0, n})) : s \in shuffle(a)}

-----------------------------------------------------------------------------
(* Does call number k run the function? *)
after(times, k) == times - k < 1
before(times, k) == times - k > 0
once(k) == before(2, k)

(* The results of before: of the calls up to k, the last that ran. *)
beforeResult(times, args, k) ==
  LET ran == {j \in 1..k : before(times, j)} IN IF ran = {} THEN Hole ELSE args[Max(ran)]

(* memoize for a sequence of calls: what they return, the calls that ran. *)
memoize(args, f, hasher) ==
  FoldLeft(LAMBDA m, v :
             LET cache == IF hasher[v] \in DOMAIN m.cache THEN m.cache ELSE Put(m.cache, hasher[v], f[v])
             IN [cache |-> cache, results |-> Append(m.results, cache[hasher[v]]),
                 ran |-> IF hasher[v] \in DOMAIN m.cache THEN m.ran ELSE Append(m.ran, v)],
           [cache |-> Nothing, results |-> <<>>, ran |-> <<>>], args)

-----------------------------------------------------------------------------
(* escapeMap: the name that follows the ampersand. *)
escapeMap == [ch \in {"&", "<", ">", "quote", "apostrophe", "backtick"} |->
  CASE ch = "&" -> "amp;" [] ch = "<" -> "lt;" [] ch = ">" -> "gt;"
    [] ch = "quote" -> "quot;" [] ch = "apostrophe" -> "#x27;" [] ch = "backtick" -> "#x60;"]
unescapeMap == [n \in {escapeMap[ch] : ch \in DOMAIN escapeMap} |-> CHOOSE ch \in DOMAIN escapeMap : escapeMap[ch] = n]

escape(s) ==
  FlattenSeq([i \in DOMAIN s |-> IF s[i] \in DOMAIN escapeMap THEN <<"&", escapeMap[s[i]]>> ELSE <<s[i]>>])

RECURSIVE Replaced(_, _)
Replaced(s, names) ==
  IF s = <<>> THEN <<>>
  ELSE IF Len(s) > 1 /\ s[1] = "&" /\ s[2] \in names
  THEN <<unescapeMap[s[2]]>> \o Replaced(Tail(Tail(s)), names)
  ELSE <<s[1]>> \o Replaced(Tail(s), names)
unescape_OneByOne(s) ==
  FoldLeft(LAMBDA out, n : Replaced(out, {n}), s, <<"amp;", "lt;", "gt;", "quot;", "#x27;", "#x60;">>)
unescape(s) == Replaced(s, DOMAIN unescapeMap)

(* The first delimiter of a template at or after a position: [at, kind,    *)
(* body, next].  Its body is not empty and ends at the next "%>"; at a     *)
(* position, escape is tried before interpolate, and that before evaluate. *)
Ending(s, i) == {j \in i + 1..Len(s) : s[j] = "%>"}
KindsAt(s, i) ==
  {k \in {"escape", "interpolate", "evaluate"} :
     s[i] = "<%" /\ CASE k = "escape" -> i < Len(s) /\ s[i + 1] = "-" /\ Ending(s, i + 2) # {}
                      [] k = "interpolate" -> i < Len(s) /\ s[i + 1] = "=" /\ Ending(s, i + 2) # {}
                      [] OTHER -> Ending(s, i + 1) # {}}
matcher(s, from) ==
  LET starts == {i \in from..Len(s) : KindsAt(s, i) # {}}
      i == Min(starts)
      kind == IF "escape" \in KindsAt(s, i) THEN "escape"
              ELSE IF "interpolate" \in KindsAt(s, i) THEN "interpolate" ELSE "evaluate"
      body == IF kind = "evaluate" THEN i + 1 ELSE i + 2
      end == Min(Ending(s, body))
  IN IF starts = {} THEN <<>>
     ELSE <<[at |-> i, kind |-> kind, body |-> SubSeq(s, body, end - 1), next |-> end + 1]>>

(* template: the texts between the delimiters, and what these enclose. *)
RECURSIVE Compiled(_, _)
Compiled(s, index) ==
  LET m == matcher(s, index)
  IN IF m = <<>> THEN <<[kind |-> "text", body |-> SubSeq(s, index, Len(s))]>>
     ELSE <<[kind |-> "text", body |-> SubSeq(s, index, m[1].at - 1)],
            [kind |-> m[1].kind, body |-> m[1].body]>> \o Compiled(s, m[1].next)
template(s) == Compiled(s, 1)

-----------------------------------------------------------------------------
Double == [v \in Numbers |-> 2 * v]
Entities(a) == map(a, [n \in 0..2 |-> CASE n = 0 -> "&" [] n = 1 -> "lt;" [] n = 2 -> "<"])
Template(a, mark) == map(a, [n \in 0..2 |-> CASE n = 0 -> "<%" [] n = 1 -> mark [] n = 2 -> "%>"])
Opening(kind) == CASE kind = "escape" -> <<"<%", "-">> [] kind = "interpolate" -> <<"<%", "=">> [] OTHER -> <<"<%">>
Written(piece) == IF piece.kind = "text" THEN piece.body ELSE Opening(piece.kind) \o piece.body \o <<"%>">>

(* Objects become lists and come back; of a wrapped function's calls,      *)
(* after runs those that before leaves out, once the first one, and        *)
(* memoize one for every address, whose result all of them get; a sample   *)
(* has as many items as were asked for and there are.                      *)
CallsAddUp ==
  LET o == object(xs, ys) IN
  /\ object(keys(o), values(o)) = o /\ clone(o) = o
  /\ pluck(<<o>>, 1) = IF 1 \in DOMAIN o THEN <<o[1]>> ELSE <<Hole>>
  /\ where(<<o, Nothing>>, o) = IF o = Nothing THEN <<o, o>> ELSE <<o>>
  /\ findWhere(<<Nothing, o>>, o) = o
  /\ without(xs, 0) = compact(xs)
  /\ \A n \in Around : \A s \in sample(xs, n) :
       Len(s) = Max({0, Min({n, Len(xs)})}) /\ \A v \in Numbers : Len(filter(s, {v})) <= Len(filter(xs, {v}))
  /\ \A times \in Around, k \in 1..Size : before(times, k) # after(times, k)
  /\ \A k \in DOMAIN xs : once(k) = (k = 1) /\ beforeResult(2, xs, k) = xs[1]
  /\ LET m == memoize(xs, Double, [v \in Numbers |-> v])
     IN m.results = map(xs, Double) /\ m.ran = uniq(xs, FALSE)
  /\ LET m == memoize(xs, Double, Half)
     IN \A i \in DOMAIN xs : m.results[i] = Double[find(xs, Alike(Half[xs[i]]))]

(* Nothing of a text is lost or doubled, and a closed delimiter is no text. *)
Complete(pieces, t) ==
  /\ FlattenSeq([i \in DOMAIN pieces |-> Written(pieces[i])]) = t
  /\ \A i \in DOMAIN pieces : LET b == pieces[i].body IN
       IF pieces[i].kind = "text"
       THEN \A j, k \in DOMAIN b : b[j] = "<%" /\ k > j + 1 => b[k] # "%>"
       ELSE b # <<>> /\ \A k \in 2..Len(b) : b[k] # "%>"

(* What is escaped holds no character that has a meaning in HTML, and      *)
(* unescape gives back the text, whatever entities it showed; a template   *)
(* loses nothing and doubles nothing of its text, and a delimiter that is  *)
(* closed is not taken for text.                                           *)
TextSafe ==
  LET s == Entities(xs \o ys)
      e == escape(s)
  IN /\ unescape(e) = s
     /\ \A i \in DOMAIN e : e[i] \notin DOMAIN escapeMap \ {"&"}
     /\ \A mark \in {"-", "="} :
          Complete(template(Template(xs \o ys, mark)), Template(xs \o ys, mark))

TextAlgorithms == CallsAddUp /\ TextSafe
=============================================================================
