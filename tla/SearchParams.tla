------------------------------ MODULE SearchParams ------------------------------
(***************************************************************************)
(* URLSearchParams: a Go map from names to slices of values, the slice of  *)
(* it that getAll gives to the code, and a forEach whose callback calls    *)
(* the other methods. enhance_modules/body_types.go.                       *)
(*                                                                         *)
(* Escaping is left out: a text is a sequence of pairs, of which some      *)
(* cannot be decoded. An iteration of a map begins anywhere.               *)
(***************************************************************************)
EXTENDS Integers, Sequences, FiniteSets, SequencesExt

CONSTANTS Name,      \* numbers, in the order of the names
          Value,
          Given,     \* what the constructor is given: sequences of pairs and of Bad
          MaxCalls, MaxLength \* of the methods, and of a name: bounds

VARIABLES params,  \* [Name -> [array, length]]: slices
          arrays,  \* Seq: [items, cap], what slices lie in
          taken,   \* what the last getAll gave
          given,   \* the argument of the constructor, and its form
          loop,    \* a forEach: [on, left, name, slice, at]
          visits, start, changed, \* what it called back with, the values at its start, the names changed since
          listed,  \* what entries, keys and values gave last
          calls

heap == <<params, arrays, taken>>
each == <<loop, visits, start, changed>>
vars == <<heap, given, each, listed, calls>>

NoSlice == [array |-> 0, length |-> 0]
At(slice, as) == IF slice.array = 0 THEN <<>> ELSE SubSeq(as[slice.array].items, 1, slice.length)
Values(n) == At(params[n], arrays)
Bad == <<>>         \* a pair that cannot be decoded, or is none
Present == {n \in Name : params[n].array # 0}

\* The values of a name among pairs.
Under(n, pairs) == LET own == SelectSeq(pairs, LAMBDA p : p # Bad /\ p[1] = n) IN [i \in DOMAIN own |-> own[i][2]]
Grown(n) == Min({c \in {0, 1, 2, 4, 8} : c >= n})    \* the capacity after n appends to nothing

\* The constructor: of a string that has a pair that cannot be decoded nothing is kept; of an array what is
\* no pair is passed over; an object has an array for each name, which may be empty.
Forms == {"string", "array", "object"}
Kept(pairs, form) == IF form = "string" /\ Bad \in ToSet(pairs) THEN <<>> ELSE pairs
Init ==
  /\ \E form \in Forms, pairs \in Given :
       LET values(n) == Under(n, Kept(pairs, form))
           names == SetToSortSeq({n \in Name : values(n) # <<>> \/ form = "object"}, <)
           cap(n) == IF form = "object" THEN Len(values(n)) ELSE Grown(Len(values(n)))
       IN /\ given = [pairs |-> pairs, form |-> form]
          /\ arrays = [i \in DOMAIN names |-> [items |-> values(names[i]), cap |-> cap(names[i])]]
          /\ params = [n \in Name |-> IF ~Contains(names, n) THEN NoSlice
                                      ELSE [array |-> CHOOSE i \in DOMAIN names : names[i] = n, length |-> Len(values(n))]]
  /\ taken = NoSlice /\ loop = [on |-> FALSE] /\ visits = <<>> /\ start = <<>> /\ changed = {}
  /\ listed = [entries |-> <<>>, keys |-> <<>>, values |-> <<>>] /\ calls = 0

-----------------------------------------------------------------------------
\* The methods, of the code or of the callback of its forEach.

Call == calls < MaxCalls /\ calls' = calls + 1 /\ UNCHANGED <<given, listed>>
Touch(n) == /\ changed' = changed \cup {n} /\ UNCHANGED <<visits, start>>
            /\ loop' = IF ~loop.on THEN loop
                       ELSE IF n \in Present THEN [loop EXCEPT !.left = @ \cap {m \in Name : params'[m].array # 0}]
                       ELSE [loop EXCEPT !.new = @ \cup {n}]

\* A new slice of a name: nothing of it is an absent name.
Fresh(n, values, cap) ==
  IF values = <<>> THEN /\ params' = [params EXCEPT ![n] = NoSlice] /\ UNCHANGED arrays
  ELSE /\ params' = [params EXCEPT ![n] = [array |-> Len(arrays) + 1, length |-> Len(values)]]
       /\ arrays' = Append(arrays, [items |-> values, cap |-> cap])

\* append: in place while there is room.
AppendTo(n, v) ==
  /\ Call /\ UNCHANGED taken /\ params[n].length < MaxLength
  /\ LET slice == params[n]
     IN IF slice.array # 0 /\ slice.length < arrays[slice.array].cap
        THEN /\ arrays' = [arrays EXCEPT ![slice.array].items = Append(@, v)]
             /\ params' = [params EXCEPT ![n].length = @ + 1]
        ELSE Fresh(n, Append(Values(n), v), IF slice.length = 0 THEN 1 ELSE 2 * arrays[slice.array].cap)
  /\ Touch(n)

Delete(n) == Call /\ n \in Present /\ Fresh(n, <<>>, 0) /\ Touch(n) /\ UNCHANGED taken
\* of one value: the others are appended to nothing.
DeleteValue(n, v) ==
  LET others == SelectSeq(Values(n), LAMBDA w : w # v)
  IN Call /\ n \in Present /\ Fresh(n, others, Grown(Len(others))) /\ Touch(n) /\ UNCHANGED taken
Set(n, v) == Call /\ Fresh(n, <<v>>, 1) /\ Touch(n) /\ UNCHANGED taken

\* getAll gives the slice itself, and of an absent name an array of its own.
GetAll(n) == Call /\ taken' = params[n] /\ UNCHANGED <<params, arrays, each>>
Assign(i, v) ==
  /\ Call /\ i \in 1..taken.length /\ arrays' = [arrays EXCEPT ![taken.array].items[i] = v]
  /\ changed' = changed \cup {n \in Name : params[n].array = taken.array}
  /\ UNCHANGED <<params, taken, loop, visits, start>>

\* entries, keys and values each go through the map in an order of their own. sort builds the map anew,
\* which has no order either.
Concat(Of(_), order) == FlattenSeq([i \in DOMAIN order |-> Of(order[i])])
\* As the last call only: a bound.
List ==
  /\ calls = MaxCalls - 1 /\ calls' = MaxCalls /\ UNCHANGED <<heap, given, each>>
  /\ \E orders \in [1..3 -> SetToSeqs(Present)] :
       listed' = [entries |-> Concat(LAMBDA n : [i \in DOMAIN Values(n) |-> <<n, Values(n)[i]>>], orders[1]),
                  keys |-> Concat(LAMBDA n : [i \in DOMAIN Values(n) |-> n], orders[2]),
                  values |-> Concat(Values, orders[3])]

\* toString: by name.
Encoded == Concat(LAMBDA n : [i \in DOMAIN Values(n) |-> <<n, Values(n)[i]>>], SetToSortSeq(Present, <))

-----------------------------------------------------------------------------
\* forEach: a range over the map, and in it one over the slice of a name as it was when the name came. A
\* name deleted before it came does not come, one that is new may, and what the callback throws is dropped.

ForEach ==
  /\ calls < MaxCalls /\ calls' = calls + 1 /\ ~loop.on /\ visits = <<>>
  /\ loop' = [on |-> TRUE, left |-> Present, new |-> {}, name |-> 0, slice |-> NoSlice, at |-> 0]
  /\ start' = [n \in Name |-> Values(n)] /\ changed' = {}
  /\ UNCHANGED <<heap, given, listed, visits>>
Visit ==
  /\ loop.on /\ loop.at < loop.slice.length
  /\ loop' = [loop EXCEPT !.at = @ + 1]
  /\ visits' = Append(visits, <<loop.name, At(loop.slice, arrays)[loop.at + 1]>>)
  /\ UNCHANGED <<heap, given, listed, calls, start, changed>>
NextName ==
  /\ loop.on /\ loop.at = loop.slice.length
  /\ \E n \in (loop.left \cup loop.new) \cap Present :
       loop' = [loop EXCEPT !.name = n, !.slice = params[n], !.at = 0, !.left = @ \ {n}, !.new = @ \ {n}]
  /\ UNCHANGED <<heap, given, listed, calls, visits, start, changed>>
EndEach ==
  /\ loop.on /\ loop.at = loop.slice.length /\ loop.left = {}
  /\ loop' = [on |-> FALSE]
  /\ UNCHANGED <<heap, given, listed, calls, visits, start, changed>>

Next == \/ \E n \in Name : Delete(n) \/ GetAll(n) \/ \E v \in Value : AppendTo(n, v) \/ DeleteValue(n, v) \/ Set(n, v)
        \/ \E i \in 1..MaxLength, v \in Value : Assign(i, v)
        \/ List \/ ForEach \/ Visit \/ NextName \/ EndEach
Spec == Init /\ [][Next]_vars

-----------------------------------------------------------------------------
\* No slice is read beyond what was written, no name's values lie in another's, so that a write through what
\* getAll gave reaches one name at most, and only a name given with an empty array has no value.
SlicesApart ==
  \A n \in Present : /\ params[n].length <= Len(arrays[params[n].array].items)
                     /\ \A m \in Present \ {n} : params[m].array # params[n].array
                     /\ Values(n) = <<>> => given.form = "object" /\ Under(n, given.pairs) = <<>>

\* What entries, keys and values give is what is there, with the values of a name in their order; only
\* entries says which value belongs to which name.
ListedWhole ==
  LET under(n) == SelectSeq(listed.entries, LAMBDA p : p[1] = n)
  IN /\ Len(listed.keys) = Len(listed.entries) /\ Len(listed.values) = Len(listed.entries)
     /\ \A n \in Name : Len(SelectSeq(listed.keys, LAMBDA k : k = n)) = Len(under(n))
     /\ \A v \in Value : Len(SelectSeq(listed.values, LAMBDA w : w = v))
                        = Len(SelectSeq(listed.entries, LAMBDA p : p[2] = v))

\* The text of the parameters, read again, gives each name its values in their order.
TextRoundTrip == \A n \in Name : Under(n, Encoded) = Values(n)

\* Whatever the callback does to the others, forEach calls back with each value of a name that it left alone
\* once and in order.
EachVisited ==
  start # <<>> =>
    \A n \in Name \ changed : IF loop.on THEN IsPrefix(Under(n, visits), start[n]) ELSE Under(n, visits) = start[n]

\* A string is taken whole or not at all.
GivenWhole ==
  calls = 0 => \A n \in Name : \/ Values(n) = Under(n, given.pairs)
                              \/ (Values(n) = <<>> /\ given.form = "string" /\ Contains(given.pairs, Bad))

ParamsKept == SlicesApart /\ ListedWhole /\ TextRoundTrip /\ EachVisited /\ GivenWhole
================================================================================
