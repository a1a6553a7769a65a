----------------------------- MODULE WebFormData -----------------------------
(***************************************************************************)
(* The FormData of browsers: a form kept twice, as a list and as a map of  *)
(* names, and its extraction into the bytes or the reader of a request.    *)
(* enhance_modules/fetch_enhancement.go, formdata_streaming.go.            *)
(*                                                                         *)
(* Sizes are in units: a part costs one, a file name with its type one, a  *)
(* character that has to be escaped one, the last boundary one.            *)
(***************************************************************************)
EXTENDS Integers, Sequences, FiniteSets, FiniteSetsExt, Functions

CONSTANTS Name, Awkward,   \* field names; those with a quote or a backslash
          Sizes,           \* of the values a script gives
          Threshold,       \* StreamingThreshold
          MaxFile,         \* MaxFileSize
          MaxEntries       \* bound

VARIABLES formDataEntries, \* Seq of [name, value, size, filename]
          formData,        \* [Name -> Seq of the same]; an absent key is <<>>
          body             \* the extraction for a request: [as, sent, whole]

vars == <<formDataEntries, formData, body>>

Nothing == [as |-> "none", sent |-> 0, whole |-> 0]
Init == formDataEntries = <<>> /\ formData = [n \in Name |-> <<>>] /\ body = Nothing

\* The entries at some places of a list, in their order; the places of a name and of the others.
InOrder(S)      == CHOOSE p \in [1 .. Cardinality(S) -> S] : \A i, j \in DOMAIN p : i < j => p[i] < p[j]
Only(list, S)   == LET p == InOrder(S) IN [j \in DOMAIN p |-> list[p[j]]]
Places(list, n) == {i \in DOMAIN list : list[i].name = n}
Others(list, n) == DOMAIN list \ Places(list, n)
Named(list, n)  == Only(list, Places(list, n))

-----------------------------------------------------------------------------
\* A value given with or without a file name ("plain" or "quoted"). Binary values get a name; a
\* File keeps its own, an empty one too. set makes text of a Blob or a File.
Value == {"string", "null", "object", "buffer", "blob", "file"}
Converted    == [v \in Value |-> IF v \in {"blob", "file", "buffer"} THEN "bytes" ELSE "text"]
SetConverted == [v \in Value |-> IF v = "buffer" THEN "bytes" ELSE "text"]
Filename(value, filename, own, kind) ==
  IF filename # "" THEN filename ELSE IF kind = "text" THEN "" ELSE IF value = "file" THEN own ELSE "plain"
Entry == [name : Name, value : {"text", "bytes"}, size : Sizes, filename : {"", "plain", "quoted"}]
Entries(converted) ==
  {e \in Entry : \E v \in Value, f \in {"", "plain", "quoted"}, own \in {"", "plain"} :
                   e.value = converted[v] /\ e.filename = Filename(v, f, own, e.value)}

Append1 ==
  /\ body = Nothing /\ Len(formDataEntries) < MaxEntries
  /\ \E e \in Entries(Converted) :
       /\ formDataEntries' = Append(formDataEntries, e)
       /\ formData' = [formData EXCEPT ![e.name] = Append(@, e)]
  /\ UNCHANGED body

\* set: the first entry of the name is replaced where it is, the others of the name go.
Set ==
  /\ body = Nothing
  /\ \E e \in Entries(SetConverted) :
       LET places == Places(formDataEntries, e.name)
           first == Min(places)
       IN /\ IF places = {}
             THEN Len(formDataEntries) < MaxEntries /\ formDataEntries' = Append(formDataEntries, e)
             ELSE formDataEntries' = Only([formDataEntries EXCEPT ![first] = e],
                                          Others(formDataEntries, e.name) \cup {first})
          /\ formData' = [formData EXCEPT ![e.name] = <<e>>]
  /\ UNCHANGED body

\* Mutant: delete leaves the list as it is.
DeleteKey(n) == /\ body = Nothing /\ formData' = [formData EXCEPT ![n] = <<>>]
                /\ UNCHANGED <<formDataEntries, body>>
Delete(n) ==
  /\ body = Nothing
  /\ formDataEntries' = Only(formDataEntries, Others(formDataEntries, n))
  /\ formData' = [formData EXCEPT ![n] = <<>>]
  /\ UNCHANGED body

\* get, getAll, has: read the map.
Get(n)    == IF formData[n] = <<>> THEN "null" ELSE Head(formData[n]).value
GetAll(n) == [i \in DOMAIN formData[n] |-> formData[n][i].value]
Has(n)    == formData[n] # <<>>

\* entries, keys, values and forEach give the list as it is when they are called, whatever the
\* script does to the form meanwhile.
Keys    == [i \in DOMAIN formDataEntries |-> formDataEntries[i].name]
Values  == [i \in DOMAIN formDataEntries |-> formDataEntries[i].value]
Pairs   == [i \in DOMAIN formDataEntries |-> <<Keys[i], Values[i]>>]

-----------------------------------------------------------------------------
\* GetTotalSize counts names as they are, a file name and a type for every entry that has a name.
Counted(e) == 1 + (IF e.filename # "" THEN 1 ELSE 0) + e.size
\* Mutant: the last boundary is not counted.
PartsSize(list) == SumFunction([i \in DOMAIN list |-> Counted(list[i])])
GetTotalSize(list) == SumFunction([i \in DOMAIN list |-> Counted(list[i])]) + 1

\* The multipart writer: text loses its file name; bytes have one, an empty one too.
Escaped(e) == (IF e.name \in Awkward THEN 1 ELSE 0)
              + (IF e.value = "bytes" /\ e.filename = "quoted" THEN 1 ELSE 0)
Written(e) == 1 + (IF e.value = "bytes" THEN 1 ELSE 0) + Escaped(e) + e.size
WholeSize(list) == SumFunction([i \in DOMAIN list |-> Written(list[i])]) + 1

\* extractFormDataInCurrentThread. No entry was counted by AddEntry: the limit of a form in
\* memory is never met, that of a file is.
Extract ==
  LET total == GetTotalSize(formDataEntries)
      whole == WholeSize(formDataEntries)
      result(as, sent) == body' = [as |-> as, sent |-> sent, whole |-> whole]
  IN /\ body = Nothing
     /\ CASE formDataEntries = <<>> -> result("reader", whole)
          [] \E i \in DOMAIN formDataEntries : formDataEntries[i].value = "bytes" /\ formDataEntries[i].size > MaxFile
               -> result("refused", 0)
          [] OTHER -> IF total < Threshold THEN result("bytes", IF total < whole THEN total ELSE whole)
                      ELSE result("reader", whole)
     /\ UNCHANGED <<formDataEntries, formData>>
Sent == body # Nothing /\ body' = Nothing /\ UNCHANGED <<formDataEntries, formData>>

Next == Append1 \/ Set \/ (\E n \in Name : Delete(n)) \/ Extract \/ Sent

-----------------------------------------------------------------------------
\* What a script reads of the map (get, getAll, has) is what is sent from the list, after every
\* order of append, set and delete.
StoresAgree == \A n \in Name : /\ formData[n] = Named(formDataEntries, n)
                               /\ (Has(n) <=> \E i \in DOMAIN Keys : Keys[i] = n)
                               /\ Len(GetAll(n)) = Cardinality({i \in DOMAIN Pairs : Pairs[i][1] = n})
                               /\ (Has(n) => Get(n) = Values[Min(Places(formDataEntries, n))])

\* A form is sent whole, the last boundary too, unless a name in it is escaped or a File has no
\* name: those the count of the bytes leaves out.
SentWhole ==
  body.as = "bytes" /\ body.sent < body.whole
    => \E i \in DOMAIN formDataEntries :
         LET e == formDataEntries[i]
         IN e.name \in Awkward \/ (e.value = "bytes" /\ e.filename # "plain")

FormKept == StoresAgree /\ SentWhole
=============================================================================
