----------------------------- MODULE JsonStream -----------------------------
(***************************************************************************)
(* The streaming JSON writer json::Stream (json/stream.cpp) driven by a    *)
(* caller that emits a structurally valid document: every value goes where *)
(* a value may go, every field name inside an object, every close matches  *)
(* its open.  The output is abstracted to tokens: "{", "}", "[", "]", ","  *)
(* and "K" (a quoted field name with its colon, write_string + ":") and    *)
(* "v" (the dump of one JSON value).                                       *)
(***************************************************************************)
EXTENDS Integers, Sequences, SequencesExt

CONSTANTS
    MaxDepth,       \* nesting depth the caller reaches (bound)
    MaxOut,         \* tokens written before the caller stops opening (bound)
    NestedArrays    \* the caller may open an array directly inside an array

\* The markers of Stream::stack_.
kObjectOpen == 1
kArrayOpen == 2
kFieldWritten == 3
kEntryWritten == 4

VARIABLES
    stack,  \* Stream::stack_, top at the end
    out,    \* tokens written to the writer
    doc     \* the caller's open containers: "O0"/"O" object without/with a
            \* field, "K" object after a field name, "A0"/"A" array
            \* without/with an element

vars == <<stack, out, doc>>

-----------------------------------------------------------------------------
(* The caller's contract.                                                  *)

\* A value may be written: at top level once, as an array element, or after
\* a field name.
ValueSlot == IF doc = <<>> THEN out = <<>> ELSE Last(doc) \in {"A0", "A", "K"}
\* Starting a value fills the slot it is written into.
FillSlot(d) ==
    IF d = <<>> THEN d
    ELSE CASE Last(d) = "K" -> Front(d) \o <<"O">>
           [] Last(d) = "A0" -> Front(d) \o <<"A">>
           [] OTHER -> d
InObject == doc # <<>> /\ Last(doc) \in {"O0", "O"}
CanOpen == Len(doc) < MaxDepth /\ Len(out) < MaxOut

-----------------------------------------------------------------------------
(* Stream.                                                                 *)

Top(s) == s[Len(s)]
\* An element of an array is about to be written.
IsEntry(s) == s # <<>> /\ Top(s) \in {kArrayOpen, kEntryWritten}

\* The separator step shared by open_object and write_json: the first entry
\* of an array pushes kEntryWritten, a later one writes ",".
EntryStack(s) == IF IsEntry(s) /\ Top(s) # kEntryWritten THEN Append(s, kEntryWritten) ELSE s
EntryOut(s) == IF IsEntry(s) /\ Top(s) = kEntryWritten THEN <<",">> ELSE <<>>

\* ensure_separator: the first field of an object pushes kFieldWritten, a
\* later one writes ",".
SepStack(s) == IF s # <<>> /\ Top(s) # kFieldWritten THEN Append(s, kFieldWritten) ELSE s
SepOut(s) == IF s # <<>> /\ Top(s) = kFieldWritten THEN <<",">> ELSE <<>>

open_object ==
    /\ ValueSlot /\ CanOpen
    /\ stack' = Append(EntryStack(stack), kObjectOpen)
    /\ out' = out \o EntryOut(stack) \o <<"{">>
    /\ doc' = Append(FillSlot(doc), "O0")

\* Seeded fault for StackMatchesDoc: close_object pops only the open marker.
close_object_keep ==
    /\ InObject
    /\ stack' = Front(stack)
    /\ out' = Append(out, "}")
    /\ doc' = Front(doc)

close_object ==
    /\ InObject
    /\ LET s1 == IF stack # <<>> /\ Top(stack) = kFieldWritten THEN Front(stack) ELSE stack
       IN stack' = Front(s1)
    /\ out' = Append(out, "}")
    /\ doc' = Front(doc)

\* open_array writes "[" without the entry separator step.
open_array ==
    /\ ValueSlot /\ CanOpen
    /\ NestedArrays \/ ~(doc # <<>> /\ Last(doc) \in {"A0", "A"})
    /\ stack' = Append(stack, kArrayOpen)
    /\ out' = Append(out, "[")
    /\ doc' = Append(FillSlot(doc), "A0")

close_array ==
    /\ doc # <<>> /\ Last(doc) \in {"A0", "A"}
    /\ LET s1 == IF stack # <<>> /\ Top(stack) \in {kEntryWritten, kFieldWritten}
                 THEN Front(stack) ELSE stack
       IN stack' = Front(s1)
    /\ out' = Append(out, "]")
    /\ doc' = Front(doc)

\* Seeded fault for DocumentWellFormed: the later entries get no ",".
write_json_nosep ==
    /\ ValueSlot /\ Len(out) < MaxOut
    /\ stack' = EntryStack(stack)
    /\ out' = Append(out, "v")
    /\ doc' = FillSlot(doc)

write_json ==
    /\ ValueSlot /\ Len(out) < MaxOut
    /\ stack' = EntryStack(stack)
    /\ out' = out \o EntryOut(stack) \o <<"v">>
    /\ doc' = FillSlot(doc)

\* write_field(name): the value follows in a later call.
write_field_name ==
    /\ InObject /\ Len(out) < MaxOut
    /\ stack' = SepStack(stack)
    /\ out' = out \o SepOut(stack) \o <<"K">>
    /\ doc' = Front(doc) \o <<"K">>

\* write_field(name, value).
write_field ==
    /\ InObject /\ Len(out) < MaxOut
    /\ stack' = SepStack(stack)
    /\ out' = out \o SepOut(stack) \o <<"K", "v">>
    /\ doc' = Front(doc) \o <<"O">>

Init == stack = <<>> /\ out = <<>> /\ doc = <<>>

Next ==
    \/ open_object \/ close_object \/ open_array \/ close_array
    \/ write_json \/ write_field_name \/ write_field

Spec == Init /\ [][Next]_vars

-----------------------------------------------------------------------------
(* Reference: a recursive-descent recogniser of a JSON token sequence.     *)
(* Each operator returns the position after what it parsed, 0 on error.    *)

RECURSIVE ParseValue(_, _), ParseElems(_, _, _), ParseMembers(_, _, _)
ParseValue(s, i) ==
    IF i > Len(s) THEN 0
    ELSE CASE s[i] = "v" -> i + 1
           [] s[i] = "[" -> ParseElems(s, i + 1, TRUE)
           [] s[i] = "{" -> ParseMembers(s, i + 1, TRUE)
           [] OTHER -> 0
\* Elements after "[": a "," precedes every element but the first.
ParseElems(s, i, first) ==
    LET at == IF first THEN i ELSE i + 1
        j == ParseValue(s, at)
    IN  IF i > Len(s) THEN 0
        ELSE IF s[i] = "]" THEN i + 1
        ELSE IF ~first /\ s[i] # "," THEN 0
        ELSE IF j = 0 THEN 0 ELSE ParseElems(s, j, FALSE)
\* Members after "{": a field name and its value, separated by ",".
ParseMembers(s, i, first) ==
    LET at == IF first THEN i ELSE i + 1
        j == IF at <= Len(s) /\ s[at] = "K" THEN ParseValue(s, at + 1) ELSE 0
    IN  IF i > Len(s) THEN 0
        ELSE IF s[i] = "}" THEN i + 1
        ELSE IF ~first /\ s[i] # "," THEN 0
        ELSE IF j = 0 THEN 0 ELSE ParseMembers(s, j, FALSE)

JsonWellFormed(s) == ParseValue(s, 1) = Len(s) + 1

-----------------------------------------------------------------------------
(* Properties.                                                             *)

\* Once the caller has closed its top-level value, what the stream wrote
\* parses as one JSON value: spec 4.12 says the separators are inserted
\* from the stack top, and streamed output parses like the non-streamed one.
DocumentWellFormed == (doc = <<>> /\ out # <<>>) => JsonWellFormed(out)

\* The markers of Stream::stack_ follow the caller's nesting: one open
\* marker per open container, kFieldWritten above an object once it has a
\* field, kEntryWritten above an array once it has an element.  The
\* separator decisions of every later call read this stack.
Markers(d) ==
    CASE d = "O0" -> <<kObjectOpen>>
      [] d \in {"O", "K"} -> <<kObjectOpen, kFieldWritten>>
      [] d = "A0" -> <<kArrayOpen>>
      [] d = "A" -> <<kArrayOpen, kEntryWritten>>
StackMatchesDoc ==
    stack = FoldLeft(LAMBDA acc, d : acc \o Markers(d), <<>>, doc)

=============================================================================
