------------------------------- MODULE Config -------------------------------
(***************************************************************************)
(* The property list parser (Config.c) and the heap it works on: tags come *)
(* from blocks and go back to a free list threaded through NextTag, and    *)
(* strings are symbols with a reference count.                             *)
(*                                                                         *)
(* A document is a sequence of tags as CmpGetNextTag finds them. A tag     *)
(* that encloses text stands for itself, its text and its closing tag,     *)
(* which may be missing. The open calls of the recursive parser are a      *)
(* sequence: lists, and keys that wait for their value.                    *)
(***************************************************************************)
EXTENDS Integers, Sequences, FiniteSets

CONSTANTS TagsPerBlock,   \* EFI_PAGE_SIZE in CmpNewTag
          MaxRefusals     \* allocations that fail

VARIABLES
    heap,      \* tags, CmpNextFreeTag, symbols with their reference counts
    document,  \* what is left to parse
    calls,     \* open calls, the innermost last
    returned,  \* the tag CmpParseNextTag gives its caller, or Reading
    rootTag,   \* NULL while CmParseXmlFile runs, then the dictionary, or Failed
    refusals

configVars == <<heap, document, calls, returned, rootTag, refusals>>

NULL == 0
Failed == -1
Reading == -2
NoString == "NULL"

EmptyHeap == [tags |-> <<>>, free |-> NULL, symbols |-> <<>>]
FreeTag(nextTag) == [Type |-> "none", StringValue |-> NoString, TagValue |-> NULL,
                     NextTag |-> nextTag]

-----------------------------------------------------------------------------
(* Symbols: the reference count of each string in use.                     *)

CmpNewSymbol(symbols, text) ==
    [s \in DOMAIN symbols \cup {text} |->
       (IF s \in DOMAIN symbols THEN symbols[s] ELSE 0) + (IF s = text THEN 1 ELSE 0)]

\* CmpFreeSymbol, called references[s] times for each string s. The last
\* reference takes the symbol with it.
CmpFreeSymbol(symbols, references) ==
    LET left == [s \in DOMAIN symbols |->
                   symbols[s] - (IF s \in DOMAIN references THEN references[s] ELSE 0)]
    IN  [s \in {u \in DOMAIN symbols : left[u] > 0} |-> left[s]]

-----------------------------------------------------------------------------
(* CmFreeTag.                                                              *)

\* The order in which a tag is freed, with what is below it and what follows.
FreeOrder(h, t) ==
    LET order[u \in 0 .. Len(h.tags)] ==
          IF u = NULL THEN <<>>
          ELSE order[h.tags[u].TagValue] \o order[h.tags[u].NextTag] \o <<u>>
    IN  order[t]

Strings(h, tags) == {h.tags[t].StringValue : t \in tags} \ {NoString}

\* References tags have to each string: what CmpFreeSymbol is called for.
References(h, tags) ==
    [s \in Strings(h, tags) |-> Cardinality({t \in tags : h.tags[t].StringValue = s})]

FreeAll(h, order) ==
    LET freed == {order[i] : i \in 1 .. Len(order)}
        turn(t) == CHOOSE i \in 1 .. Len(order) : order[i] = t
        behind(t) == IF order[1] = t THEN h.free ELSE order[turn(t) - 1]
    IN  IF order = <<>> THEN h
        ELSE [tags |-> [t \in 1 .. Len(h.tags) |->
                          IF t \in freed THEN FreeTag(behind(t)) ELSE h.tags[t]],
              free |-> order[Len(order)],
              symbols |-> CmpFreeSymbol(h.symbols, References(h, freed))]

CmFreeTag(h, t) == FreeAll(h, FreeOrder(h, t))

-----------------------------------------------------------------------------
(* New tags.                                                               *)

\* A new block, when the free list is empty.
Supplied(h) ==
    LET n == Len(h.tags)
    IN  IF h.free # NULL THEN h
        ELSE [h EXCEPT !.tags = @ \o [i \in 1 .. TagsPerBlock |->
                                       FreeTag(IF i = TagsPerBlock THEN NULL ELSE n + i + 1)],
                       !.free = n + 1]

\* CmpNewTag. The tag keeps its NextTag, which leads into the free list.
CmpNewTag(h) == [h EXCEPT !.free = h.tags[h.free].NextTag]

\* The tag that was taken is filled in, with a reference to its string.
Filled(h, t, type, text, value) ==
    [h EXCEPT !.tags[t] = [Type |-> type, StringValue |-> text, TagValue |-> value,
                           NextTag |-> NULL],
              !.symbols = IF text = NoString THEN @ ELSE CmpNewSymbol(@, text)]

NoMemory == refusals < MaxRefusals /\ refusals' = refusals + 1

\* -1 goes through the open calls; each list frees the tags it has, the innermost
\* first.
Fail(h, open) ==
    LET lists[i \in 0 .. Len(open)] ==
          IF i = 0 THEN <<>> ELSE FreeOrder(h, open[i].tagList) \o lists[i - 1]
    IN  /\ heap' = FreeAll(h, lists[Len(open)])
        /\ calls' = <<>> /\ returned' = Reading /\ rootTag' = Failed

\* A tag is taken, filled in and returned by a call that leaves others open, or
\* there is no memory for a block.
NewTag(type, text, value, open) ==
    LET h == Supplied(heap)
        t == h.free
    IN  \/ /\ heap' = Filled(CmpNewTag(h), t, type, text, value)
           /\ returned' = t
           /\ calls' = open
           /\ UNCHANGED <<rootTag, refusals>>
        \/ /\ heap.free = NULL
           /\ NoMemory
           /\ Fail(CmFreeTag(heap, value), open)

\* There is no memory for a new symbol: the tag is freed before its NextTag was
\* cleared, and the free list with it.
NoSymbol(text, value, open) ==
    LET h == Supplied(heap)
    IN  /\ text \notin DOMAIN heap.symbols
        /\ NoMemory
        /\ Fail(CmFreeTag(CmFreeTag(CmpNewTag(h), value), h.free), open)

-----------------------------------------------------------------------------
(* The parser.                                                             *)

OpenCall(type, text) == [type |-> type, text |-> text, tagList |-> NULL, prevTag |-> NULL]

Lists == {"dict", "array"}
EmptyLists == [t \in {"dict/", "array/"} |-> IF t = "dict/" THEN "dict" ELSE "array"]
Values == {"string", "integer", "data", "date", "true/", "false/"}

AtTag == rootTag = NULL /\ returned = Reading /\ document # <<>>

\* CmpParseNextTag, by the kind of the tag: a list or key begins, ...
ParseOpen ==
    /\ AtTag /\ Head(document).complete
    /\ Head(document).name \in Lists \cup {"key"}
    /\ calls' = Append(calls, OpenCall(Head(document).name, Head(document).text))
    /\ document' = Tail(document)
    /\ UNCHANGED <<heap, returned, rootTag, refusals>>

\* ... a value becomes a tag, ...
ParseValue ==
    /\ AtTag /\ Head(document).complete
    /\ document' = Tail(document)
    /\ \/ /\ Head(document).name \in Values
          /\ NewTag(Head(document).name,
                    IF Head(document).name = "string" THEN Head(document).text ELSE NoString,
                    NULL, calls)
       \/ Head(document).name = "string" /\ NoSymbol(Head(document).text, NULL, calls)
       \/ Head(document).name = "data" /\ NoMemory /\ Fail(heap, calls)
       \/ /\ Head(document).name \in DOMAIN EmptyLists
          /\ NewTag(EmptyLists[Head(document).name], NoString, NULL, calls)

\* ... a closing tag, or one that is not known, yields nothing, ...
ParseNothing ==
    /\ AtTag /\ Head(document).complete
    /\ Head(document).name \notin Lists \cup {"key"} \cup Values \cup DOMAIN EmptyLists
    /\ returned' = NULL
    /\ document' = Tail(document)
    /\ UNCHANGED <<heap, calls, rootTag, refusals>>

\* ... and the document ends, or ends within a text.
ParseEnd ==
    /\ rootTag = NULL /\ returned = Reading
    /\ document = <<>> \/ ~Head(document).complete
    /\ Fail(heap, calls)
    /\ document' = <<>>
    /\ UNCHANGED refusals

Innermost == calls[Len(calls)]
OuterCalls == SubSeq(calls, 1, Len(calls) - 1)

\* CmParseXmlFile: the first dictionary is the result, other tags are freed.
ReturnToFile ==
    /\ rootTag = NULL /\ returned # Reading /\ calls = <<>>
    /\ returned' = Reading
    /\ IF returned # NULL /\ heap.tags[returned].Type = "dict"
         THEN rootTag' = returned /\ document' = <<>> /\ UNCHANGED heap
         ELSE heap' = CmFreeTag(heap, returned) /\ UNCHANGED <<rootTag, document>>
    /\ UNCHANGED <<calls, refusals>>

\* CmpParseTagKey: what follows the key is its value, or nothing is.
ReturnToKey ==
    /\ rootTag = NULL /\ returned # Reading /\ calls # <<>>
    /\ Innermost.type = "key"
    /\ \/ NewTag("key", Innermost.text, returned, OuterCalls)
       \/ NoSymbol(Innermost.text, returned, OuterCalls)
    /\ UNCHANGED document

\* Mutant: the list is always continued behind its first tag.
Appended_BehindFirst(call, t) ==
    [call EXCEPT !.prevTag = IF @ = NULL THEN t ELSE @,
                 !.tagList = IF @ = NULL THEN t ELSE @]

Appended(call, t) ==
    [call EXCEPT !.prevTag = t, !.tagList = IF @ = NULL THEN t ELSE @]

\* CmpParseTagList: the tag is appended; any NULL ends the list.
ReturnToList ==
    /\ rootTag = NULL /\ returned # Reading /\ calls # <<>>
    /\ Innermost.type # "key"
    /\ \/ /\ returned = NULL
          /\ NewTag(Innermost.type, NoString, Innermost.tagList, OuterCalls)
       \/ /\ returned # NULL
          /\ calls' = Append(OuterCalls, Appended(Innermost, returned))
          /\ heap' = IF Innermost.prevTag = NULL THEN heap
                     ELSE [heap EXCEPT !.tags[Innermost.prevTag].NextTag = returned]
          /\ returned' = Reading
          /\ UNCHANGED <<rootTag, refusals>>
    /\ UNCHANGED document

Parse ==
    \/ ParseOpen \/ ParseValue \/ ParseNothing \/ ParseEnd
    \/ ReturnToFile \/ ReturnToKey \/ ReturnToList

ParseInit ==
    /\ heap = EmptyHeap /\ document = <<>> /\ calls = <<>> /\ returned = Reading
    /\ rootTag = Failed /\ refusals = 0

-----------------------------------------------------------------------------
(* What a heap holds.                                                      *)

\* The tags of a list.
Siblings(h, t) ==
    LET from[u \in 0 .. Len(h.tags)] ==
          IF u = NULL THEN <<>> ELSE <<u>> \o from[h.tags[u].NextTag]
    IN  from[t]

CmGetTagValueForKey(h, dictTag, keyName) ==
    LET keys == SelectSeq(Siblings(h, h.tags[dictTag].TagValue),
                          LAMBDA t : /\ h.tags[t].Type = "key"
                                     /\ h.tags[t].StringValue = keyName)
    IN  IF dictTag = NULL \/ h.tags[dictTag].Type # "dict" \/ keys = <<>> THEN NULL
        ELSE h.tags[keys[1]].TagValue

\* The first tags of the free list, as many as there are tags.
FreeList(h) ==
    LET walk[i \in 0 .. Len(h.tags)] ==
          IF i = 0 THEN h.free
          ELSE IF walk[i - 1] = NULL THEN NULL ELSE h.tags[walk[i - 1]].NextTag
    IN  walk

Cyclic(h) == FreeList(h)[Len(h.tags)] # NULL
FreeTags(h) == {FreeList(h)[i] : i \in 0 .. Len(h.tags)} \ {NULL}

\* The tags of a list with all below them, as trees.
Forest(h, t) ==
    LET from[u \in 0 .. Len(h.tags)] ==
          IF u = NULL THEN <<>>
          ELSE <<[type |-> h.tags[u].Type, text |-> h.tags[u].StringValue,
                  below |-> from[h.tags[u].TagValue]]>> \o from[h.tags[u].NextTag]
    IN  from[t]
=============================================================================
