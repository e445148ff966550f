----------------------------- MODULE XmlDocument -----------------------------
(***************************************************************************)
(* tinyxml2 as SonosInterface uses it: an XMLDocument parses the answer of *)
(* a player (src/tinyxml2.cpp, .h), ParseZoneTopology() walks through the  *)
(* tree (src/SonosInterface.cpp), and the destructor takes it down.        *)
(*                                                                         *)
(* A text is a sequence of tokens; a node remembers the token its _value   *)
(* points to.  Nodes are chunks of memory pools, which hold free chunks in *)
(* lists that are last in, first out.  The calls of ParseDeep() that have  *)
(* not returned are the sequence frames, those of DeleteNode() deleting;   *)
(* each step is one call, or what follows its return.                      *)
(*                                                                         *)
(* Text between tags is one token "text", which is not all white space;    *)
(* white space is skipped by Identify() and has no token.                  *)
(*                                                                         *)
(* XmlText is about the same library; a module may extend both, so the     *)
(* names of the specification here begin with Document.                    *)
(***************************************************************************)
EXTENDS Integers, Sequences, FiniteSets, SequencesExt

CONSTANTS
    Documents,    \* bound: the texts that are parsed
    Path,         \* names of the elements ParseZoneTopology() descends to
    Wanted,       \* the attribute it reads
    Count,        \* COUNT: chunks of a block
    Doc, Null

\* start tag, start tag that ends in "/>", end tag, text, CDATA section, comment (or
\* declaration, or unknown), one of these that is not ended, CDATA that is not
\* ended, "<" that is followed by no name
Kinds == {"open", "empty", "close", "text", "cdata", "comment", "cut", "cutCdata", "stray"}

ASSUME DocumentsAssumption == \A doc \in Documents :
    /\ doc \in Seq(Range(doc))
    /\ \A i \in DOMAIN doc :
         /\ doc[i].kind \in Kinds
         /\ doc[i].kind \in {"open", "empty"} => doc[i].attrs \in Seq(Range(doc[i].attrs))
         /\ doc[i].kind = "close" => doc[i].name # Null
    /\ \A i \in 2 .. Len(doc) : ~(doc[i].kind = "text" /\ doc[i - 1].kind = "text")
ASSUME CountAssumption == Count \in Nat \ {0}
ASSUME PathAssumption == Path \in Seq(Range(Path)) /\ Len(Path) > 0

Pools == {"element", "text", "comment"}    \* _elementPool, _textPool, _commentPool

ASSUME NullAssumption == Doc # Null /\ {Doc, Null} \cap (Pools \X Nat) = {}

VARIABLES
    text,         \* what is parsed
    pc,
    pos,          \* p: the position in text
    frames,       \* nodes whose children are being parsed
    cur,          \* the node that ParseDeep() holds in its local variable
    result,       \* what its ParseDeep() returned: p or 0, and its end tag
    node,         \* the fields of the nodes that exist
    free,         \* _root of each pool
    blocks,       \* _blockPtrs.Size()
    currentAllocs, untracked,    \* _currentAllocs, _nUntracked
    attrAllocs,   \* _attributePool._currentAllocs
    errorID,      \* _errorID
    deleting,     \* nodes being deleted
    after,        \* where to go on then
    level, cursor, visited,      \* ParseZoneTopology()
    crash

chunkVars == <<free, blocks, currentAllocs, untracked>>
poolVars == <<chunkVars, attrAllocs>>
walkVars == <<level, cursor, visited, crash>>
deleteVars == <<deleting, after>>
documentVars == <<text, pc, pos, frames, cur, result, node, poolVars, errorID, deleteVars, walkVars>>

NewNode(at, closing, attrs) ==
    [parent |-> Null, first |-> Null, last |-> Null, prev |-> Null, next |-> Null,
     value |-> at, closing |-> closing, attrs |-> attrs]

DocumentInit ==
    /\ text \in Documents
    /\ pc = "start"
    /\ pos = 1
    /\ frames = <<Doc>>
    /\ cur = Null
    /\ result = [ok |-> TRUE, endTag |-> Null]
    /\ node = [x \in {Doc} |-> NewNode(0, "none", << >>)]
    /\ free = [k \in Pools |-> << >>]
    /\ blocks = [k \in Pools |-> 0]
    /\ currentAllocs = [k \in Pools |-> 0]
    /\ untracked = [k \in Pools |-> 0]
    /\ attrAllocs = 0
    /\ errorID = "none"
    /\ deleting = << >> /\ after = "none"
    /\ level = 1 /\ cursor = Null /\ visited = << >>
    /\ crash = "none"
-----------------------------------------------------------------------------
(* The lists of children *)

\* Mutation of Unlink: the last child is not moved back.
UnlinkKeepsLast(h, c) == [x \in DOMAIN h |->
    [h[x] EXCEPT !.first  = IF @ = c THEN h[c].next ELSE @,
                 !.next   = IF x = h[c].prev THEN h[c].next ELSE @,
                 !.prev   = IF x = h[c].next THEN h[c].prev ELSE @,
                 !.parent = IF x = c THEN Null ELSE @]]

\* _parent->Unlink(c); the child keeps its own _prev and _next.
Unlink(h, c) == [x \in DOMAIN h |->
    [h[x] EXCEPT !.first  = IF @ = c THEN h[c].next ELSE @,
                 !.last   = IF @ = c THEN h[c].prev ELSE @,
                 !.next   = IF x = h[c].prev THEN h[c].next ELSE @,
                 !.prev   = IF x = h[c].next THEN h[c].prev ELSE @,
                 !.parent = IF x = c THEN Null ELSE @]]

\* parent->InsertEndChild(c), of a node that has no parent
InsertEndChild(h, parent, c) ==
    LET last == h[parent].last IN [x \in DOMAIN h |->
      CASE x = parent -> [h[x] EXCEPT !.first = IF last = Null THEN c ELSE @, !.last = c]
        [] x = last   -> [h[x] EXCEPT !.next = c]
        [] x = c      -> [h[x] EXCEPT !.prev = last, !.next = Null, !.parent = parent]
        [] OTHER      -> h[x]]

PoolOf(x) == x[1]
IsElement(x) == x # Doc /\ PoolOf(x) = "element"
Name(x) == text[node[x].value].name
-----------------------------------------------------------------------------
(* XMLNode::ParseDeep() of the last frame: one pass of the loop *)

\* MemPoolT::Alloc() takes the first free chunk, of a new block if there is none.
FreeOrNew(k) == IF free[k] # << >> THEN free[k]
                ELSE [i \in 1 .. Count |-> <<k, blocks[k] * Count + i>>]

\* A CDATA section is an XMLText.
PoolFor(kind) == CASE kind \in {"text", "cdata", "cutCdata"} -> "text"
                   [] kind \in {"comment", "cut"} -> "comment"
                   [] OTHER -> "element"

ClosingType(kind) == CASE kind = "open" -> "open"
                       [] kind = "empty" -> "closed"
                       [] kind = "close" -> "closing"
                       [] OTHER -> "none"

\* ParseAttributes(): the attributes up to the first name that was there before,
\* at which it fails.
Duplicates(attrs) == {i \in DOMAIN attrs : \E j \in 1 .. i - 1 : attrs[j] = attrs[i]}
Linked(attrs) == {i \in DOMAIN attrs : \A d \in Duplicates(attrs) : i < d}

\* What the node's own ParseDeep() makes of the token at pos.
LeafError(t) ==
    CASE t.kind = "text" /\ pos = Len(text) -> "text"
      [] t.kind = "cut" -> "comment"
      [] t.kind = "cutCdata" -> "cdata"
      [] t.kind \in {"open", "empty"} /\ Duplicates(t.attrs) # {} -> "attribute"
      [] OTHER -> errorID
LeafFails(t) == t.kind = "stray" \/ LeafError(t) # errorID

\* Identify() makes a node, and node->ParseDeep() begins: of an element that is
\* opened and not at the end of the text it goes on with its children.
Identify ==
    /\ pc = "loop"
    /\ pos <= Len(text)
    /\ LET t == text[pos]
           k == PoolFor(t.kind)
           x == Head(FreeOrNew(k))
           attrs == IF t.kind \in {"open", "empty"} THEN SubSeq(t.attrs, 1, Cardinality(Linked(t.attrs)))
                    ELSE << >>
           nested == t.kind = "open" /\ ~LeafFails(t) /\ pos < Len(text)
       IN /\ free' = [free EXCEPT ![k] = Tail(FreeOrNew(k))]
          /\ blocks' = [blocks EXCEPT ![k] = @ + IF free[k] = << >> THEN 1 ELSE 0]
          /\ currentAllocs' = [currentAllocs EXCEPT ![k] = @ + 1]
          /\ untracked' = [untracked EXCEPT ![k] = @ + 1]
          /\ attrAllocs' = attrAllocs + Len(attrs)
          /\ node' = [y \in DOMAIN node \cup {x} |->
                        IF y = x THEN NewNode(pos, ClosingType(t.kind), attrs) ELSE node[y]]
          /\ errorID' = LeafError(t)
          /\ IF nested THEN /\ frames' = Append(frames, x)
                            /\ UNCHANGED <<pc, cur, result>>
                       ELSE /\ cur' = x
                            /\ result' = [ok |-> ~LeafFails(t), endTag |-> Null]
                            /\ pc' = "handle"
                            /\ UNCHANGED frames
    /\ pos' = pos + 1
    /\ UNCHANGED <<text, deleteVars, walkVars>>

\* The text ends inside the frame: the loop ends, and ParseDeep() returns 0.
TextEnds ==
    /\ pc = "loop"
    /\ pos > Len(text)
    /\ result' = [ok |-> FALSE, endTag |-> Null]
    /\ pc' = "return"
    /\ UNCHANGED <<text, pos, frames, cur, node, poolVars, errorID, deleteVars, walkVars>>

\* DeleteNode(cur), then go on at pc: ~XMLElement() frees the attributes first.
StartDelete(then) ==
    /\ deleting' = <<cur>>
    /\ attrAllocs' = attrAllocs - Len(node[cur].attrs)
    /\ after' = then
    /\ cur' = Null
    /\ pc' = "delete"

\* if ( !p ): the node is deleted and the loop ends.
ChildFailed ==
    /\ pc = "handle"
    /\ ~result.ok
    /\ errorID' = IF errorID = "none" THEN "parsing" ELSE errorID
    /\ StartDelete("return")
    /\ UNCHANGED <<text, pos, frames, result, node, chunkVars, walkVars>>

\* An end tag is given to the caller, if it wants it, and deleted.
EndTag ==
    /\ pc = "handle"
    /\ result.ok /\ node[cur].closing = "closing"
    /\ result' = [ok |-> TRUE, endTag |-> IF Len(frames) > 1 THEN Name(cur) ELSE Null]
    /\ untracked' = [untracked EXCEPT !["element"] = @ - 1]
    /\ StartDelete("return")
    /\ UNCHANGED <<text, pos, frames, node, free, blocks, currentAllocs, errorID, walkVars>>

\* Mutation of Mismatch: any end tag will do.
MismatchUnnamed == IsElement(cur) /\ (result.endTag = Null <=> node[cur].closing = "open")

Mismatch == IsElement(cur) /\
    IF result.endTag = Null THEN node[cur].closing = "open"
    ELSE node[cur].closing # "open" \/ result.endTag # Name(cur)

ChildMismatched ==
    /\ pc = "handle"
    /\ result.ok /\ node[cur].closing # "closing" /\ Mismatch
    /\ errorID' = "mismatch"
    /\ result' = [ok |-> FALSE, endTag |-> Null]
    /\ StartDelete("return")
    /\ UNCHANGED <<text, pos, frames, node, chunkVars, walkVars>>

ChildInserted ==
    /\ pc = "handle"
    /\ result.ok /\ node[cur].closing # "closing" /\ ~Mismatch
    /\ node' = InsertEndChild(node, Last(frames), cur)
    /\ untracked' = [untracked EXCEPT ![PoolOf(cur)] = @ - 1]
    /\ cur' = Null
    /\ pc' = "loop"
    /\ UNCHANGED <<text, pos, frames, result, free, blocks, currentAllocs, attrAllocs, errorID,
                   deleteVars, walkVars>>

\* ParseDeep() of an element returns to its parent's.
Return ==
    /\ pc = "return"
    /\ Len(frames) > 1
    /\ cur' = Last(frames)
    /\ frames' = Front(frames)
    /\ pc' = "handle"
    /\ UNCHANGED <<text, pos, result, node, poolVars, errorID, deleteVars, walkVars>>
-----------------------------------------------------------------------------
(* DeleteNode(): ~XMLElement() frees the attributes, then ~XMLNode() unlinks and *)
(* deletes the children *)

\* Mutation of DeleteChild: the child is only unlinked.
UnlinkChild ==
    /\ pc = "delete" /\ deleting # << >>
    /\ node[Last(deleting)].first # Null
    /\ node' = Unlink(node, node[Last(deleting)].first)
    /\ UNCHANGED <<text, pc, pos, frames, cur, result, poolVars, errorID, deleteVars, walkVars>>

DeleteChild ==
    /\ pc = "delete" /\ deleting # << >>
    /\ LET c == node[Last(deleting)].first IN
         /\ c # Null
         /\ node' = Unlink(node, c)
         /\ deleting' = Append(deleting, c)
         /\ attrAllocs' = attrAllocs - Len(node[c].attrs)
    /\ UNCHANGED <<text, pc, pos, frames, cur, result, chunkVars, errorID, after, walkVars>>

\* The node has no children any more, and is freed.
FreeNode ==
    /\ pc = "delete" /\ deleting # << >>
    /\ LET x == Last(deleting) IN
         /\ x # Doc /\ node[x].first = Null
         /\ node' = [y \in DOMAIN node \ {x} |-> node[y]]
         /\ free' = [free EXCEPT ![PoolOf(x)] = <<x>> \o @]
         /\ currentAllocs' = [currentAllocs EXCEPT ![PoolOf(x)] = @ - 1]
    /\ deleting' = Front(deleting)
    /\ UNCHANGED <<text, pc, pos, frames, cur, result, blocks, untracked, attrAllocs, errorID, after,
                   walkVars>>

Deleted ==
    /\ pc = "delete"
    /\ deleting = << >> \/ (deleting = <<Doc>> /\ node[Doc].first = Null)
    /\ deleting' = << >>
    /\ pc' = after
    /\ after' = "none"
    /\ UNCHANGED <<text, pos, frames, cur, result, node, poolVars, errorID, walkVars>>
-----------------------------------------------------------------------------
(* XMLDocument::Parse( const char*, size_t ), then ParseZoneTopology() *)

Parse ==
    /\ pc = "start"
    /\ IF text = << >> THEN pc' = "done" /\ errorID' = "empty"
                       ELSE pc' = "loop" /\ UNCHANGED errorID
    /\ UNCHANGED <<text, pos, frames, cur, result, node, poolVars, deleteVars, walkVars>>

\* ParseDeep() of the document returns.  After an error what there is of the tree
\* is deleted ...
ParseReturns ==
    /\ pc = "return"
    /\ frames = <<Doc>>
    /\ IF errorID = "none"
       THEN /\ pc' = "walk"
            /\ cursor' = node[Doc].first
            /\ UNCHANGED deleteVars
       ELSE /\ pc' = "delete"
            /\ deleting' = <<Doc>> /\ after' = "clearPools"
            /\ UNCHANGED cursor
    /\ UNCHANGED <<text, pos, frames, cur, result, node, poolVars, errorID, level, visited, crash>>

\* ... and the pools are cleared, with the blocks.
ClearPools ==
    /\ pc = "clearPools"
    /\ free' = [k \in Pools |-> << >>]
    /\ blocks' = [k \in Pools |-> 0]
    /\ currentAllocs' = [k \in Pools |-> 0]
    /\ untracked' = [k \in Pools |-> 0]
    /\ attrAllocs' = 0
    /\ pc' = "done"
    /\ UNCHANGED <<text, pos, frames, cur, result, node, errorID, deleteVars, walkVars>>

\* Mutation of PassOver: the search ends at a node that is no element.
PassOverElements ==
    /\ pc = "walk" /\ cursor # Null
    /\ ~(IsElement(cursor) /\ Name(cursor) = Path[level])
    /\ cursor' = IF IsElement(cursor) THEN node[cursor].next ELSE Null
    /\ UNCHANGED <<text, pc, pos, frames, cur, result, node, poolVars, errorID, deleteVars,
                   level, visited, crash>>

\* FirstChildElement() and NextSiblingElement() pass over other nodes.
PassOver ==
    /\ pc = "walk" /\ cursor # Null
    /\ ~(IsElement(cursor) /\ Name(cursor) = Path[level])
    /\ cursor' = node[cursor].next
    /\ UNCHANGED <<text, pc, pos, frames, cur, result, node, poolVars, errorID, deleteVars,
                   level, visited, crash>>

Descend ==
    /\ pc = "walk" /\ cursor # Null /\ level < Len(Path)
    /\ IsElement(cursor) /\ Name(cursor) = Path[level]
    /\ level' = level + 1
    /\ cursor' = node[cursor].first
    /\ UNCHANGED <<text, pc, pos, frames, cur, result, node, poolVars, errorID, deleteVars,
                   visited, crash>>

\* GetText() of the element, null if its first child is not a text.
HasText(x) == node[x].first # Null /\ PoolOf(node[x].first) = "text"

\* A null from Attribute() or GetText() goes into a std::string.
VisitPlayer ==
    /\ pc = "walk" /\ cursor # Null /\ level = Len(Path)
    /\ IsElement(cursor) /\ Name(cursor) = Path[level]
    /\ IF Wanted \in Range(node[cursor].attrs) /\ HasText(cursor)
       THEN /\ visited' = Append(visited, node[cursor].value)
            /\ cursor' = node[cursor].next
            /\ UNCHANGED <<pc, crash>>
       ELSE /\ crash' = "nullString"
            /\ pc' = "done"
            /\ UNCHANGED <<visited, cursor>>
    /\ UNCHANGED <<text, pos, frames, cur, result, node, poolVars, errorID, deleteVars, level>>

\* Nothing more is found, and ~XMLDocument() clears the document.
WalkEnds ==
    /\ pc = "walk" /\ cursor = Null
    /\ pc' = "delete"
    /\ deleting' = <<Doc>> /\ after' = "done"
    /\ UNCHANGED <<text, pos, frames, cur, result, node, poolVars, errorID, walkVars>>

DocumentNext ==
    \/ Parse \/ Identify \/ TextEnds \/ ChildFailed \/ EndTag \/ ChildMismatched \/ ChildInserted
    \/ Return \/ DeleteChild \/ FreeNode \/ Deleted \/ ParseReturns \/ ClearPools
    \/ PassOver \/ Descend \/ VisitPlayer \/ WalkEnds

DocumentSpec == DocumentInit /\ [][DocumentNext]_documentVars
-----------------------------------------------------------------------------
(* What a text means, without a parser *)

\* Start tags less end tags among the tokens i .. j.
Balance(i, j) == Cardinality({k \in i .. j : text[k].kind = "open"})
                 - Cardinality({k \in i .. j : text[k].kind = "close"})

\* The start tag that token i is inside of, 0 if there is none.
Encloser(i) ==
    LET open == {j \in 1 .. i - 1 : text[j].kind = "open" /\ Balance(j, i - 1) = 1}
    IN CHOOSE j \in open \cup {0} : \A k \in open : k <= j

\* The parser stops, content, at an end tag outside of every element.
Stops == {i \in DOMAIN text : text[i].kind = "close" /\ Encloser(i) = 0}
Read == {i \in DOMAIN text : \A s \in Stops : i < s}

WellFormed ==
    /\ text # << >>
    /\ \A i \in Read :
         /\ text[i].kind \notin {"cut", "cutCdata", "stray"}
         /\ text[i].kind = "text" => i < Len(text)
         /\ text[i].kind \in {"open", "empty"} => Duplicates(text[i].attrs) = {}
         /\ text[i].kind = "close" => text[Encloser(i)].name = text[i].name
         /\ text[i].kind = "open" => \E c \in Read : text[c].kind = "close" /\ Encloser(c) = i

Elements(parent, name) == {i \in Read :
    text[i].kind \in {"open", "empty"} /\ text[i].name = name /\ Encloser(i) = parent}

\* The first element Path[1], in it the first Path[2], and so on; 0: the document,
\* -1: none.
Step(parent, name) ==
    LET found == Elements(parent, name)
    IN IF found = {} THEN -1 ELSE CHOOSE i \in found : \A j \in found : i <= j
PathEnd[l \in 0 .. Len(Path) - 1] == IF l = 0 THEN 0 ELSE Step(PathEnd[l - 1], Path[l])
-----------------------------------------------------------------------------
(* Properties *)

Nodes == DOMAIN node \ {Doc}
Chunks(k) == {<<k, i>> : i \in 1 .. blocks[k] * Count}

DocumentTypeOK ==
    /\ pc \in {"start", "loop", "handle", "return", "delete", "clearPools", "walk", "done"}
    /\ pos \in 1 .. Len(text) + 1
    /\ cur \in Nodes \cup {Null}
    /\ result.ok \in BOOLEAN
    /\ Head(frames) = Doc /\ Range(Tail(frames)) \subseteq Nodes
    /\ Range(deleting) \subseteq DOMAIN node
    /\ \A x \in DOMAIN node : {node[x].parent, node[x].first, node[x].last} \subseteq DOMAIN node \cup {Null}
    /\ \A k \in Pools : free[k] \in Seq(Chunks(k)) /\ currentAllocs[k] \in Nat
    /\ attrAllocs \in Nat
    /\ errorID \in {"none", "empty", "text", "cdata", "comment", "attribute", "mismatch", "parsing"}
    /\ level \in 1 .. Len(Path) /\ cursor \in DOMAIN node \cup {Null}
    /\ crash \in {"none", "nullString"}

\* The children of a node are one list: from first to last along next, and back
\* along prev, whatever is parsed, unlinked and deleted, in whichever order.  (And
\* everything has its type.)
Children(x) == {c \in Nodes : node[c].parent = x}
WellLinked == DocumentTypeOK /\ \A x \in DOMAIN node :
    /\ Children(x) = {} => node[x].first = Null /\ node[x].last = Null
    /\ Children(x) # {} =>
         /\ node[x].first \in Children(x) /\ node[node[x].first].prev = Null
         /\ node[x].last \in Children(x) /\ node[node[x].last].next = Null
    /\ \A c \in Children(x) :
         /\ node[c].next # Null => node[c].next \in Children(x) /\ node[node[c].next].prev = c
         /\ node[c].next = Null => c = node[x].last
         /\ node[c].prev = Null => c = node[x].first

\* No chunk is lost or handed out twice: each is free, once, or the memory of one
\* node, which is in the tree or in the hands of a call that has not returned.
\* When the document is gone all have come back, and the counters that the
\* assertions of Clear() compare agree.
ChunksOnce ==
    /\ \A k \in Pools :
         /\ IsInjective(free[k])
         /\ Range(free[k]) \cup {x \in Nodes : PoolOf(x) = k} = Chunks(k)
         /\ Cardinality({x \in Nodes : PoolOf(x) = k}) = currentAllocs[k]
         /\ Len(free[k]) + currentAllocs[k] = blocks[k] * Count
    /\ \A x \in Nodes : node[x].parent = Null =>
         x \in Range(frames) \cup {cur} \cup Range(deleting)
    /\ pc = "done" /\ crash = "none" =>
         \A k \in Pools : currentAllocs[k] = 0 /\ untracked[k] = 0 /\ attrAllocs = 0

\* Parse() succeeds on the well-formed texts and no others, with or without text
\* or comments before the first element; its tree is then that of the text: a
\* node for each token but the end tags, inside the element it is in there, and
\* after its elder siblings.  A start tag that has an attribute twice is not
\* well-formed: of the code and the comment in it, which differ, this is the code
\* (DuplicatesAdded).
ParsedIsSource ==
    /\ pc = "walk" => /\ WellFormed
                      /\ {node[x].value : x \in Nodes} = {i \in Read : text[i].kind # "close"}
                      /\ \A x \in Nodes :
                           /\ node[x].value # 0 /\ node[node[x].parent].value = Encloser(node[x].value)
                           /\ node[x].next # Null => node[x].value < node[node[x].next].value
    /\ pc = "done" /\ WellFormed => errorID = "none"

\* What the comment of ParseAttributes() says (src/tinyxml2.cpp:1626): an attribute
\* that is duplicated in the source is not detected, and added twice.  It is
\* detected, five lines above the comment, and Parse() fails: no run claims this.
DuplicatesAdded == \A x \in Nodes :
    text[node[x].value].kind \in {"open", "empty"} => node[x].attrs = text[node[x].value].attrs

\* ParseZoneTopology() reads every player of the first list of players, each once
\* and in order, unless a player lacks its name or an attribute.
EveryPlayerVisited == pc = "done" /\ errorID = "none" /\ crash = "none" =>
    /\ Range(visited) = Elements(PathEnd[Len(Path) - 1], Last(Path))
    /\ \A i, j \in DOMAIN visited : i < j => visited[i] < visited[j]
==============================================================================
