-------------------------------- MODULE Vdf --------------------------------
(***************************************************************************)
(* The reader of Valve's KeyValues text (vdf.c), by which Steam's libraries*)
(* and the manifests of the games are read: the tokens, one pushed back    *)
(* where a trailing conditional is looked for, the blocks that are open,   *)
(* and the objects of the tree, any of which there may be no memory for.   *)
(*                                                                         *)
(* A token is a text, a conditional, a brace, "=", "include", an "empty"   *)
(* string, a "nul" that ends the text wherever it is, a text too "long"    *)
(* for its buffer, a string that is left "open", or the "end".  Names and  *)
(* values are compared, never looked into.                                 *)
(***************************************************************************)
EXTENDS Integers, Sequences, FiniteSetsExt, SequencesExt

CONSTANTS Names,        \* texts of keys and values
          Conditionals, \* expressions that conditionals are made of
          Holds,        \* what evaluate_conditional makes of each
          Inputs,       \* inputs: the kinds of their tokens, and how many there are at most
          VdfMaxDepth   \* VDF_MAX_DEPTH

ASSUME VdfAssumption ==
    /\ VdfMaxDepth \in Nat \ {0} /\ \A i \in Inputs : i.length \in Nat
    /\ Holds \in [Conditionals -> BOOLEAN] /\ \A e \in Conditionals : e.meant \in BOOLEAN

\* A conditional has the text that is "written" and the value that is "meant".
Token(k) == [kind |-> k, text |-> k]
Tokens == {[kind |-> "text", text |-> n] : n \in Names}
     \cup {[kind |-> "cond", text |-> e] : e \in Conditionals}
     \cup {Token(k) : k \in {"{", "}", "=", "include", "empty", "nul", "long", "open", "end"}}
NoToken == Token("none")
Text(t) == IF t.kind = "cond" THEN "cond" ELSE t.text

VARIABLES
    input,     \* of which the text is one
    tokens,    \* number of its tokens that were read
    ahead,     \* the token that was pushed back, NoToken
    overflow,  \* the end of the input was read
    vdfError,  \* Steam's or of memory
    objects,   \* the objects that are allocated
    freshObject, \* the next one to be allocated
    current,   \* the top-level entry that is read, 0: its object was handed over or freed
    entryKept, \* its conditional holds
    blocks,    \* the blocks that are open, the innermost last
    expects    \* what is read next

inputVars == <<input, tokens, ahead, overflow>>
treeVars  == <<objects, freshObject, current>>
vdfVars   == <<inputVars, vdfError, treeVars, entryKept, blocks, expects>>

Root == 1
NewObject(k) == [key |-> k, type |-> "none", children |-> <<>>]

\* A block that is open: its object, the child that is being read (0: none), whether the
\* child's conditional holds, and as the text has it.  The entries of the block so far
\* ("written") are what the text says, for the properties only.
Block(o) == [object |-> o, child |-> 0, kept |-> TRUE, meant |-> TRUE, drops |-> 0, written |-> <<>>]

VdfInit ==
    /\ input \in Inputs
    /\ tokens = 0 /\ ahead = NoToken /\ overflow = FALSE /\ vdfError = FALSE
    /\ objects = [o \in {Root} |-> NewObject("none")]
    /\ freshObject = Root + 1 /\ current = Root
    /\ entryKept = TRUE /\ blocks = <<>> /\ expects = "entry"

----------------------------------------------------------------------------
(* Tokens: each step reads one.                                             *)

Upcoming == IF overflow THEN {Token("end")}
            ELSE IF ahead # NoToken THEN {ahead}
            ELSE {Token("end")} \cup IF tokens < input.length
                                    THEN {t \in Tokens : t.kind \in input.kinds} ELSE {}

\* A token that was pushed back was counted, and the end is none.
Fetch(t) ==
    /\ t \in Upcoming
    /\ tokens' = IF ahead # NoToken \/ t.kind = "end" THEN tokens ELSE tokens + 1
    /\ UNCHANGED input

\* Behind the end there is nothing, and a NUL is never passed.
ReadToken(t) ==
    /\ Fetch(t)
    /\ overflow' = (overflow \/ t.kind \in {"open", "end"})
    /\ ahead' = IF t.kind = "nul" THEN t ELSE NoToken

\* The look-ahead: all but a conditional is read again.
PeekToken(t) ==
    /\ Fetch(t)
    /\ overflow' = FALSE
    /\ ahead' = IF t.kind = "cond" THEN NoToken ELSE t

TooLong(t) == t.kind = "long"

----------------------------------------------------------------------------
(* Objects                                                                  *)

\* What is below an object, itself included: it is in every set that has the object and,
\* with an object, its children.
ClosedBelow(objs, S) ==
    \A p \in S : \A i \in DOMAIN objs[p].children : objs[p].children[i] \in S
Below(objs, o) ==
    {x \in DOMAIN objs : \A S \in SUBSET DOMAIN objs : o \in S /\ ClosedBelow(objs, S) => x \in S}

FreeObject(objs, o) == [x \in DOMAIN objs \ Below(objs, o) |-> objs[x]]

ClearObject(objs, o) ==
    [x \in DOMAIN objs \ (Below(objs, o) \ {o}) |->
        IF x = o THEN NewObject(objs[o].key) ELSE objs[x]]

RemoveFirstNamed(objs, o, key) ==
    LET children == objs[o].children
        named == {i \in DOMAIN children : objs[children[i]].key = key}
    IN IF named = {} THEN objs
       ELSE FreeObject([objs EXCEPT ![o].children = RemoveAt(children, Min(named))],
                       children[Min(named)])

----------------------------------------------------------------------------
(* Top-level entries                                                        *)

ReadInclude(t) ==
    /\ expects' = IF overflow' \/ TooLong(t) THEN "finish" ELSE "include"
    /\ vdfError' = (vdfError \/ TooLong(t))
    /\ UNCHANGED treeVars

\* The first entry is read into the root, as is one after entries that were rejected;
\* later ones into an object that is dropped.
BeginEntry(t) ==
    \/ /\ IF current = 0
          THEN /\ objects' = [o \in DOMAIN objects \cup {freshObject} |->
                                IF o = freshObject THEN NewObject(Text(t)) ELSE objects[o]]
               /\ current' = freshObject /\ freshObject' = freshObject + 1
          ELSE /\ objects' = [objects EXCEPT ![current].key = Text(t)]
               /\ UNCHANGED <<current, freshObject>>
       /\ expects' = "brace" /\ vdfError' = (vdfError \/ TooLong(t))
    \/ expects' = "finish" /\ vdfError' = TRUE /\ UNCHANGED treeVars

ReadEntry ==
    /\ expects = "entry"
    /\ entryKept' = TRUE /\ UNCHANGED blocks
    /\ \E t \in Upcoming :
        /\ ReadToken(t)
        /\ \/ /\ overflow' \/ t.kind \in {"nul", "end"}
              /\ expects' = "finish" /\ UNCHANGED <<vdfError, treeVars>>
           \/ ~overflow' /\ t.kind = "include" /\ ReadInclude(t)
           \/ ~overflow' /\ t.kind \notin {"nul", "include"} /\ BeginEntry(t)

ReadIncluded ==
    /\ expects = "include"
    /\ \E t \in Upcoming :
        /\ ReadToken(t)
        /\ vdfError' = (vdfError \/ t.kind \in {"end", "nul", "empty", "long"})
        /\ expects' = IF overflow' \/ vdfError' THEN "finish" ELSE "entry"
    /\ UNCHANGED <<treeVars, entryKept, blocks>>

ReadBrace ==
    /\ expects \in {"brace", "braceOnly"}
    /\ UNCHANGED <<freshObject, current>>
    /\ \E t \in Upcoming :
        /\ ReadToken(t)
        /\ \/ /\ t.kind = "cond" /\ expects = "brace"
              /\ entryKept' = Holds[t.text]
              /\ expects' = "braceOnly" /\ UNCHANGED <<vdfError, objects, blocks>>
           \/ /\ t.kind = "{"
              /\ objects' = [objects EXCEPT ![current].type = "array"]
              /\ blocks' = <<Block(current)>>
              /\ expects' = "name" /\ UNCHANGED <<vdfError, entryKept>>
           \/ /\ t.kind # "{" /\ ~(t.kind = "cond" /\ expects = "brace")
              /\ vdfError' = TRUE
              /\ expects' = "entered" /\ UNCHANGED <<objects, entryKept, blocks>>

\* Mutant: the children of a rejected entry stay behind.
EndEntryForgetful ==
    /\ expects = "entered"
    /\ IF ~entryKept
       THEN objects' = [objects EXCEPT ![current] = NewObject(@.key)] /\ UNCHANGED current
       ELSE /\ objects' = IF current # Root THEN FreeObject(objects, current) ELSE objects
            /\ current' = 0
    /\ expects' = IF overflow \/ vdfError THEN "finish" ELSE "entry"
    /\ UNCHANGED <<inputVars, vdfError, freshObject, entryKept, blocks>>

\* After the block: a rejected entry's object is cleared, the first kept one is the root.
EndEntry ==
    /\ expects = "entered"
    /\ IF ~entryKept
       THEN objects' = ClearObject(objects, current) /\ UNCHANGED current
       ELSE /\ objects' = IF current # Root THEN FreeObject(objects, current) ELSE objects
            /\ current' = 0
    /\ expects' = IF overflow \/ vdfError THEN "finish" ELSE "entry"
    /\ UNCHANGED <<inputVars, vdfError, freshObject, entryKept, blocks>>

Finish ==
    /\ expects = "finish"
    /\ LET left == IF current \notin {0, Root} THEN FreeObject(objects, current) ELSE objects
       IN objects' = IF vdfError THEN FreeObject(left, Root) ELSE left
    /\ current' = 0 /\ expects' = "done"
    /\ UNCHANGED <<inputVars, vdfError, freshObject, entryKept, blocks>>

----------------------------------------------------------------------------
(* Blocks                                                                   *)

Innermost == blocks[Len(blocks)]
Update(b) == [blocks EXCEPT ![Len(blocks)] = b]
Decide(b, t) == [b EXCEPT !.kept = Holds[t.text], !.meant = t.text.meant]

ReadName ==
    /\ expects = "name"
    /\ UNCHANGED <<current, entryKept>>
    /\ \E t \in Upcoming :
        /\ ReadToken(t)
        /\ \/ /\ vdfError \/ t.kind \in {"end", "long", "empty", "nul"}
              /\ vdfError' = TRUE
              /\ expects' = "leave" /\ UNCHANGED <<objects, freshObject, blocks>>
           \/ /\ ~vdfError /\ t.kind = "}"
              /\ expects' = "leave" /\ UNCHANGED <<vdfError, objects, freshObject, blocks>>
           \/ /\ ~vdfError /\ t.kind \notin {"end", "long", "empty", "nul", "}"}
              /\ objects' = [o \in DOMAIN objects \cup {freshObject} |->
                                IF o = freshObject THEN NewObject(Text(t)) ELSE objects[o]]
              /\ blocks' = Update([Innermost EXCEPT !.child = freshObject, !.kept = TRUE,
                                                    !.meant = TRUE, !.drops = 0])
              /\ freshObject' = freshObject + 1
              /\ expects' = "value" /\ UNCHANGED vdfError
           \/ /\ ~vdfError /\ t.kind \notin {"end", "long", "empty", "nul", "}"}
              /\ vdfError' = TRUE
              /\ expects' = "leave" /\ UNCHANGED <<objects, freshObject, blocks>>

\* Mutant: a child that its block has no memory for is left to nobody.
AppendChildLeaky(objs, b, failed) ==
    \/ /\ ~failed /\ b.kept
       /\ objects' = [objs EXCEPT ![b.object].children = Append(@, b.child)]
       /\ vdfError' = FALSE
    \/ /\ failed \/ ~b.kept
       /\ objects' = FreeObject(objs, b.child)
       /\ vdfError' = failed
    \/ /\ ~failed /\ b.kept
       /\ objects' = objs
       /\ vdfError' = TRUE

\* The child is done.  What is not kept, or finds no memory in its block, is freed.
AppendChild(objs, b, failed) ==
    \/ /\ ~failed /\ b.kept
       /\ objects' = [objs EXCEPT ![b.object].children = Append(@, b.child)]
       /\ vdfError' = FALSE
    \/ /\ failed \/ ~b.kept
       /\ objects' = FreeObject(objs, b.child)
       /\ vdfError' = failed
    \/ /\ ~failed /\ b.kept
       /\ objects' = FreeObject(objs, b.child)
       /\ vdfError' = TRUE
Done(objs, b) ==
    [b EXCEPT !.child = 0,
              !.written = Append(@, [object |-> b.child, key |-> objs[b.child].key,
                                     meant |-> b.meant, drops |-> b.drops])]

LeaveBlock ==
    /\ expects = "leave"
    /\ IF Len(blocks) = 1
       THEN blocks' = <<>> /\ expects' = "entered" /\ UNCHANGED <<vdfError, objects>>
       ELSE LET outer == blocks[Len(blocks) - 1]
            IN /\ AppendChild(objects, outer, vdfError)
               /\ blocks' = [SubSeq(blocks, 1, Len(blocks) - 1)
                                EXCEPT ![Len(blocks) - 1] = Done(objects, outer)]
               /\ expects' = "name"
    /\ UNCHANGED <<inputVars, freshObject, current, entryKept>>

\* The token after a key and what belongs to the key: a block, or a value.
TakeValue(t, objs, b) ==
    \/ /\ t.kind \in {"end", "}", "cond"}
       /\ objects' = FreeObject(objs, b.child)
       /\ blocks' = Update([b EXCEPT !.child = 0])
       /\ vdfError' = TRUE /\ expects' = "leave"
    \/ /\ t.kind = "{"
       /\ objects' = [objs EXCEPT ![b.child].type = "array"]
       /\ blocks' = Append(Update(b), Block(b.child))
       /\ IF Len(blocks) + 1 > VdfMaxDepth
          THEN vdfError' = TRUE /\ expects' = "leave"
          ELSE expects' = "name" /\ UNCHANGED vdfError
    \/ /\ t.kind \notin {"end", "}", "cond", "{"}
       /\ objects' = [objs EXCEPT ![b.child].type = "string"]
       /\ blocks' = Update(b)
       /\ vdfError' = (vdfError \/ TooLong(t)) /\ expects' = "peek"
    \/ /\ t.kind \notin {"end", "}", "cond", "{"}
       /\ objects' = FreeObject(objs, b.child)
       /\ blocks' = Update([b EXCEPT !.child = 0])
       /\ vdfError' = TRUE /\ expects' = "name"

ReadValue ==
    /\ expects \in {"value", "valueOnly"}
    /\ UNCHANGED <<freshObject, current, entryKept>>
    /\ \E t \in Upcoming :
        /\ ReadToken(t)
        /\ \/ /\ t.kind = "cond" /\ expects = "value"
              /\ blocks' = Update(Decide(Innermost, t))
              /\ expects' = "valueOnly" /\ UNCHANGED <<vdfError, objects>>
           \/ /\ t.kind = "=" /\ expects' = "assigned" /\ UNCHANGED <<vdfError, objects, blocks>>
           \/ /\ t.kind # "=" /\ ~(t.kind = "cond" /\ expects = "value")
              /\ TakeValue(t, objects, Innermost)

\* A conditional that is true takes out the first earlier child of the name.
Drop(b) == IF b.kept THEN RemoveFirstNamed(objects, b.object, objects[b.child].key) ELSE objects
Dropping(b) == [b EXCEPT !.drops = @ + (IF b.meant THEN 1 ELSE 0)]

ReadAssigned ==
    /\ expects \in {"assigned", "assignedOnly"}
    /\ UNCHANGED <<freshObject, current, entryKept>>
    /\ \E t \in Upcoming :
        /\ ReadToken(t)
        /\ \/ /\ expects = "assigned" /\ t.kind = "cond"
              /\ blocks' = Update(Decide(Innermost, t))
              /\ expects' = "assignedOnly" /\ UNCHANGED <<vdfError, objects>>
           \/ /\ expects = "assigned" /\ t.kind # "cond"
              /\ TakeValue(t, objects, Innermost)
           \/ /\ expects = "assignedOnly"
              /\ TakeValue(t, Drop(Innermost), Dropping(Innermost))

\* After a value the next token is looked at for a conditional; any other is read again.
LookAhead ==
    /\ expects = "peek"
    /\ UNCHANGED <<freshObject, current, entryKept>>
    /\ \E t \in Upcoming :
        LET b == IF t.kind = "cond" THEN Decide(Innermost, t) ELSE Innermost
            told == IF t.kind = "cond" THEN Dropping(b) ELSE b
            left == IF t.kind = "cond" THEN Drop(b) ELSE objects
        IN /\ PeekToken(t)
           /\ AppendChild(left, b, vdfError \/ TooLong(t))
           /\ blocks' = Update(Done(left, told))
           /\ expects' = "name"

VdfNext ==
    \/ ReadEntry \/ ReadIncluded \/ ReadBrace \/ EndEntry \/ Finish
    \/ ReadName \/ ReadValue \/ ReadAssigned \/ LookAhead \/ LeaveBlock

VdfSpec == VdfInit /\ [][VdfNext]_vdfVars

----------------------------------------------------------------------------
(* Properties                                                               *)

\* Every object that is allocated has one owner: the caller's root, the entry that is
\* read, the block that reads the child, or the children of another; and an owner's
\* object is allocated.
Owners(o) ==
    (IF o = Root THEN {<<"root">>} ELSE {})
    \cup (IF o = current /\ o # Root THEN {<<"entry">>} ELSE {})
    \cup {<<"child", i>> : i \in {i \in DOMAIN blocks : blocks[i].child = o}}
    \cup UNION {{<<p, i>> : i \in {i \in DOMAIN objects[p].children : objects[p].children[i] = o}} :
                   p \in DOMAIN objects}

ObjectsAreOwnedOnce ==
    /\ expects # "done" => Root \in DOMAIN objects
    /\ \A o \in 1..freshObject - 1 : Cardinality(Owners(o)) = IF o \in DOMAIN objects THEN 1
                                                        ELSE IF o = Root THEN 1 ELSE 0

\* A rejected input leaves nothing, any other the first entry and what is in it.
NothingElseIsLeft ==
    expects = "done" => DOMAIN objects = IF vdfError THEN {} ELSE Below(objects, Root)

\* The children of a block are what its text says: entries that are kept, of which one
\* with a conditional behind it or behind "=" takes out the first that is left.
LeftOf(ws, k) ==
    LET left[n \in 0..Len(ws)] ==
            IF n = 0 THEN 0
            ELSE IF ws[n].key # k THEN left[n - 1]
            ELSE (IF left[n - 1] > ws[n].drops THEN left[n - 1] - ws[n].drops ELSE 0)
                 + (IF ws[n].meant THEN 1 ELSE 0)
    IN left[Len(ws)]
Stays(ws, i) ==
    /\ ws[i].meant
    /\ Cardinality({j \in i..Len(ws) : ws[j].key = ws[i].key /\ ws[j].meant})
          <= LeftOf(ws, ws[i].key)

BlocksAreAsWritten ==
    expects \in {"name", "leave"} /\ ~vdfError =>
        LET ws == Innermost.written
        IN objects[Innermost.object].children =
              SelectSeq([i \in DOMAIN ws |-> IF Stays(ws, i) THEN ws[i].object ELSE 0],
                        LAMBDA o : o # 0)

\* Whatever there is no memory for and wherever the text is malformed, what was read is
\* freed once (vdf.c:340-583).
TreesAreOwned == ObjectsAreOwnedOnce /\ NothingElseIsLeft
=============================================================================
