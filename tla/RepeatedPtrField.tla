-------------------------- MODULE RepeatedPtrField --------------------------
(***************************************************************************)
(* RepeatedPtrField, the list of operations of a change set: an array of   *)
(* pointers whose first current_size_ elements are the list, and whose     *)
(* elements from there up to allocated_size_ are cleared objects that wait *)
(* to be used again. Objects pass between two fields, their caller and the *)
(* heap; nothing but the code below says who deletes them.                 *)
(*                                                                         *)
(* elements[f] is the array up to allocated_size_, which is its length.    *)
(***************************************************************************)
EXTENDS SequencesExt, Integers

CONSTANTS
  FieldNames, Parts,
  kMinRepeatedFieldAllocationSize,   \* 4 in the code
  MaxObjects, MaxOwn, MaxReserve     \* bounds: objects, those of the caller, Reserve

ASSUME SizeAssumption == kMinRepeatedFieldAllocationSize \in Nat \ {0}
ASSUME BoundAssumption == {MaxObjects, MaxOwn, MaxReserve} \subseteq Nat

Objects == 1..MaxObjects

VARIABLES
  elements, current_size, total_size,
  live,      \* the objects on the heap
  content,   \* content[o]: what is set in o
  own        \* the objects the caller must delete, or give away

vars == <<elements, current_size, total_size, live, content, own>>

Init ==
  /\ elements = [f \in FieldNames |-> << >>]
  /\ current_size = [f \in FieldNames |-> 0]
  /\ total_size = [f \in FieldNames |-> 0]
  /\ live = {}
  /\ content = [o \in Objects |-> {}]
  /\ own = << >>

\* n new objects of the heap; which is the heap's affair.
CanNew(n) == Cardinality(Objects \ live) >= n
New(n) == CHOOSE fresh \in [1..n -> Objects \ live] : IsInjective(fresh)

allocated_size(f) == Len(elements[f])

\* total_size_ after Reserve.
Reserved(total, new_size) ==
  IF total >= new_size THEN total
  ELSE Max({kMinRepeatedFieldAllocationSize, total * 2, new_size})

Reserve(f, new_size) ==
  /\ total_size' = [total_size EXCEPT ![f] = Reserved(@, new_size)]
  /\ UNCHANGED <<elements, current_size, live, content, own>>

Add(f) ==
  /\ \/ /\ current_size[f] < allocated_size(f)
        /\ UNCHANGED <<elements, total_size, live, content>>
     \/ /\ current_size[f] = allocated_size(f)
        /\ CanNew(1)
        /\ LET o == New(1)[1]
           IN  /\ elements' = [elements EXCEPT ![f] = Append(@, o)]
               /\ live' = live \cup {o}
               /\ content' = [content EXCEPT ![o] = {}]
        /\ total_size' = IF allocated_size(f) = total_size[f]
                         THEN [total_size EXCEPT ![f] = Reserved(@, @ + 1)]
                         ELSE total_size
  /\ current_size' = [current_size EXCEPT ![f] = @ + 1]
  /\ UNCHANGED own

\* Mutant of RemoveLast: the object is left as it is.
RemoveUncleared(f) ==
  /\ current_size[f] > 0
  /\ current_size' = [current_size EXCEPT ![f] = @ - 1]
  /\ UNCHANGED <<elements, total_size, live, content, own>>

RemoveLast(f) ==
  /\ current_size[f] > 0
  /\ content' = [content EXCEPT ![elements[f][current_size[f]]] = {}]
  /\ current_size' = [current_size EXCEPT ![f] = @ - 1]
  /\ UNCHANGED <<elements, total_size, live, own>>

\* Mutant of ClearedContent: the last object is forgotten.
ClearedButLast(f) ==
  [o \in Objects |->
     IF \E i \in 1..current_size[f] - 1 : elements[f][i] = o THEN {} ELSE content[o]]

ClearedContent(f) ==
  [o \in Objects |-> IF \E i \in 1..current_size[f] : elements[f][i] = o THEN {} ELSE content[o]]

Clear(f) ==
  /\ content' = ClearedContent(f)
  /\ current_size' = [current_size EXCEPT ![f] = 0]
  /\ UNCHANGED <<elements, total_size, live, own>>

\* How many objects f lacks for size elements.
Missing(f, size) == IF size > allocated_size(f) THEN size - allocated_size(f) ELSE 0

\* The contents once the elements of g are merged into those of into from size on, where
\* before holds the contents: merging into an object adds to what is set.
Merged(into, size, g, before) ==
  LET n == current_size[g]
      old(o) == IF o \in live THEN before[o] ELSE {}
  IN  [o \in Objects |->
         IF \E i \in 1..n : into[size + i] = o
         THEN old(o) \cup before[elements[g][CHOOSE i \in 1..n : into[size + i] = o]]
         ELSE old(o)]

\* The elements of g are merged into further ones of f, which now holds size elements.
MergeInto(f, g, size, before) ==
  LET need  == size + current_size[g]
      fresh == New(Missing(f, need))
      into  == elements[f] \o fresh
  IN  /\ CanNew(Missing(f, need))
      /\ total_size' = [total_size EXCEPT ![f] = Reserved(@, need)]
      /\ elements' = [elements EXCEPT ![f] = into]
      /\ current_size' = [current_size EXCEPT ![f] = need]
      /\ live' = live \cup ToSet(fresh)
      /\ content' = Merged(into, size, g, before)
      /\ UNCHANGED own

MergeFrom(f, g) == f # g /\ MergeInto(f, g, current_size[f], content)

CopyFrom(f, g) == f # g /\ MergeInto(f, g, 0, ClearedContent(f))

Swap(f, g) ==
  /\ f # g
  /\ elements' = [elements EXCEPT ![f] = elements[g], ![g] = elements[f]]
  /\ current_size' = [current_size EXCEPT ![f] = current_size[g], ![g] = current_size[f]]
  /\ total_size' = [total_size EXCEPT ![f] = total_size[g], ![g] = total_size[f]]
  /\ UNCHANGED <<live, content, own>>

SwapElements(f, i, j) ==
  /\ elements' = [elements EXCEPT ![f][i] = elements[f][j], ![f][j] = elements[f][i]]
  /\ UNCHANGED <<current_size, total_size, live, content, own>>

\* CloseGap moves the objects behind the gap, the cleared ones too.
CloseGap(f, start, num) ==
  /\ elements' = [elements EXCEPT ![f] = SubSeq(@, 1, start) \o SubSeq(@, start + num + 1, Len(@))]
  /\ current_size' = [current_size EXCEPT ![f] = @ - num]
  /\ UNCHANGED <<total_size, content>>

Gap(f, start, num) == SubSeq(elements[f], start + 1, start + num)

ExtractSubrange(f, start, num) ==
  /\ Len(own) + num <= MaxOwn
  /\ own' = own \o Gap(f, start, num)
  /\ CloseGap(f, start, num)
  /\ UNCHANGED live

DeleteSubrange(f, start, num) ==
  /\ live' = live \ ToSet(Gap(f, start, num))
  /\ CloseGap(f, start, num)
  /\ UNCHANGED own

\* Mutant of AddAllocated: the array grows when cleared objects fill it.
AddAllocatedGrowing(f) ==
  /\ own # << >>
  /\ LET n == current_size[f]
         c == elements[f]
         value == Last(own)
     IN  /\ elements' = [elements EXCEPT ![f] =
                           IF n < Len(c) THEN Append([c EXCEPT ![n + 1] = value], c[n + 1])
                           ELSE Append(c, value)]
         /\ total_size' = IF Len(c) = total_size[f]
                          THEN [total_size EXCEPT ![f] = Reserved(@, @ + 1)]
                          ELSE total_size
  /\ current_size' = [current_size EXCEPT ![f] = @ + 1]
  /\ own' = Front(own)
  /\ UNCHANGED <<live, content>>

\* Mutant of AddAllocated: a cleared object is overwritten.
AddAllocatedOver(f) ==
  /\ own # << >>
  /\ LET n == current_size[f]
         c == elements[f]
         value == Last(own)
     IN  /\ elements' = [elements EXCEPT ![f] =
                           IF n < Len(c) THEN [c EXCEPT ![n + 1] = value] ELSE Append(c, value)]
         /\ total_size' = [total_size EXCEPT ![f] = Reserved(@, n + 1)]
  /\ current_size' = [current_size EXCEPT ![f] = @ + 1]
  /\ own' = Front(own)
  /\ UNCHANGED <<live, content>>

\* The caller's object takes the place of the first cleared one. That is moved to the
\* end, or deleted where the array has no room for it.
AddAllocated(f) ==
  /\ own # << >>
  /\ LET n == current_size[f]
         c == elements[f]
         value == Last(own)
         array(s) == elements' = [elements EXCEPT ![f] = s]
     IN  \/ /\ n = total_size[f]
            /\ array(Append(c, value))
            /\ total_size' = [total_size EXCEPT ![f] = Reserved(@, @ + 1)]
            /\ UNCHANGED live
         \/ /\ n < total_size[f] /\ Len(c) = total_size[f]
            /\ array([c EXCEPT ![n + 1] = value])
            /\ live' = live \ {c[n + 1]}
            /\ UNCHANGED total_size
         \/ /\ n < Len(c) /\ Len(c) < total_size[f]
            /\ array(Append([c EXCEPT ![n + 1] = value], c[n + 1]))
            /\ UNCHANGED <<total_size, live>>
         \/ /\ n = Len(c) /\ n < total_size[f]
            /\ array(Append(c, value))
            /\ UNCHANGED <<total_size, live>>
  /\ current_size' = [current_size EXCEPT ![f] = @ + 1]
  /\ own' = Front(own)
  /\ UNCHANGED content

\* The last allocated object takes the place of the one that leaves.
ReleaseLast(f) ==
  /\ current_size[f] > 0
  /\ Len(own) < MaxOwn
  /\ own' = Append(own, elements[f][current_size[f]])
  /\ elements' = [elements EXCEPT ![f] = Front([@ EXCEPT ![current_size[f]] = Last(elements[f])])]
  /\ current_size' = [current_size EXCEPT ![f] = @ - 1]
  /\ UNCHANGED <<total_size, live, content>>

\* Mutant of AddCleared: the array does not grow.
AddClearedInPlace(f) ==
  /\ own # << >>
  /\ content[Last(own)] = {}
  /\ elements' = [elements EXCEPT ![f] = Append(@, Last(own))]
  /\ own' = Front(own)
  /\ UNCHANGED <<current_size, total_size, live, content>>

\* "The element must be cleared prior to calling this method."
AddCleared(f) ==
  /\ own # << >>
  /\ content[Last(own)] = {}
  /\ elements' = [elements EXCEPT ![f] = Append(@, Last(own))]
  /\ total_size' = IF allocated_size(f) = total_size[f]
                   THEN [total_size EXCEPT ![f] = Reserved(@, @ + 1)]
                   ELSE total_size
  /\ own' = Front(own)
  /\ UNCHANGED <<current_size, live, content>>

ReleaseCleared(f) ==
  /\ allocated_size(f) > current_size[f]
  /\ Len(own) < MaxOwn
  /\ own' = Append(own, Last(elements[f]))
  /\ elements' = [elements EXCEPT ![f] = Front(@)]
  /\ UNCHANGED <<current_size, total_size, live, content>>

\* The field is destroyed, and another one made in its place.
Destroy(f) ==
  /\ live' = live \ ToSet(elements[f])
  /\ elements' = [elements EXCEPT ![f] = << >>]
  /\ current_size' = [current_size EXCEPT ![f] = 0]
  /\ total_size' = [total_size EXCEPT ![f] = 0]
  /\ UNCHANGED <<content, own>>

\* The caller makes, deletes and fills objects; those of a field by way of Mutable.
CallerNew ==
  /\ Len(own) < MaxOwn /\ CanNew(1)
  /\ LET o == New(1)[1]
     IN  /\ own' = Append(own, o)
         /\ live' = live \cup {o}
         /\ content' = [content EXCEPT ![o] = {}]
  /\ UNCHANGED <<elements, current_size, total_size>>

CallerDelete ==
  /\ own # << >>
  /\ own' = Front(own)
  /\ live' = live \ {Last(own)}
  /\ UNCHANGED <<elements, current_size, total_size, content>>

Mutable ==
  /\ \E p \in Parts :
       \/ \E i \in DOMAIN own : content' = [content EXCEPT ![own[i]] = @ \cup {p}]
       \/ \E f \in FieldNames : \E i \in 1..current_size[f] :
            content' = [content EXCEPT ![elements[f][i]] = @ \cup {p}]
  /\ UNCHANGED <<elements, current_size, total_size, live, own>>

Next ==
  \/ CallerNew \/ CallerDelete \/ Mutable
  \/ \E f \in FieldNames :
       \/ Add(f) \/ RemoveLast(f) \/ Clear(f) \/ Destroy(f)
       \/ AddAllocated(f) \/ ReleaseLast(f) \/ AddCleared(f) \/ ReleaseCleared(f)
       \/ \E n \in 1..MaxReserve : Reserve(f, n)
       \/ \E g \in FieldNames : MergeFrom(f, g) \/ CopyFrom(f, g) \/ Swap(f, g)
       \/ \E i, j \in 1..current_size[f] : SwapElements(f, i, j)
       \/ \E start \in 0..current_size[f] : \E num \in 1..current_size[f] - start :
            ExtractSubrange(f, start, num) \/ DeleteSubrange(f, start, num)

Spec == Init /\ [][Next]_vars

-----------------------------------------------------------------------------
\* The three sizes are in order: no pointer is written behind the array.
TypeOK ==
  /\ live \subseteq Objects /\ content \in [Objects -> SUBSET Parts]
  /\ own \in BoundedSeq(live, MaxOwn)
  /\ elements \in [FieldNames -> Seq(live)]
  /\ current_size \in [FieldNames -> Nat] /\ total_size \in [FieldNames -> Nat]
  /\ \A f \in FieldNames :
       current_size[f] <= allocated_size(f) /\ allocated_size(f) <= total_size[f]

\* Every object on the heap has exactly one owner, a field or the caller: nothing is
\* deleted twice, used after it was deleted, or never deleted.
OwnedOnce ==
  /\ IsInjective(own)
  /\ \A f \in FieldNames :
       IsInjective(elements[f]) /\ ToSet(elements[f]) \cap ToSet(own) = {}
  /\ \A f, g \in FieldNames : f # g => ToSet(elements[f]) \cap ToSet(elements[g]) = {}
  /\ live = ToSet(own) \cup UNION {ToSet(elements[f]) : f \in FieldNames}

\* Cleared objects are clear: "they are cleared and kept so that they can be reused
\* later" (repeated_field.h:520).
ClearedAreClear ==
  \A f \in FieldNames : \A i \in current_size[f] + 1..allocated_size(f) :
    content[elements[f][i]] = {}

\* Adding elements enlarges an array (rather than taking another field's, as Swap
\* does) only if they do not fit in, whatever cleared objects it holds: "otherwise a
\* loop calling AddAllocated() followed by Clear() would leak memory"
\* (repeated_field.h:937).
GrowsWhenFull ==
  [][\A f \in FieldNames :
       (total_size'[f] > total_size[f] /\ current_size'[f] > current_size[f]) =>
         \/ current_size'[f] > total_size[f]
         \/ \E g \in FieldNames \ {f} : elements'[f] = elements[g]]_vars

\* The fields are lists of elements, whoever allocated these and however often.
Lists == INSTANCE ElementLists WITH
  list <- [f \in FieldNames |-> [i \in 1..current_size[f] |-> content[elements[f][i]]]],
  own <- [i \in DOMAIN own |-> content[own[i]]]

ImplementsLists == Lists!Spec
=============================================================================
