----------------------------- MODULE Changeset -----------------------------
(***************************************************************************)
(* The changes of a text (hume-editing/src/changeset/mod.rs, builder.rs)   *)
(* and the edits they are built for (hume-editing/src/edit/builder.rs).    *)
(*                                                                         *)
(* A text is a sequence of characters <<id, kind>> whose last is a line    *)
(* break; ids tell the characters apart.  Offsets count from 0, as in the  *)
(* code: offset p is before the character text[p + 1].                     *)
(***************************************************************************)
EXTENDS Integers, SequencesExt

IsBreak(c) == c[2] = "break"

Breaks(s) == Len(SelectSeq(s, IsBreak))

\* The line of offset p.
LineOf(text, p) == Breaks(SubSeq(text, 1, p))

\* An Operation over n characters; only an Insert has text.
Retain(n) == [kind |-> "retain", n |-> n, text |-> <<>>]
Delete(n) == [kind |-> "delete", n |-> n, text |-> <<>>]
Insert(s) == [kind |-> "insert", n |-> Len(s), text |-> s]

\* push_merge.
PushMerge(ops, op) ==
  IF op.n = 0 THEN ops
  ELSE IF ops # <<>> /\ Last(ops).kind = op.kind
    THEN Append(Front(ops), [op EXCEPT !.n = @ + Last(ops).n, !.text = Last(ops).text \o @])
    ELSE Append(ops, op)

Consumed(op) == IF op.kind = "insert" THEN 0 ELSE op.n
Produced(op) == IF op.kind = "delete" THEN 0 ELSE op.n

LenBefore(ops) == FoldLeft(LAMBDA n, op : n + Consumed(op), 0, ops)
LenAfter(ops)  == FoldLeft(LAMBDA n, op : n + Produced(op), 0, ops)

-----------------------------------------------------------------------------
(* Applying, inverting and composing *)

\* One operation of applied_rope: offset `old` of the old text is at
\* old + delta of the rope.
ApplyOp(s, op) ==
  LET at == s.old + s.delta
      rest(from) == SubSeq(s.rope, from + 1, Len(s.rope))
  IN  CASE op.kind = "retain" -> [s EXCEPT !.old = @ + op.n]
        [] op.kind = "delete" ->
             [rope |-> SubSeq(s.rope, 1, at) \o rest(at + op.n),
              old |-> s.old + op.n, delta |-> s.delta - op.n]
        [] op.kind = "insert" ->
             [s EXCEPT !.rope = SubSeq(@, 1, at) \o op.text \o rest(at), !.delta = @ + op.n]

Applied(ops, text) ==
  FoldLeft(ApplyOp, [rope |-> text, old |-> 0, delta |-> 0], ops).rope

\* is_valid_buffer_rope.
KeepsFinalBreak(text) == text # <<>> /\ IsBreak(Last(text))

\* ChangeSet::invert of ops, which apply to text.
InvertOp(text, s, op) ==
  CASE op.kind = "retain" -> [ops |-> PushMerge(s.ops, op), old |-> s.old + op.n]
    [] op.kind = "delete" ->
         [ops |-> PushMerge(s.ops, Insert(SubSeq(text, s.old + 1, s.old + op.n))),
          old |-> s.old + op.n]
    [] op.kind = "insert" -> [s EXCEPT !.ops = PushMerge(@, Delete(op.n))]

Invert(ops, text) ==
  FoldLeft(LAMBDA s, op : InvertOp(text, s, op), [ops |-> <<>>, old |-> 0], ops).ops

\* The first n characters of op, and advance_op: what is left of ops once
\* their first has been met for n.
Taken(op, n) ==
  IF op.kind = "insert" THEN Insert(SubSeq(op.text, 1, n)) ELSE [op EXCEPT !.n = n]
Advance(ops, n) ==
  LET op == Head(ops)
  IN  IF op.n > n
        THEN <<[op EXCEPT !.n = @ - n, !.text = SubSeq(@, n + 1, Len(@))]>> \o Tail(ops)
        ELSE Tail(ops)

\* The lockstep arms of compose: a, an Insert or a Retain, met by b, a Retain
\* or a Delete, over n characters of the text between.
Met(a, b, n) ==
  CASE b.kind = "retain" -> Taken(a, n)
    [] b.kind = "delete" /\ a.kind = "retain" -> Delete(n)
    [] b.kind = "delete" /\ a.kind = "insert" -> Delete(0)

\* ChangeSet::compose of a then b, after `out`.
RECURSIVE ComposeFrom(_, _, _)
ComposeFrom(a, b, out) ==
  CASE a = <<>> /\ b = <<>> -> out
    [] a # <<>> /\ Head(a).kind = "delete" -> ComposeFrom(Tail(a), b, PushMerge(out, Head(a)))
    [] b # <<>> /\ Head(b).kind = "insert" /\ (a = <<>> \/ Head(a).kind # "delete") ->
         ComposeFrom(a, Tail(b), PushMerge(out, Head(b)))
    [] OTHER ->
         LET n == IF Head(a).n < Head(b).n THEN Head(a).n ELSE Head(b).n
         IN  ComposeFrom(Advance(a, n), Advance(b, n), PushMerge(out, Met(Head(a), Head(b), n)))

Compose(a, b) == ComposeFrom(a, b, <<>>)

\* compose_all of a non-empty sequence, neighbours first.
RECURSIVE ComposeAll(_)
ComposeAll(css) ==
  IF Len(css) = 1 THEN css[1]
  ELSE ComposeAll([i \in 1 .. (Len(css) + 1) \div 2 |->
         IF 2 * i <= Len(css) THEN Compose(css[2 * i - 1], css[2 * i]) ELSE css[2 * i - 1]])

-----------------------------------------------------------------------------
(* Carrying positions through a change *)

OldAt(ops, i) == LenBefore(SubSeq(ops, 1, i - 1))
NewAt(ops, i) == LenAfter(SubSeq(ops, 1, i - 1))

\* OpWalk::seek: the first operation that ends among `later`, the offsets
\* after the probed position, an Insert ending after its place; Len(ops) + 1
\* when the position is past them all.
Sought(ops, later) ==
  LET limit(i) == OldAt(ops, i) + (IF ops[i].kind = "insert" THEN 1 ELSE ops[i].n)
      hits     == {i \in DOMAIN ops : limit(i) \in later}
  IN  IF hits = {} THEN Len(ops) + 1 ELSE Min(hits)

KindAt(ops, i) == IF i \in DOMAIN ops THEN ops[i].kind ELSE "retain"

\* PosMapCursor::map, on the side `assoc` of text inserted at pos.
MapPos(ops, pos, assoc) ==
  LET i == Sought(ops, pos + 1 .. LenBefore(ops) + 1)
  IN  NewAt(ops, i) +
        (CASE KindAt(ops, i) = "retain" -> pos - OldAt(ops, i)
           [] KindAt(ops, i) = "delete" -> 0
           [] KindAt(ops, i) = "insert" -> IF assoc = "after" THEN ops[i].n ELSE 0)

\* LineMapCursor::map_line: the line of a line's break, -1 for a deleted one.
MapLine(ops, text, line) ==
  LET later == {x \in 0 .. Len(text) + 1 : x > Len(text) \/ line < LineOf(text, x)}
      i   == Sought(ops, later)
      new == Applied(ops, text)
  IN  IF KindAt(ops, i) = "delete" THEN -1
      ELSE LineOf(new, NewAt(ops, i)) + (line - LineOf(text, OldAt(ops, i)))

\* map_ranges of one range <<start, end>>.
MapRange(ops, range) ==
  LET start == MapPos(ops, range[1], "after")
      end   == MapPos(ops, range[2], "before")
  IN  <<start, IF end < start THEN start ELSE end>>

\* edited_regions: the old spans the operations touch, merged where they
\* meet, each with what was inserted in its place.
AddRegion(s, op) ==
  LET end  == s.old + Consumed(op)
      last == Last(s.regions)
      meet == s.regions # <<>> /\ s.old <= last.end
  IN  [old |-> end,
       regions |->
         CASE op.kind = "retain" -> s.regions
           [] op.kind # "retain" /\ meet ->
                Append(Front(s.regions),
                       [last EXCEPT !.end = IF end > @ THEN end ELSE @, !.text = @ \o op.text])
           [] op.kind # "retain" /\ ~meet ->
                Append(s.regions, [start |-> s.old, end |-> end, text |-> op.text])]

EditedRegions(ops) == FoldLeft(AddRegion, [old |-> 0, regions |-> <<>>], ops).regions

-----------------------------------------------------------------------------
(* Building an edit *)

\* An item of an EditBuilder: it removes key .. end and inserts text at key.
\* An Anchor does neither, and only marks its place.
Item(key, end, text) == [key |-> key, end |-> end, text |-> text]

IsAnchor(item) == item.end = item.key /\ item.text = <<>>

\* EditBuilder::insert: at the end of the text only text ending with a break
\* goes after the final break.
InsertItem(text, at, s) ==
  LET key == IF at < Len(text) \/ KeepsFinalBreak(s) THEN at ELSE Len(text) - 1
  IN  Item(key, key, s)

\* Mutant of LeftAlone: what other items change inside is not asked.
LeftAloneAlways(text, items, order, k, old) ==
  LET item == items[order[k]]
  IN  item.end > item.key /\ item.text = SubSeq(text, item.key + 1, item.end)

\* A replacement by the text already there, when nothing else changes text
\* inside it: the items after it retain it.
LeftAlone(text, items, order, k, old) ==
  LET item == items[order[k]]
  IN  /\ item.end > item.key /\ item.text = SubSeq(text, item.key + 1, item.end)
      /\ old = item.key
      /\ \A j \in k + 1 .. Len(order) :
           items[order[j]].key < item.end => IsAnchor(items[order[j]])

\* One item of EditBuilder::drive.  `deletion` is the old start and the new
\* position of the deletion that ends at `old`, <<>> when none does.
DriveItem(text, items, order, ceiling, s, k) ==
  LET index  == order[k]
      item   == items[index]
      ahead  == item.key > s.old
      ops    == IF ahead THEN PushMerge(s.ops, Retain(item.key - s.old)) ELSE s.ops
      old    == IF ahead THEN item.key ELSE s.old
      open   == IF ahead THEN <<>> ELSE s.deletion
      before == LenAfter(ops)
      end    == IF item.end < ceiling THEN item.end ELSE ceiling
      cuts   == item.end > item.key /\ end > old
      cut    == IF cuts THEN PushMerge(ops, Delete(end - old)) ELSE ops
      span   == IF cuts /\ open = <<>> THEN <<item.key, before>> ELSE open
      reach  == IF cuts THEN end ELSE old
      done   == PushMerge(cut, Insert(item.text))
      inside == IsAnchor(item) /\ span # <<>> /\ item.key > span[1] /\ item.key < reach
  IN  IF LeftAlone(text, items, order, k, old)
        THEN [ops |-> ops, old |-> old, deletion |-> open,
              placed |-> [s.placed EXCEPT ![index] = <<before, before + Len(item.text)>>]]
        ELSE [ops |-> done, old |-> reach, deletion |-> span,
              placed |-> [s.placed EXCEPT ![index] =
                            IF inside THEN <<span[2], span[2]>> ELSE <<before, LenAfter(done)>>]]

\* EditBuilder::drive: the operations of the items, taken in the order of
\* their keys, and where each item starts and ends in the new text.
Drive(text, items, ceiling) ==
  LET order == SetToSortSeq(DOMAIN items,
                 LAMBDA i, j : \/ items[i].key < items[j].key
                               \/ items[i].key = items[j].key /\ i < j)
      s     == FoldLeft(LAMBDA t, k : DriveItem(text, items, order, ceiling, t, k),
                        [ops |-> <<>>, old |-> 0, deletion |-> <<>>,
                         placed |-> [i \in DOMAIN items |-> <<0, 0>>]],
                        [k \in DOMAIN items |-> k])
  IN  [ops |-> PushMerge(s.ops, Retain(Len(text) - s.old)), placed |-> s.placed]

\* apply_keeping_final_break of the items: the deletions stop at the final
\* break when the text would lose it.
Built(text, items) ==
  LET free == Drive(text, items, Len(text))
  IN  IF KeepsFinalBreak(Applied(free.ops, text)) THEN free
      ELSE Drive(text, items, Len(text) - 1)
=============================================================================
