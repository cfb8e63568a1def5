----------------------------- MODULE Positions -----------------------------
(***************************************************************************)
(* What survives the changes of a text: its change log                     *)
(* (hume-editing/src/change_log.rs), and a pane's selection and jump list  *)
(* (hume-editor/src/editor/jump_list.rs), carried through every change by  *)
(* Buffer::install and PositionStores.                                     *)
(*                                                                         *)
(* Two buffers: "here" is edited, undone and replaced; "there" only exists *)
(* to be jumped to and closed.  A selection is its primary head.           *)
(***************************************************************************)
EXTENDS Changeset, FiniteSets

CONSTANTS
  FirstText,      \* the text of "here" at the start
  Kinds,          \* the kinds of the characters an item inserts
  MaxEntries,     \* MAX_ENTRIES of the change log
  MaxHeldChars,   \* MAX_HELD_CHARS of the change log
  MinLines,       \* jump_list_min_lines
  Capacities,     \* the values jump_list_capacity is given
  Budgets         \* bounds: the changes, the items of the edits and the jumps

ASSUME PositionsAssumption ==
  /\ KeepsFinalBreak(FirstText)
  /\ {MaxEntries, MaxHeldChars, MinLines} \subseteq Nat
  /\ Capacities \subseteq Nat \ {0}
  /\ Budgets \subseteq [edits : Nat, items : Nat, jumps : Nat]

VARIABLES
  text,      \* the live text of "here"
  version,   \* its TextVersion
  log,       \* the steps of its ChangeLog
  past,      \* every generation's text and version, the live one last
  asked,     \* the edit that made the live text, NoEdit when none did
  shown,     \* the buffer the pane shows, "" once "there" is closed
  head,      \* the pane's head in "here"
  open,      \* whether "there" is open
  jumps,     \* the pane's JumpList: entries, cursor and capacity
  pending,   \* the navigations running, innermost last
  left,      \* where the last jump-backward from the present left from
  budget     \* what is left of the bounds

texts == <<text, version, log, past, asked>>
pane  == <<shown, head, open>>
vars  == <<texts, pane, jumps, pending, left, budget>>

NoEdit  == [before |-> <<>>, items |-> <<>>, built |-> <<>>]
NoEntry == [buffer |-> "none", head |-> 0, line |-> 0, on |-> 0]
Lost    == 0   \* the id of a character that was deleted

\* The generation of the live text.
Generation == Len(past)

Init ==
  /\ text = FirstText
  /\ version = 1
  /\ log = <<>>
  /\ past = <<[text |-> FirstText, version |-> 1]>>
  /\ asked = NoEdit
  /\ shown = "here"
  /\ head = 0
  /\ open = TRUE
  /\ jumps = [entries |-> <<>>, cursor |-> 0, capacity |-> Max(Capacities)]
  /\ pending = <<>>
  /\ left = NoEntry
  /\ budget \in Budgets

-----------------------------------------------------------------------------
(* The change log *)

\* ChangeLog::push: the oldest steps go while either bound is passed.
RECURSIVE Bounded(_)
Bounded(steps) ==
  IF \/ Len(steps) > MaxEntries
     \/ FoldLeft(LAMBDA n, step : n + step.chars, 0, steps) > MaxHeldChars
    THEN Bounded(Tail(steps)) ELSE steps

Inserted(ops) == FoldLeft(LAMBDA n, op : IF op.kind = "insert" THEN n + op.n ELSE n, 0, ops)

\* ChangeLog::record and record_replace, of the step that leaves the live
\* text; `undo` is <<>> for a replacement, whose `known` is FALSE.
RecordStep(ops) ==
  LET undo == Invert(ops, text)
  IN  Bounded(Append(log, [from |-> Generation, known |-> TRUE, undo |-> undo,
                           chars |-> Inserted(undo)]))
RecordReplace ==
  Bounded(Append(log, [from |-> Generation, known |-> FALSE, undo |-> <<>>, chars |-> 0]))

\* The steps `since` composes for generation g: those from the last that
\* starts there, newest first.  <<>> when it cannot answer.
StepsSince(g) ==
  LET from == {i \in DOMAIN log : log[i].from = g}
  IN  IF from = {} THEN <<>> ELSE Reverse(SubSeq(log, Max(from), Len(log)))

Answers(g) == LET s == StepsSince(g) IN s # <<>> /\ \A i \in DOMAIN s : s[i].known

\* The net undo of ChangeLog::since.
NetUndo(g) == ComposeAll([i \in DOMAIN StepsSince(g) |-> StepsSince(g)[i].undo])

-----------------------------------------------------------------------------
(* The jump list *)

TextOf(b)   == IF b = "here" THEN text ELSE <<<<1, "break">>>>
HeadIn(b)   == IF b = "here" THEN head ELSE 0
EntryAt(b)  ==
  [buffer |-> b, head |-> HeadIn(b), line |-> LineOf(TextOf(b), HeadIn(b)),
   on |-> TextOf(b)[HeadIn(b) + 1][1]]

\* The newest entries the capacity leaves.
Capped(entries) ==
  LET over == Len(entries) - jumps.capacity
  IN  IF over > 0 THEN SubSeq(entries, over + 1, Len(entries)) ELSE entries

\* JumpList::push.
Pushed(entry) ==
  LET kept == SubSeq(jumps.entries, 1, jumps.cursor)
      same == kept # <<>> /\ Last(kept).line = entry.line /\ Last(kept).buffer = entry.buffer
      all  == Capped(Append(IF same THEN Front(kept) ELSE kept, entry))
  IN  [jumps EXCEPT !.entries = all, !.cursor = Len(all)]

\* JumpList::backward's save of the current position, at the present only.
AtPresent == jumps.cursor = Len(jumps.entries)

\* Mutant of Saved: the return point is deduplicated by line, as push does.
SavedDeduplicated(current) ==
  LET same == Last(jumps.entries).line = current.line /\ Last(jumps.entries).buffer = current.buffer
      all  == IF same THEN jumps.entries ELSE Capped(Append(jumps.entries, current))
  IN  IF AtPresent THEN [jumps EXCEPT !.entries = all, !.cursor = Len(all) - 1] ELSE jumps

Saved(current) ==
  LET all == Capped(Append(jumps.entries, current))
  IN  IF AtPresent THEN [jumps EXCEPT !.entries = all, !.cursor = Len(all) - 1] ELSE jumps

\* kept_with_cursor of the entries that are not b's.
Pruned(b) ==
  LET keeps(e) == e.buffer # b
  IN  [jumps EXCEPT !.entries = SelectSeq(@, keeps),
                    !.cursor = Len(SelectSeq(SubSeq(jumps.entries, 1, @), keeps))]

\* JumpEntry::translate through ops, which make `new` of the live text;
\* SelectionSet::translate lands past insertions, on a character of `new`.
Landed(new, pos) == IF pos < Len(new) THEN pos ELSE Len(new) - 1

\* The ids of the characters of `from` that ops retain.
Retained(ops, from) ==
  LET kept == Applied(SelectSeq(ops, LAMBDA op : op.kind # "insert"), from)
  IN  {kept[i][1] : i \in DOMAIN kept}

Translated(e, ops, new) ==
  LET at == Landed(new, MapPos(ops, e.head, "after"))
  IN  IF e.buffer # "here" THEN e
      ELSE [e EXCEPT !.head = at, !.line = LineOf(new, at),
                     !.on = IF @ \in Retained(ops, text) THEN @ ELSE Lost]

\* The change that makes e and f into e2 and f2 put them on one line.
MergesInto(e, f, e2, f2) == e.buffer = f.buffer /\ e2.line = f2.line /\ e.line # f.line

\* translate_in_place: of neighbours the change put on one line the newer
\* stays, and the cursor moves with those merged away before it.
Carried(ops, new) ==
  LET old    == jumps.entries
      moved  == [i \in DOMAIN old |-> Translated(old[i], ops, new)]
      merged == {i \in 1 .. Len(old) - 1 : MergesInto(old[i], old[i + 1], moved[i], moved[i + 1])}
      kept   == SelectSeq([i \in DOMAIN old |-> i], LAMBDA i : i \notin merged)
      before == {i \in merged : i <= jumps.cursor}
  IN  [jumps EXCEPT !.entries = [k \in DOMAIN kept |-> moved[kept[k]]],
                    !.cursor = @ - Cardinality(before)]

-----------------------------------------------------------------------------
(* Edits *)

\* Buffer::install of `new`, which ops make of the live text, under version
\* v: it is recorded, and every stored position is carried.
Install(ops, new, v) ==
  /\ text' = new
  /\ version' = v
  /\ log' = RecordStep(ops)
  /\ past' = Append(past, [text |-> new, version |-> v])
  /\ head' = Landed(new, MapPos(ops, head, "after"))
  /\ jumps' = Carried(ops, new)
  /\ pending' = [i \in DOMAIN pending |-> [pending[i] EXCEPT !.entry = Translated(@, ops, new)]]
  /\ left' = Translated(left, ops, new)
  /\ UNCHANGED <<shown, open>>

\* The items an edit of the live text may record; the i-th inserts a new
\* character.
Items(i) ==
  LET fresh(k) == <<<<100 * Generation + i, k>>>>
      ranges   == {r \in (0 .. Len(text) - 1) \X (1 .. Len(text)) : r[1] < r[2]}
  IN  {InsertItem(text, at, fresh(k)) : at \in 0 .. Len(text), k \in Kinds}
      \cup {Item(r[1], r[2], s) : r \in ranges,
              s \in {<<>>} \cup {fresh(k) : k \in Kinds}}
      \cup {Item(r[1], r[2], SubSeq(text, r[1] + 1, r[2])) : r \in ranges}
      \cup {Item(at, at, <<>>) : at \in 0 .. Len(text)}

\* apply_edit of the built items.
Edit(items) ==
  LET built == Built(text, items)
      new   == Applied(built.ops, text)
  IN  /\ budget.edits > 0 /\ budget.items >= Len(items)
      /\ budget' = [budget EXCEPT !.edits = @ - 1, !.items = @ - Len(items)]
      /\ asked' = [before |-> text, items |-> items, built |-> built]
      /\ Install(built.ops, new, Generation + 1)

\* A walk of the history over the last step: its inverse is applied, and the
\* text is again the version the step started from.
Undo ==
  /\ budget.edits > 0
  /\ log # <<>> /\ Last(log).known
  /\ budget' = [budget EXCEPT !.edits = @ - 1]
  /\ asked' = NoEdit
  /\ Install(Last(log).undo, Applied(Last(log).undo, text), past[Last(log).from].version)

\* install of a replacement no change describes: the positions are reset.
Replace ==
  LET new == <<<<100 * Generation, "letter">>, <<100 * Generation + 1, "break">>>>
  IN  /\ budget.edits > 0
      /\ budget' = [budget EXCEPT !.edits = @ - 1]
      /\ asked' = NoEdit
      /\ text' = new
      /\ version' = Generation + 1
      /\ log' = RecordReplace
      /\ past' = Append(past, [text |-> new, version |-> Generation + 1])
      /\ head' = 0
      /\ jumps' = Pruned("here")
      /\ pending' = [i \in DOMAIN pending |->
                       IF pending[i].entry.buffer = "here"
                         THEN [pending[i] EXCEPT !.entry = NoEntry] ELSE pending[i]]
      /\ left' = IF left.buffer = "here" THEN NoEntry ELSE left
      /\ UNCHANGED <<shown, open>>

-----------------------------------------------------------------------------
(* Navigation *)

Jump(n) == budget.jumps >= n /\ budget' = [budget EXCEPT !.jumps = @ - n]

\* A motion, a selection or a click in "here", under no rule.
Move(h) ==
  /\ shown = "here" /\ h # head /\ h < Len(text)
  /\ budget.jumps > 0
  /\ head' = h
  /\ UNCHANGED <<texts, shown, open, jumps, pending, left, budget>>

Switch(b) ==
  /\ shown # b /\ (b = "there" => open)
  /\ budget.jumps > 0
  /\ shown' = b
  /\ UNCHANGED <<texts, head, open, jumps, pending, left, budget>>

\* forget_buffer of "there"; the pane that shows it goes "here".
Close ==
  /\ open /\ Jump(1)
  /\ open' = FALSE
  /\ shown' = "here"
  /\ jumps' = Pruned("there")
  /\ pending' = [i \in DOMAIN pending |->
                   IF pending[i].entry.buffer = "there"
                     THEN [pending[i] EXCEPT !.entry = NoEntry] ELSE pending[i]]
  /\ left' = IF left.buffer = "there" THEN NoEntry ELSE left
  /\ UNCHANGED <<texts, head>>

\* JumpCapture::begin.
Begin(rule) ==
  /\ Len(pending) < 1 /\ Jump(1)
  /\ pending' = Append(pending, [rule |-> rule, from |-> shown, entry |-> EntryAt(shown)])
  /\ UNCHANGED <<texts, pane, jumps, left>>

\* JumpCapture::finish: the start is recorded when the pane moved, and under
\* PrimaryPastThreshold when it moved far.
Moved(p) == p.from # shown \/ p.entry.head # HeadIn(shown)
Far(p) ==
  LET d == p.entry.line - LineOf(TextOf(shown), HeadIn(shown))
  IN  d > MinLines \/ -d > MinLines
Finish ==
  LET p == Last(pending)
      records == p.entry # NoEntry /\ Moved(p) /\ (p.rule = "Selections" \/ Far(p))
  IN  /\ pending # <<>>
      /\ pending' = Front(pending)
      /\ jumps' = IF records THEN Pushed(p.entry) ELSE jumps
      /\ left' = IF records THEN NoEntry ELSE left
      /\ UNCHANGED <<texts, pane, budget>>

\* apply_jump_nav.
GoTo(e) ==
  /\ shown' = e.buffer
  /\ head' = IF e.buffer = "here" THEN e.head ELSE head

\* jump-backward, jump-forward.
Backward ==
  LET current == EntryAt(shown)
      saved   == Saved(current)
  IN  /\ jumps.entries # <<>> /\ Jump(1)
      /\ left' = IF AtPresent THEN current ELSE left
      /\ IF saved.cursor = 0
           THEN jumps' = saved /\ UNCHANGED <<shown, head>>
           ELSE /\ jumps' = [saved EXCEPT !.cursor = @ - 1]
                /\ GoTo(saved.entries[saved.cursor])
      /\ UNCHANGED <<texts, open, pending>>

Forward ==
  /\ jumps.cursor + 1 < Len(jumps.entries) /\ Jump(1)
  /\ jumps' = [jumps EXCEPT !.cursor = @ + 1]
  /\ GoTo(jumps.entries[jumps.cursor + 2])
  /\ UNCHANGED <<texts, open, pending, left>>

\* set_capacity.
SetCapacity(c) ==
  /\ c # jumps.capacity /\ Jump(1)
  /\ jumps' = [jumps EXCEPT !.capacity = c]
  /\ UNCHANGED <<texts, pane, pending, left>>

\* A session saved now and restored: JumpList::resumed under the capacity
\* then set.
Resume(c) ==
  LET all     == jumps.entries
      dropped == IF Len(all) > c THEN Len(all) - c ELSE 0
  IN  /\ pending = <<>> /\ Jump(1)
      /\ jumps' = [entries |-> SubSeq(all, dropped + 1, Len(all)), capacity |-> c,
                   cursor |-> IF jumps.cursor > dropped THEN jumps.cursor - dropped ELSE 0]
      /\ UNCHANGED <<texts, pane, pending, left>>

ItemSeqs == {<<i>> : i \in Items(1)} \cup
            (IF budget.items > 1 THEN {<<i, j>> : i \in Items(1), j \in Items(2)} ELSE {})

Next ==
  \/ \E items \in ItemSeqs : Edit(items)
  \/ Undo
  \/ Replace
  \/ \E h \in 0 .. Len(text) - 1 : Move(h)
  \/ \E b \in {"here", "there"} : Switch(b)
  \/ Close
  \/ \E rule \in {"Selections", "PrimaryPastThreshold"} : Begin(rule)
  \/ Finish
  \/ Backward
  \/ Forward
  \/ \E c \in Capacities : SetCapacity(c) \/ Resume(c)

Spec == Init /\ [][Next]_vars

-----------------------------------------------------------------------------
(* Properties *)

\* What the items ask of the text: the characters their ranges cover go, all
\* but the final break when the text would lose it, and what they insert
\* stands in the order of the keys, before the character at its key.
Asked(before, items) ==
  LET at(p)       == SelectSeq([i \in DOMAIN items |-> items[i]], LAMBDA it : it.key = p)
      new(p)      == FlattenSeq([i \in DOMAIN at(p) |-> at(p)[i].text])
      covered(p)  == \E i \in DOMAIN items : items[i].key <= p /\ p < items[i].end
      stays(p, k) == IF p < Len(before) /\ (p >= k \/ ~covered(p)) THEN <<before[p + 1]>> ELSE <<>>
      whole(k)    == FlattenSeq([q \in 1 .. Len(before) + 1 |-> new(q - 1) \o stays(q - 1, k)])
  IN  IF KeepsFinalBreak(whole(Len(before))) THEN whole(Len(before)) ELSE whole(Len(before) - 1)

\* The edit that made the live text did what was asked of it, and every Mark
\* it handed out spans what its item inserted.
EditIsAsked ==
  asked # NoEdit =>
    /\ text = Asked(asked.before, asked.items)
    /\ \A i \in DOMAIN asked.items :
         asked.items[i].text # <<>> =>
           SubSeq(text, asked.built.placed[i][1] + 1, asked.built.placed[i][2])
             = asked.items[i].text

\* The log answers for every generation it reaches back to, unless the text
\* was replaced since, and its answer leads to the text of that generation.
LogLeadsBack ==
  \A g \in 1 .. Generation - 1 :
    /\ Answers(g) => Applied(NetUndo(g), text) = past[g].text
    /\ log # <<>> /\ log[1].from <= g =>
         Answers(g) \/ \E i \in DOMAIN log : log[i].from >= g /\ ~log[i].known

OffsetOf(s, id) == CHOOSE p \in 0 .. Len(s) - 1 : s[p + 1][1] = id
Once(s, id)     == Cardinality({p \in DOMAIN s : s[p][1] = id}) = 1

\* What the step's undo says of the lines, ranges and regions of the text it
\* starts from is true of the text it leads to: a line goes where a position
\* on its break goes, a range keeps its first and last characters, and
\* replacing the regions makes the same text.
StepCarries(step) ==
  LET from    == past[step.from + 1].text
      to      == past[step.from].text
      stays   == {id \in Retained(step.undo, from) : Once(from, id)}
      kept    == {id \in stays : Once(to, id)}
      regions == EditedRegions(step.undo)
      resume(i) == IF i = 0 THEN 0 ELSE regions[i].end
  IN  /\ \A p \in 0 .. Len(from) - 1 :
           IsBreak(from[p + 1]) /\ Once(from, from[p + 1][1]) =>
             MapLine(step.undo, from, LineOf(from, p)) =
               IF from[p + 1][1] \in stays \/ MapPos(step.undo, p, "before") # MapPos(step.undo, p, "after")
                 THEN LineOf(to, MapPos(step.undo, p, "before")) ELSE -1
      /\ \A p, q \in 0 .. Len(from) - 1 :
           p <= q /\ {from[p + 1][1], from[q + 1][1]} \subseteq kept =>
             MapRange(step.undo, <<p, q + 1>>) =
               <<OffsetOf(to, from[p + 1][1]), OffsetOf(to, from[q + 1][1]) + 1>>
      /\ to = FlattenSeq([i \in 1 .. Len(regions) |->
                 SubSeq(from, resume(i - 1) + 1, regions[i].start) \o regions[i].text])
              \o SubSeq(from, resume(Len(regions)) + 1, Len(from))

\* Changes are exact: an edit does what its items ask and keeps the final
\* break, undoing or reporting any number of steps leads to the very text
\* they started from, and a version names one text.
ChangesAreExact ==
  /\ KeepsFinalBreak(text)
  /\ EditIsAsked
  /\ LogLeadsBack
  /\ \A i \in DOMAIN log : log[i].known => StepCarries(log[i])
  /\ \A g, h \in 1 .. Generation :
       past[g].version = past[h].version => past[g].text = past[h].text

\* The entry is on a character of an open buffer, the one it was captured on
\* as long as no change deletes it, and knows its line.
NamesItsText(e) ==
  /\ e.buffer = "there" => open
  /\ e.buffer = "here" =>
       /\ e.head < Len(text) /\ e.line = LineOf(text, e.head)
       /\ e.on = Lost \/ e.on = text[e.head + 1][1]

\* Jumps lead back: whatever was edited, undone, replaced, closed or resumed
\* since, every position of the list names the text it was captured on, and
\* jump-forward ends where jump-backward left the present.
JumpsLeadBack ==
  /\ \A i \in DOMAIN jumps.entries : NamesItsText(jumps.entries[i])
  /\ \A i \in DOMAIN pending : NamesItsText(pending[i].entry)
  /\ jumps.cursor <= Len(jumps.entries)
  /\ left # NoEntry =>
       /\ jumps.cursor < Len(jumps.entries)
       /\ Last(jumps.entries) = left
=============================================================================
