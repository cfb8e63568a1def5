------------------------- MODULE EditSessionProofs -------------------------
(***************************************************************************)
(* Proofs about EditSession, for every set of panes, buffers and texts and *)
(* every bound on the revisions.                                           *)
(***************************************************************************)
EXTENDS EditSession, TLAPS

\* What a session composes on is the text it opened on, and a placeholder
\* composes nothing.
BaseIsSnapshot ==
  session # NoSession =>
    \/ session.base = NoText
    \/ session.kind # "replay" /\ session.base = session.snapshot

\* The inductive invariant.
Sound ==
  /\ TypeOK
  /\ SessionIsFocused
  /\ SnapshotIsCurrent
  /\ TextIsCurrent
  /\ BaseIsSnapshot

-----------------------------------------------------------------------------
(* Lemmas about the histories *)

\* The log `log` has every revision of b, and maybe more.
Grows(log, b) ==
  /\ log \in Seq(Text)
  /\ Len(held[b]) <= Len(log)
  /\ \A i \in Revisions(b) : log[i] = held[b][i]

\* The types of what a commit can change.
HistoryTyped ==
  /\ held \in [BufferId -> Seq(Text)]
  /\ current \in [BufferId -> Nat]
  /\ \A b \in BufferId : Len(held[b]) \in 1 .. MaxRevisions /\ current[b] \in Revisions(b)

\* No revision of any buffer is lost or changed by the step.
HistoryKept ==
  \A c \in BufferId :
    Len(held[c]) <= Len(held'[c]) /\ \A i \in Revisions(c) : held'[c][i] = held[c][i]

\* Only b's history moves.
OnlyHistoryOf(b) ==
  \A c \in BufferId \ {b} : held'[c] = held[c] /\ current'[c] = current[c]

\* Appending a revision keeps those there were.
LEMMA RecordedGrows ==
  ASSUME TypeOK, NEW b \in BufferId, NEW log, Grows(log, b), NEW t \in Text
  PROVE  /\ Grows(Recorded(b, log, t), b)
         /\ Recorded(b, log, t) # held[b]
         /\ Len(Recorded(b, log, t)) = Len(log) + 1
         /\ Recorded(b, log, t)[Len(log) + 1] = t
  BY DEF TypeOK, Grows, Recorded, Revisions

\* The log `log` has the text b's session leaves, unless that is the one it
\* started from, right after b's revisions.
Continues(log, b) ==
  \E t \in LeftTexts(b) : t = session.base \/ log = Append(held[b], t)

\* The texts a session can leave are texts, the live one among them.
LEMMA LeftTextsTyped ==
  ASSUME TypeOK, NEW b \in BufferId
  PROVE  LeftTexts(b) \subseteq Text /\ text[b] \in LeftTexts(b)
  BY EditSessionAssumption DEF TypeOK, LeftTexts

\* Committing the session on b, which leaves t, keeps b's revisions and adds
\* at most one, and the text of the revision it makes current is t.
LEMMA CommittedGrows ==
  ASSUME Sound, NEW b \in BufferId, NEW t \in LeftTexts(b), NEW log \in CommittedLogs(b, t)
  PROVE  /\ Grows(log, b)
         /\ log = held[b] => t = held[b][current[b]]
         /\ log # held[b] => Len(log) = Len(held[b]) + 1 /\ log[Len(log)] = t
         /\ UnrecordedEdits(b) => Continues(log, b)
  <1>1. held[b] \in Seq(Text) /\ t \in Text
    BY LeftTextsTyped DEF Sound, TypeOK
  <1>2. CASE ~SessionOn(b)
    BY <1>1, <1>2 DEF CommittedLogs, LeftTexts, Grows, Revisions, Sound, TextIsCurrent,
                      UnrecordedEdits
  <1>3. CASE SessionOn(b)
    <2>1. log = held[b] \/ log = Append(held[b], t)
      BY <1>3 DEF CommittedLogs, Recorded
    <2>2. Grows(log, b)
      BY <1>1, <2>1 DEF Grows, Revisions
    <2>3. log # held[b] => Len(log) = Len(held[b]) + 1 /\ log[Len(log)] = t
      BY <1>1, <2>1
    <2>4. log = held[b] => session.base = NoText \/ t = session.base
      BY <1>3 DEF CommittedLogs, MayBeIdentity, HasEdits
    <2>5. session.base = NoText => t = text[b]
      BY DEF LeftTexts
    <2>6. log = held[b] => t = held[b][current[b]]
      BY <1>3, <2>4, <2>5 DEF SessionOn, Sound, TextIsCurrent, SnapshotIsCurrent, BaseIsSnapshot
    <2>7. UnrecordedEdits(b) => Continues(log, b)
      BY <2>1, <2>4 DEF UnrecordedEdits, HasEdits, Continues
    <2> QED BY <2>2, <2>3, <2>6, <2>7
  <1> QED BY <1>2, <1>3

\* Giving b a longer log keeps every history well formed.
LEMMA SetLogKeeps ==
  ASSUME TypeOK, NEW b \in BufferId, NEW log, Grows(log, b), SetLog(b, log)
  PROVE  /\ HistoryTyped' /\ HistoryKept /\ OnlyHistoryOf(b)
         /\ held'[b] = log
         /\ current'[b] = IF log = held[b] THEN current[b] ELSE Len(log)
  <1>1. /\ held' = [held EXCEPT ![b] = log]
        /\ current' = [current EXCEPT ![b] = IF log = held[b] THEN current[b] ELSE Len(log)]
        /\ Len(log) <= MaxRevisions
    BY DEF SetLog
  <1>2. /\ held'[b] = log
        /\ current'[b] = IF log = held[b] THEN current[b] ELSE Len(log)
        /\ OnlyHistoryOf(b)
    BY <1>1 DEF TypeOK, OnlyHistoryOf
  <1>3. log \in Seq(Text) /\ Len(log) \in 1 .. MaxRevisions /\ current'[b] \in 1 .. Len(log)
    BY <1>1, <1>2 DEF TypeOK, Grows, Revisions, EditSessionAssumption
  <1>4. HistoryTyped'
    BY <1>1, <1>2, <1>3 DEF TypeOK, HistoryTyped, Revisions, OnlyHistoryOf
  <1>5. HistoryKept
    <2>1. \A c \in BufferId \ {b} : held'[c] = held[c] /\ Len(held[c]) \in Nat
      BY <1>2 DEF OnlyHistoryOf, TypeOK
    <2> QED BY <1>2, <2>1 DEF HistoryKept, Grows
  <1> QED BY <1>2, <1>4, <1>5

\* Committing b's session makes the text it leaves the current revision's.
LEMMA CommitSound ==
  ASSUME Sound, NEW b \in BufferId, NEW t \in LeftTexts(b), CommitOn(b, t)
  PROVE  /\ HistoryTyped' /\ HistoryKept /\ OnlyHistoryOf(b)
         /\ held'[b][current'[b]] = t
         /\ UnrecordedEdits(b) => Continues(held'[b], b)
  <1>1. PICK log \in CommittedLogs(b, t) : SetLog(b, log)
    BY DEF CommitOn
  <1>2. TypeOK
    BY DEF Sound
  <1>3. /\ Grows(log, b)
        /\ log = held[b] => t = held[b][current[b]]
        /\ log # held[b] => Len(log) = Len(held[b]) + 1 /\ log[Len(log)] = t
        /\ UnrecordedEdits(b) => Continues(log, b)
    BY CommittedGrows
  <1>4. /\ HistoryTyped' /\ HistoryKept /\ OnlyHistoryOf(b)
        /\ held'[b] = log
        /\ current'[b] = IF log = held[b] THEN current[b] ELSE Len(log)
    BY <1>1, <1>2, <1>3, SetLogKeeps
  <1> QED BY <1>3, <1>4

\* The state after a step that ends whatever session was open.
LEMMA EndSessionsSound ==
  ASSUME Sound, EndSessions
  PROVE  /\ HistoryTyped' /\ HistoryKept
         /\ session' = NoSession
         /\ text' \in [BufferId -> Text]
         /\ \A b \in BufferId : held'[b][current'[b]] = text'[b]
         /\ \A b \in BufferId : UnrecordedEdits(b) => Continues(held'[b], b)
  <1>1. session' = NoSession
    BY DEF EndSessions
  <1>2. CASE session = NoSession
    BY <1>1, <1>2 DEF EndSessions, HistoryTyped, HistoryKept, Sound, TypeOK, TextIsCurrent,
                      SessionOn, UnrecordedEdits, Revisions
  <1>3. CASE session # NoSession
    <2>1. PICK b \in BufferId : b = session.buffer
      BY <1>3 DEF Sound, TypeOK, Session
    <2>2. PICK t \in LeftTexts(b) : text' = [text EXCEPT ![b] = t] /\ CommitOn(b, t)
      BY <1>3, <2>1 DEF EndSessions, Close
    <2>3. /\ HistoryTyped' /\ HistoryKept /\ OnlyHistoryOf(b)
          /\ held'[b][current'[b]] = t
          /\ UnrecordedEdits(b) => Continues(held'[b], b)
      BY <2>2, CommitSound
    <2>4. text' \in [BufferId -> Text] /\ text'[b] = t /\ \A c \in BufferId \ {b} : text'[c] = text[c]
      BY <2>2, LeftTextsTyped DEF Sound, TypeOK
    <2>5. \A c \in BufferId \ {b} : held'[c][current'[c]] = text'[c] /\ ~UnrecordedEdits(c)
      BY <2>1, <2>3, <2>4 DEF OnlyHistoryOf, Sound, TextIsCurrent, SessionOn, UnrecordedEdits
    <2> QED BY <1>1, <2>3, <2>4, <2>5
  <1> QED BY <1>2, <1>3

\* The history beside a session that may have just been opened: a paste
\* session is committed, and a placeholder has composed nothing.
LEMMA CommitPasteSound ==
  ASSUME Sound, CommitPaste,
         session = NoSession \/ PasteOpen \/ OpenAt("replay", focus, Focused)
  PROVE  /\ HistoryTyped' /\ HistoryKept
         /\ \A b \in BufferId : held'[b][current'[b]] = text[b]
         /\ \A b \in BufferId : UnrecordedEdits(b) => Continues(held'[b], b)
  <1>1. CASE PasteOpen
    <2>1. PICK b \in BufferId : b = session.buffer
      BY <1>1 DEF PasteOpen, Sound, TypeOK, Session
    <2>2. CommitOn(b, text[b]) /\ text[b] \in LeftTexts(b)
      BY <1>1, <2>1, LeftTextsTyped DEF CommitPaste, Sound
    <2>3. /\ HistoryTyped' /\ HistoryKept /\ OnlyHistoryOf(b)
          /\ held'[b][current'[b]] = text[b]
          /\ UnrecordedEdits(b) => Continues(held'[b], b)
      BY <2>2, CommitSound
    <2>4. \A c \in BufferId \ {b} : held'[c][current'[c]] = text[c] /\ ~UnrecordedEdits(c)
      BY <2>1, <2>3 DEF OnlyHistoryOf, Sound, TextIsCurrent, SessionOn, UnrecordedEdits
    <2> QED BY <2>3, <2>4
  <1>2. CASE ~PasteOpen
    <2>1. UNCHANGED <<held, current>>
      BY <1>2 DEF CommitPaste
    <2>2. session = NoSession \/ session.base = NoText
      BY <1>2 DEF OpenAt, SessionOn, Sound, BaseIsSnapshot
    <2>3. HistoryTyped' /\ HistoryKept
      BY <2>1 DEF Sound, TypeOK, HistoryTyped, HistoryKept, Revisions
    <2>4. \A b \in BufferId : held'[b][current'[b]] = text[b] /\ ~UnrecordedEdits(b)
      BY <2>1, <2>2 DEF Sound, TextIsCurrent, SessionOn, UnrecordedEdits, HasEdits
    <2> QED BY <2>3, <2>4
  <1> QED BY <1>1, <1>2

\* The log an edit or a walk through p starts from.
LEMMA AfterPasteSound ==
  ASSUME Sound, NEW p \in Pane, NEW b \in BufferId, NEW log \in LogsAfterPaste(p, b),
         NoConflict(p, b), ~OpenAt("insert", p, b)
  PROVE  /\ Grows(log, b)
         /\ SessionOn(b) => OpenAt("paste", p, b) \/ OpenAt("replay", p, b)
         /\ UnrecordedEdits(b) => Continues(log, b)
  <1>1. SessionOn(b) => OpenAt("paste", p, b) \/ OpenAt("replay", p, b)
    BY DEF NoConflict, OpenAt, SessionOn, Sound, TypeOK, Session
  <1>2. CASE OpenAt("paste", p, b)
    <2>1. log \in CommittedLogs(b, text[b]) /\ text[b] \in LeftTexts(b)
      BY <1>2, LeftTextsTyped DEF LogsAfterPaste, Sound
    <2> QED BY <1>1, <2>1, CommittedGrows
  <1>3. CASE ~OpenAt("paste", p, b)
    <2>1. log = held[b]
      BY <1>3 DEF LogsAfterPaste
    <2>2. Grows(log, b)
      BY <2>1 DEF Grows, Sound, TypeOK, Revisions
    <2>3. ~UnrecordedEdits(b)
      BY <1>1, <1>3 DEF UnrecordedEdits, OpenAt, SessionOn, HasEdits, Sound, BaseIsSnapshot
    <2> QED BY <1>1, <2>2, <2>3
  <1> QED BY <1>2, <1>3

\* The save points stay revisions of their buffers.
LEMMA SavedKept ==
  ASSUME TypeOK, HistoryTyped', HistoryKept, UNCHANGED saved
  PROVE  \A b \in BufferId : saved'[b] \in Revisions(b)'
  BY DEF TypeOK, HistoryTyped, HistoryKept, Revisions

-----------------------------------------------------------------------------
(* The invariant *)

LEMMA InitSound == Init => Sound
  <1> SUFFICES ASSUME Init PROVE Sound
    OBVIOUS
  <1>1. \A b \in BufferId :
          held[b] = <<text[b]>> /\ current[b] = 1 /\ saved[b] = 1 /\ text[b] \in Text
    BY DEF Init
  <1>2. TypeOK
    <2>1. held \in [BufferId -> Seq(Text)]
      BY <1>1 DEF Init
    <2>2. current \in [BufferId -> Nat] /\ saved \in [BufferId -> Nat]
      BY DEF Init
    <2>3. \A b \in BufferId :
            Len(held[b]) \in 1 .. MaxRevisions /\ current[b] \in Revisions(b) /\ saved[b] \in Revisions(b)
      <3>1. 1 \in 1 .. MaxRevisions /\ 1 \in 1 .. 1
        BY EditSessionAssumption
      <3>2. \A b \in BufferId : Len(held[b]) = 1
        BY <1>1
      <3> QED BY <1>1, <3>1, <3>2 DEF Revisions
    <2> QED BY <2>1, <2>2, <2>3 DEF Init, TypeOK
  <1> QED BY <1>1, <1>2 DEF Init, Sound, SessionIsFocused, SnapshotIsCurrent,
                            TextIsCurrent, BaseIsSnapshot

\* A step that only ends the session, whatever it does to the layout.
LEMMA EndedSound ==
  ASSUME Sound, EndSessions, UNCHANGED <<saved, disk>>,
         focus' \in Pane, shows' \in [Pane -> BufferId], replaying' \in BOOLEAN
  PROVE  Sound'
  <1>1. /\ HistoryTyped' /\ HistoryKept
        /\ session' = NoSession
        /\ text' \in [BufferId -> Text]
        /\ \A b \in BufferId : held'[b][current'[b]] = text'[b]
    BY EndSessionsSound
  <1>2. \A b \in BufferId : saved'[b] \in Revisions(b)'
    BY <1>1, SavedKept DEF Sound
  <1>3. TypeOK'
    BY <1>1, <1>2 DEF Sound, TypeOK, HistoryTyped
  <1> QED BY <1>1, <1>3 DEF Sound, SessionIsFocused, SnapshotIsCurrent, TextIsCurrent,
                            BaseIsSnapshot

\* A step that opens a session in the focused pane, or takes one over, and
\* leaves the text.
LEMMA OpenedSound ==
  ASSUME Sound, NEW kind \in {"insert", "paste", "replay"},
         session = NoSession \/ PasteOpen \/ OpenAt("replay", focus, Focused),
         OpenAt("replay", focus, Focused) => session.snapshot = text[Focused],
         CommitPaste, NEW s, s = Opened(kind, focus, Focused)
  PROVE  /\ HistoryTyped' /\ HistoryKept
         /\ \A b \in BufferId : held'[b][current'[b]] = text[b]
         /\ s \in Session /\ s # NoSession
         /\ s.kind = kind /\ s.pane = focus /\ s.buffer = Focused
         /\ s.snapshot = text[Focused] /\ s.base = NoText
  <1>1. /\ HistoryTyped' /\ HistoryKept
        /\ \A b \in BufferId : held'[b][current'[b]] = text[b]
    BY CommitPasteSound
  <1>2. focus \in Pane /\ Focused \in BufferId /\ text[Focused] \in Text
    BY DEF Sound, TypeOK, Focused
  <1>3. CASE OpenAt("replay", focus, Focused)
    <2>1. session \in Session /\ session.base = NoText
      BY <1>3 DEF OpenAt, SessionOn, Sound, TypeOK, BaseIsSnapshot
    <2>2. s = [session EXCEPT !.kind = kind]
      BY <1>3 DEF Opened
    <2>3. s \in Session /\ s # NoSession
      BY <2>1, <2>2, NoSessionAssumption DEF Session
    <2> QED BY <1>1, <1>3, <2>1, <2>2, <2>3 DEF OpenAt, SessionOn, Session
  <1>4. CASE ~OpenAt("replay", focus, Focused)
    <2>1. s = Fresh(kind, focus, Focused)
      BY <1>4 DEF Opened
    <2>2. s \in Session
      BY <1>2, <2>1 DEF Fresh, Session
    <2> QED BY <1>1, <2>1, <2>2, NoSessionAssumption DEF Fresh
  <1> QED BY <1>3, <1>4

LEMMA EnterInsertSound ==
  ASSUME ~TakeoverAfterEdit, Sound, EnterInsert
  PROVE  Sound'
  <1>1. /\ session = NoSession \/ PasteOpen \/ OpenAt("replay", focus, Focused)
        /\ OpenAt("replay", focus, Focused) => session.snapshot = text[Focused]
        /\ CommitPaste
        /\ session' = Opened("insert", focus, Focused)
        /\ UNCHANGED <<layout, text, files, replaying>>
    BY DEF EnterInsert, CanOpen, TakeoverAllowed
  <1>2. /\ HistoryTyped' /\ HistoryKept
        /\ \A b \in BufferId : held'[b][current'[b]] = text[b]
        /\ session' \in Session /\ session' # NoSession
        /\ session'.kind = "insert" /\ session'.pane = focus /\ session'.buffer = Focused
        /\ session'.snapshot = text[Focused] /\ session'.base = NoText
    BY <1>1, OpenedSound
  <1>3. TypeOK'
    BY <1>1, <1>2, SavedKept DEF Sound, TypeOK, HistoryTyped, layout, files
  <1>4. Focused \in BufferId
    BY DEF Sound, TypeOK, Focused
  <1> QED BY <1>1, <1>2, <1>3, <1>4 DEF Sound, SessionIsFocused, SnapshotIsCurrent,
            TextIsCurrent, BaseIsSnapshot, SessionOn, Focused, layout

LEMMA PasteSound ==
  ASSUME ~TakeoverAfterEdit, Sound, NEW t \in Text, Paste(t)
  PROVE  Sound'
  <1> DEFINE s == Opened("paste", focus, Focused)
  <1>1. /\ session = NoSession \/ PasteOpen \/ OpenAt("replay", focus, Focused)
        /\ OpenAt("replay", focus, Focused) => session.snapshot = text[Focused]
        /\ CommitPaste
        /\ session' = [s EXCEPT !.base = s.snapshot]
        /\ text' = [text EXCEPT ![Focused] = t]
        /\ UNCHANGED <<layout, files, replaying>>
    BY DEF Paste, CanOpen, TakeoverAllowed
  <1>2. /\ HistoryTyped' /\ HistoryKept
        /\ \A b \in BufferId : held'[b][current'[b]] = text[b]
        /\ s \in Session /\ s # NoSession
        /\ s.kind = "paste" /\ s.pane = focus /\ s.buffer = Focused
        /\ s.snapshot = text[Focused] /\ s.base = NoText
    BY <1>1, OpenedSound
  <1>3. /\ session' \in Session /\ session' # NoSession
        /\ session'.pane = focus /\ session'.buffer = Focused /\ session'.kind = "paste"
        /\ session'.snapshot = text[Focused] /\ session'.base = text[Focused]
    <2> HIDE DEF s
    <2> QED BY <1>1, <1>2, NoSessionAssumption DEF Session
  <1>4. Focused \in BufferId /\ text[Focused] \in Text /\ text' \in [BufferId -> Text]
    BY <1>1 DEF Sound, TypeOK, Focused
  <1>5. TypeOK'
    BY <1>1, <1>2, <1>3, <1>4, SavedKept DEF Sound, TypeOK, HistoryTyped, layout, files
  <1>6. TextIsCurrent'
    <2>1. \A b \in BufferId \ {Focused} : text'[b] = text[b]
      BY <1>1 DEF Sound, TypeOK
    <2>2. SessionOn(Focused)' /\ session'.base # NoText
      BY <1>1, <1>3, <1>4, EditSessionAssumption DEF SessionOn, Focused, layout
    <2> QED BY <1>1, <1>2, <1>3, <2>1, <2>2 DEF TextIsCurrent, SessionOn, Focused, layout
  <1> QED BY <1>1, <1>2, <1>3, <1>4, <1>5, <1>6 DEF Sound, SessionIsFocused,
            SnapshotIsCurrent, BaseIsSnapshot, Focused, layout

LEMMA StartReplaySound ==
  ASSUME Sound, StartReplay
  PROVE  Sound'
  <1>1. /\ session = NoSession \/ PasteOpen
        /\ ~OpenAt("replay", focus, Focused)
        /\ CommitPaste
        /\ session' = Opened("replay", focus, Focused)
        /\ replaying' = TRUE
        /\ UNCHANGED <<layout, text, files>>
    BY DEF StartReplay, PasteOpen, OpenAt, SessionOn, Opened
  <1>2. /\ HistoryTyped' /\ HistoryKept
        /\ \A b \in BufferId : held'[b][current'[b]] = text[b]
        /\ session' \in Session /\ session' # NoSession
        /\ session'.kind = "replay" /\ session'.pane = focus /\ session'.buffer = Focused
        /\ session'.base = NoText
    BY <1>1, OpenedSound
  <1>3. TypeOK'
    BY <1>1, <1>2, SavedKept DEF Sound, TypeOK, HistoryTyped, layout, files
  <1> QED BY <1>1, <1>2, <1>3 DEF Sound, SessionIsFocused, SnapshotIsCurrent,
            TextIsCurrent, BaseIsSnapshot, SessionOn, Focused, layout

LEMMA PasteCycleSound ==
  ASSUME Sound, NEW t \in Text, PasteCycle(t)
  PROVE  Sound'
  <1>1. /\ session # NoSession /\ session.kind = "paste"
        /\ session.buffer = Focused /\ session.pane = focus
        /\ session' = [session EXCEPT !.base = session.snapshot]
        /\ text' = [text EXCEPT ![Focused] = t]
        /\ UNCHANGED <<layout, held, current, files, replaying>>
    BY DEF PasteCycle, OpenAt, SessionOn
  <1>2. session \in Session /\ Focused \in BufferId
    BY <1>1 DEF Sound, TypeOK, Focused
  <1>3. /\ session' \in Session /\ session' # NoSession
        /\ session'.kind = "paste" /\ session'.buffer = Focused /\ session'.pane = focus
        /\ session'.snapshot = session.snapshot /\ session'.base = session.snapshot
        /\ session'.base # NoText
    BY <1>1, <1>2, NoSessionAssumption, EditSessionAssumption DEF Session
  <1>4. TypeOK'
    BY <1>1, <1>3 DEF Sound, TypeOK, Revisions, layout, files
  <1>5. TextIsCurrent'
    BY <1>1, <1>2, <1>3 DEF Sound, TypeOK, TextIsCurrent, SessionOn
  <1> QED BY <1>1, <1>3, <1>4, <1>5 DEF Sound, SessionIsFocused, SnapshotIsCurrent,
            BaseIsSnapshot, Focused, layout

LEMMA EditGroupedSound ==
  ASSUME Sound, NEW p \in Pane, NEW t \in Text, EditGrouped(p, shows[p], t)
  PROVE  Sound'
  <1> DEFINE b == shows[p]
  <1>1. /\ session # NoSession /\ session.kind = "insert"
        /\ session.buffer = b /\ session.pane = p
        /\ session' = [session EXCEPT !.base = IF session.base = NoText THEN text[b]
                                                ELSE session.base]
        /\ text' = [text EXCEPT ![b] = t]
        /\ UNCHANGED <<layout, held, current, files, replaying>>
    BY DEF EditGrouped, OpenAt, SessionOn
  <1>2. session \in Session /\ b \in BufferId /\ text[b] \in Text
    BY <1>1 DEF Sound, TypeOK
  <1>3. session.base = NoText => text[b] = session.snapshot
    BY <1>1, <1>2 DEF Sound, TextIsCurrent, SnapshotIsCurrent, SessionOn
  <1>4. session.base = NoText \/ session.base = session.snapshot
    BY <1>1 DEF Sound, BaseIsSnapshot
  <1>5. /\ session' \in Session /\ session' # NoSession
        /\ session'.kind = "insert" /\ session'.buffer = b /\ session'.pane = p
        /\ session'.snapshot = session.snapshot /\ session'.base = session.snapshot
        /\ session'.base # NoText
    BY <1>1, <1>2, <1>3, <1>4, NoSessionAssumption, EditSessionAssumption DEF Session
  <1>6. TypeOK'
    BY <1>1, <1>2, <1>5 DEF Sound, TypeOK, Revisions, layout, files
  <1>7. TextIsCurrent'
    BY <1>1, <1>2, <1>5 DEF Sound, TypeOK, TextIsCurrent, SessionOn
  <1> QED BY <1>1, <1>5, <1>6, <1>7 DEF Sound, SessionIsFocused, SnapshotIsCurrent,
            BaseIsSnapshot, Focused, layout

\* The session beside an edit or a walk of b that it did not refuse.
LEMMA SessionAfterPasteSound ==
  ASSUME Sound, NEW p \in Pane, NEW b \in BufferId,
         SessionOn(b) => OpenAt("paste", p, b) \/ OpenAt("replay", p, b),
         session' = SessionAfterPaste(p, b)
  PROVE  /\ session' = session \/ (session' = NoSession /\ SessionOn(b))
         /\ SessionOn(b)' => session'.kind = "replay" /\ session'.base = NoText
  BY DEF SessionAfterPaste, OpenAt, SessionOn, Sound, BaseIsSnapshot

\* A step that replaces b's text by that of a revision it makes current.
LEMMA ReplacedSound ==
  ASSUME Sound, NEW b \in BufferId, NEW t \in Text,
         session' = session \/ (session' = NoSession /\ SessionOn(b)),
         SessionOn(b)' => session'.kind = "replay" /\ session'.base = NoText,
         HistoryTyped', OnlyHistoryOf(b),
         held'[b][current'[b]] = t,
         text' = [text EXCEPT ![b] = t],
         saved' \in [BufferId -> Nat],
         \A c \in BufferId : saved'[c] \in Revisions(c)',
         UNCHANGED <<layout, disk>>, replaying' \in BOOLEAN
  PROVE  Sound'
  <1>1. text' \in [BufferId -> Text] /\ text'[b] = t /\ \A c \in BufferId \ {b} : text'[c] = text[c]
    BY DEF Sound, TypeOK
  <1>2. TypeOK'
    BY <1>1 DEF Sound, TypeOK, HistoryTyped, layout
  <1>3. SessionIsFocused' /\ BaseIsSnapshot'
    BY DEF Sound, SessionIsFocused, BaseIsSnapshot, Focused, layout
  <1>4. SnapshotIsCurrent'
    <2> SUFFICES ASSUME session' # NoSession, session'.kind # "replay"
                 PROVE  session'.snapshot = held'[session'.buffer][current'[session'.buffer]]
      BY DEF SnapshotIsCurrent
    <2>1. session' = session /\ session.buffer \in BufferId \ {b}
      BY DEF Sound, TypeOK, Session, SessionOn
    <2> QED BY <2>1 DEF Sound, SnapshotIsCurrent, OnlyHistoryOf
  <1>5. TextIsCurrent'
    <2>1. \A c \in BufferId \ {b} :
            held'[c][current'[c]] = held[c][current[c]] /\ text'[c] = text[c]
      BY <1>1 DEF OnlyHistoryOf
    <2>2. \A c \in BufferId \ {b} :
            (SessionOn(c) /\ session.base # NoText) => (SessionOn(c)' /\ session'.base # NoText)
      BY DEF SessionOn
    <2> QED BY <1>1, <2>1, <2>2 DEF Sound, TextIsCurrent, SessionOn
  <1> QED BY <1>2, <1>3, <1>4, <1>5 DEF Sound

\* Recording t on top of a log of b that kept every revision.
LEMMA RecordSound ==
  ASSUME Sound, NEW b \in BufferId, NEW log, Grows(log, b), NEW t \in Text,
         SetLog(b, Recorded(b, log, t))
  PROVE  /\ HistoryTyped' /\ HistoryKept /\ OnlyHistoryOf(b)
         /\ held'[b] = Recorded(b, log, t)
         /\ held'[b][current'[b]] = t
  <1>1. TypeOK
    BY DEF Sound
  <1>2. /\ Grows(Recorded(b, log, t), b)
        /\ Recorded(b, log, t) # held[b]
        /\ Len(Recorded(b, log, t)) = Len(log) + 1
        /\ Recorded(b, log, t)[Len(log) + 1] = t
    BY <1>1, RecordedGrows
  <1> QED BY <1>1, <1>2, SetLogKeeps

LEMMA EditRecordedSound ==
  ASSUME Sound, NEW p \in Pane, NEW t \in Text, EditRecorded(p, shows[p], t)
  PROVE  Sound'
  <1>0. PICK b \in BufferId : b = shows[p]
    BY DEF Sound, TypeOK
  <1>1. PICK log \in LogsAfterPaste(p, b) : SetLog(b, Recorded(b, log, t))
    BY <1>0 DEF EditRecorded
  <1>2. /\ NoConflict(p, b) /\ ~OpenAt("insert", p, b)
        /\ text' = [text EXCEPT ![b] = t]
        /\ session' = SessionAfterPaste(p, b)
        /\ UNCHANGED <<layout, files, replaying>>
    BY <1>0 DEF EditRecorded
  <1>4. /\ Grows(log, b)
        /\ SessionOn(b) => OpenAt("paste", p, b) \/ OpenAt("replay", p, b)
    BY <1>2, AfterPasteSound
  <1>5. /\ HistoryTyped' /\ HistoryKept /\ OnlyHistoryOf(b)
        /\ held'[b][current'[b]] = t
    BY <1>1, <1>4, RecordSound
  <1>6. /\ session' = session \/ (session' = NoSession /\ SessionOn(b))
        /\ SessionOn(b)' => session'.kind = "replay" /\ session'.base = NoText
    BY <1>2, <1>4, SessionAfterPasteSound
  <1>7. /\ \A c \in BufferId : saved'[c] \in Revisions(c)'
        /\ saved' \in [BufferId -> Nat]
        /\ UNCHANGED <<layout, disk>> /\ replaying' \in BOOLEAN
    BY <1>2, <1>5, SavedKept DEF Sound, TypeOK, files
  <1> QED BY <1>2, <1>5, <1>6, <1>7, ReplacedSound

LEMMA EditUnownedSound ==
  ASSUME Sound, NEW b \in BufferId, NEW t \in Text, EditUnowned(b, t)
  PROVE  Sound'
  <1>1. /\ ~SessionOn(b) /\ session' = session
        /\ text' = [text EXCEPT ![b] = t]
        /\ SetLog(b, Recorded(b, held[b], t))
        /\ UNCHANGED <<layout, files, session, replaying>>
    BY DEF EditUnowned
  <1>2. Grows(held[b], b)
    BY DEF Sound, TypeOK, Grows, Revisions
  <1>3. /\ HistoryTyped' /\ HistoryKept /\ OnlyHistoryOf(b)
        /\ held'[b][current'[b]] = t
    BY <1>1, <1>2, RecordSound
  <1>4. ~SessionOn(b)'
    BY <1>1 DEF SessionOn
  <1>5. /\ \A c \in BufferId : saved'[c] \in Revisions(c)'
        /\ saved' \in [BufferId -> Nat]
        /\ UNCHANGED <<layout, disk>> /\ replaying' \in BOOLEAN
    BY <1>1, <1>3, SavedKept DEF Sound, TypeOK, files
  <1> QED BY <1>1, <1>3, <1>4, <1>5, ReplacedSound

LEMMA WalkSound ==
  ASSUME Sound, NEW p \in Pane, NEW r \in 1 .. MaxRevisions, Walk(p, shows[p], r)
  PROVE  Sound'
  <1>0. PICK b \in BufferId : b = shows[p]
    BY DEF Sound, TypeOK
  <1>1. PICK log \in LogsAfterPaste(p, b) :
          /\ r <= Len(log) /\ Len(log) <= MaxRevisions
          /\ held' = [held EXCEPT ![b] = log]
          /\ text' = [text EXCEPT ![b] = log[r]]
    BY <1>0 DEF Walk
  <1>2. /\ NoConflict(p, b) /\ ~OpenAt("insert", p, b)
        /\ current' = [current EXCEPT ![b] = r]
        /\ session' = SessionAfterPaste(p, b)
        /\ UNCHANGED <<layout, files, replaying>>
    BY <1>0 DEF Walk
  <1>4. /\ Grows(log, b)
        /\ SessionOn(b) => OpenAt("paste", p, b) \/ OpenAt("replay", p, b)
    BY <1>2, AfterPasteSound
  <1>5. /\ held'[b] = log /\ current'[b] = r /\ OnlyHistoryOf(b)
        /\ r \in Nat /\ log \in Seq(Text) /\ r \in 1 .. Len(log) /\ Len(log) \in 1 .. MaxRevisions
        /\ log[r] \in Text
    BY <1>1, <1>2, <1>4, EditSessionAssumption DEF Sound, TypeOK, OnlyHistoryOf, Grows
  <1>6. HistoryTyped'
    BY <1>1, <1>2, <1>5 DEF Sound, TypeOK, HistoryTyped, Revisions, OnlyHistoryOf
  <1>7. HistoryKept
    <2>1. \A c \in BufferId \ {b} : held'[c] = held[c] /\ Len(held[c]) \in Nat
      BY <1>5 DEF OnlyHistoryOf, Sound, TypeOK
    <2> QED BY <1>4, <1>5, <2>1 DEF HistoryKept, Grows
  <1>8. /\ session' = session \/ (session' = NoSession /\ SessionOn(b))
        /\ SessionOn(b)' => session'.kind = "replay" /\ session'.base = NoText
    BY <1>2, <1>4, SessionAfterPasteSound
  <1>9. /\ \A c \in BufferId : saved'[c] \in Revisions(c)'
        /\ saved' \in [BufferId -> Nat]
        /\ UNCHANGED <<layout, disk>> /\ replaying' \in BOOLEAN
    BY <1>2, <1>6, <1>7, SavedKept DEF Sound, TypeOK, files
  <1> QED BY <1>1, <1>5, <1>6, <1>8, <1>9, ReplacedSound

LEMMA ReloadSound ==
  ASSUME Sound, NEW t \in Text, NEW from_disk \in BOOLEAN, Reload(t, from_disk)
  PROVE  Sound'
  <1>0. PICK b \in BufferId : b = Focused
    BY DEF Sound, TypeOK, Focused
  <1>a. PICK left \in LeftTexts(b) : \E log \in CommittedLogs(b, left) :
          SetLog(b, IF t = left THEN log ELSE Recorded(b, log, t))
    BY <1>0 DEF Reload
  <1>1. PICK log \in CommittedLogs(b, left) :
          SetLog(b, IF t = left THEN log ELSE Recorded(b, log, t))
    BY <1>a
  <1>2. /\ session' = NoSession
        /\ text' = [text EXCEPT ![b] = t]
        /\ saved' = IF from_disk THEN [saved EXCEPT ![b] = current'[b]] ELSE saved
        /\ UNCHANGED <<layout, disk, replaying>>
    BY <1>0 DEF Reload
  <1>3. session = NoSession \/ SessionOn(b)
    BY <1>0 DEF Sound, SessionIsFocused, SessionOn
  <1>4. /\ Grows(log, b)
        /\ log = held[b] => left = held[b][current[b]]
        /\ log # held[b] => Len(log) = Len(held[b]) + 1 /\ log[Len(log)] = left
    BY <1>1, CommittedGrows
  <1>5. /\ HistoryTyped' /\ HistoryKept /\ OnlyHistoryOf(b)
        /\ held'[b][current'[b]] = t
    <2>1. CASE t = left
      BY <1>1, <1>3, <1>4, <2>1, SetLogKeeps DEF Sound
    <2>2. CASE t # left
      BY <1>1, <1>3, <1>4, <2>2, RecordSound
    <2> QED BY <2>1, <2>2
  <1>6. /\ \A c \in BufferId : saved'[c] \in Revisions(c)'
        /\ saved' \in [BufferId -> Nat]
    <2>1. CASE from_disk
      <3>1. current'[b] \in Nat /\ current'[b] \in Revisions(b)'
        BY <1>3, <1>5 DEF HistoryTyped
      <3>2. \A c \in BufferId : saved[c] \in Revisions(c)'
        BY <1>5 DEF Sound, TypeOK, HistoryTyped, HistoryKept, Revisions
      <3> QED BY <1>2, <2>1, <3>1, <3>2 DEF Sound, TypeOK
    <2>2. CASE ~from_disk
      BY <1>2, <1>5, <2>2, SavedKept DEF Sound, TypeOK
    <2> QED BY <2>1, <2>2
  <1>7. /\ session' = session \/ (session' = NoSession /\ SessionOn(b))
        /\ ~SessionOn(b)'
        /\ UNCHANGED <<layout, disk>> /\ replaying' \in BOOLEAN
    BY <1>2, <1>3 DEF SessionOn, Sound, TypeOK
  <1> QED BY <1>2, <1>3, <1>5, <1>6, <1>7, ReplacedSound

LEMMA WriteSound ==
  ASSUME Sound, NEW b \in BufferId, Write(b)
  PROVE  Sound'
  <1>1. TypeOK'
    BY DEF Write, Sound, TypeOK, Revisions, layout
  <1> QED BY <1>1 DEF Write, Sound, SessionIsFocused, SnapshotIsCurrent, TextIsCurrent,
                      BaseIsSnapshot, SessionOn, Focused, layout

LEMMA StepSound ==
  ASSUME ~TakeoverAfterEdit, Sound, [Next]_vars
  PROVE  Sound'
  <1>1. CASE EnterInsert
    BY <1>1, EnterInsertSound
  <1>2. CASE ExitInsert
    BY <1>2, EndedSound DEF ExitInsert, layout, files, Sound, TypeOK
  <1>3. CASE StepPasteCommit
    BY <1>3, EndedSound DEF StepPasteCommit, layout, files, Sound, TypeOK
  <1>4. CASE \E t \in Text : Paste(t) \/ PasteCycle(t)
    BY <1>4, PasteSound, PasteCycleSound
  <1>5. CASE StartReplay
    BY <1>5, StartReplaySound
  <1>6. CASE FinishReplay
    <2>1. CASE session # NoSession /\ session.kind # "paste"
      BY <1>6, <2>1, EndedSound DEF FinishReplay, layout, files, Sound, TypeOK
    <2>2. CASE ~(session # NoSession /\ session.kind # "paste")
      <3>1. UNCHANGED <<layout, text, held, current, files, session>> /\ replaying' = FALSE
        BY <1>6, <2>2 DEF FinishReplay
      <3> QED BY <3>1 DEF Sound, TypeOK, SessionIsFocused, SnapshotIsCurrent, TextIsCurrent,
                          BaseIsSnapshot, SessionOn, Focused, Revisions, layout, files
    <2> QED BY <2>1, <2>2
  <1>7. CASE \E p \in Pane, t \in Text :
               EditGrouped(p, shows[p], t) \/ EditRecorded(p, shows[p], t)
    BY <1>7, EditGroupedSound, EditRecordedSound
  <1>8. CASE \E b \in BufferId, t \in Text : EditUnowned(b, t)
    BY <1>8, EditUnownedSound
  <1>9. CASE \E p \in Pane, r \in 1 .. MaxRevisions : Walk(p, shows[p], r)
    BY <1>9, WalkSound
  <1>10. CASE \E p \in Pane : FocusPane(p)
    BY <1>10, EndedSound DEF FocusPane, files, Sound, TypeOK
  <1>11. CASE \E p \in Pane, b \in BufferId : SwitchBuffer(p, b)
    <2> PICK p \in Pane, b \in BufferId : SwitchBuffer(p, b)
      BY <1>11
    <2>1. shows' \in [Pane -> BufferId]
      BY DEF SwitchBuffer, Sound, TypeOK
    <2>2. CASE p = focus
      BY <2>1, <2>2, EndedSound DEF SwitchBuffer, files, Sound, TypeOK
    <2>3. CASE p # focus
      <3>1. UNCHANGED <<session, held, current, focus, text, files, replaying>>
            /\ shows'[focus] = shows[focus]
        BY <2>3 DEF SwitchBuffer, Sound, TypeOK
      <3> QED BY <2>1, <3>1 DEF Sound, TypeOK, SessionIsFocused, SnapshotIsCurrent,
                TextIsCurrent, BaseIsSnapshot, SessionOn, Focused, Revisions, files
    <2> QED BY <2>2, <2>3
  <1>12. CASE \E t \in Text, from_disk \in BOOLEAN : Reload(t, from_disk)
    BY <1>12, ReloadSound
  <1>13. CASE \E b \in BufferId : Write(b)
    BY <1>13, WriteSound
  <1>14. CASE UNCHANGED vars
    BY <1>14 DEF vars, layout, files, Sound, TypeOK, SessionIsFocused, SnapshotIsCurrent,
                 TextIsCurrent, BaseIsSnapshot, SessionOn, Focused, Revisions
  <1> QED BY <1>1, <1>2, <1>3, <1>4, <1>5, <1>6, <1>7, <1>8, <1>9, <1>10, <1>11, <1>12,
             <1>13, <1>14 DEF Next

\* Every reachable state is sound, when no replayed body edits before it
\* enters Insert or pastes (see SnapshotIsCurrent).
THEOREM SoundAlways ==
  ASSUME ~TakeoverAfterEdit
  PROVE  Spec => []Sound
  <1>1. Init => Sound
    BY InitSound
  <1>2. Sound /\ [Next]_vars => Sound'
    BY StepSound
  <1> QED BY <1>1, <1>2, PTL DEF Spec

\* The types of the state, for every bound on the revisions.
THEOREM TypeCorrect ==
  ASSUME ~TakeoverAfterEdit
  PROVE  Spec => []TypeOK
  <1>1. Sound => TypeOK
    BY DEF Sound
  <1> QED BY <1>1, SoundAlways, PTL

\* The open session is where the keys go (OpenSession and focus.rs): however
\* panes, buffers and replays interleave, it is the focused pane's.
THEOREM SessionFollowsFocus ==
  ASSUME ~TakeoverAfterEdit
  PROVE  Spec => []SessionIsFocused
  <1>1. Sound => SessionIsFocused
    BY DEF Sound
  <1> QED BY <1>1, SoundAlways, PTL

\* The commit of an Insert or Paste session records an edit of the current
\* revision (unrecorded_inverse, open_or_retarget), for any panes, buffers,
\* texts and revisions.
THEOREM CommitsMeetHistory ==
  ASSUME ~TakeoverAfterEdit
  PROVE  Spec => []SnapshotIsCurrent
  <1>1. Sound => SnapshotIsCurrent
    BY DEF Sound
  <1> QED BY <1>1, SoundAlways, PTL

\* Outside a composing session, undo, redo and goto_revision apply their
\* transactions to the text of the current revision.
THEOREM WalksMeetHistory ==
  ASSUME ~TakeoverAfterEdit
  PROVE  Spec => []TextIsCurrent
  <1>1. Sound => TextIsCurrent
    BY DEF Sound
  <1> QED BY <1>1, SoundAlways, PTL

-----------------------------------------------------------------------------
(* What a step does to the histories *)

\* The step keeps every revision, and records a session's edits it ends.
KeepsAndRecords ==
  /\ HistoryKept
  /\ \A b \in BufferId : UnrecordedEdits(b) /\ ~SameGroup => Records(b)

\* Committing alone keeps and records.
LEMMA AppendRecords ==
  ASSUME Sound, HistoryKept,
         \A b \in BufferId : UnrecordedEdits(b) => Continues(held'[b], b)
  PROVE  KeepsAndRecords
  <1> SUFFICES ASSUME NEW b \in BufferId, UnrecordedEdits(b) PROVE Records(b)
    BY DEF KeepsAndRecords
  <1>1. held[b] \in Seq(Text) /\ LeftTexts(b) \subseteq Text
    BY LeftTextsTyped DEF Sound, TypeOK
  <1>2. PICK t \in LeftTexts(b) : t = session.base \/ held'[b] = Append(held[b], t)
    BY DEF Continues
  <1>3. Len(held[b]) \in Nat
    BY <1>1
  <1> QED BY <1>1, <1>2, <1>3 DEF Records

\* A step that leaves the histories and the session's group.
LEMMA SameGroupKeeps ==
  ASSUME Sound, UNCHANGED held,
         session # NoSession =>
           session' # NoSession /\ session'.buffer = session.buffer
             /\ session'.snapshot = session.snapshot
  PROVE  KeepsAndRecords
  <1>1. HistoryKept
    BY DEF HistoryKept, Sound, TypeOK, Revisions
  <1> QED BY <1>1 DEF KeepsAndRecords, SameGroup, UnrecordedEdits, SessionOn

\* A step that gives b the log `more`, which continues a log `log` that has
\* b's session's edits.
LEMMA MoreKeeps ==
  ASSUME Sound, NEW b \in BufferId, NEW log, Grows(log, b), NEW more \in Seq(Text),
         UnrecordedEdits(b) => Continues(log, b),
         Len(log) <= Len(more), \A i \in 1 .. Len(log) : more[i] = log[i],
         held'[b] = more, HistoryKept,
         session' = session \/ (session' = NoSession /\ (SessionOn(b) \/ session = NoSession))
  PROVE  KeepsAndRecords
  <1> SUFFICES ASSUME NEW c \in BufferId, UnrecordedEdits(c), ~SameGroup
               PROVE  Records(c)
    BY DEF KeepsAndRecords
  <1>1. c = b
    BY DEF SameGroup, UnrecordedEdits, SessionOn
  <1>2. held[b] \in Seq(Text) /\ LeftTexts(b) \subseteq Text
    BY LeftTextsTyped DEF Sound, TypeOK
  <1>3. PICK t \in LeftTexts(b) : t = session.base \/ log = Append(held[b], t)
    BY <1>1 DEF Continues
  <1>4. CASE t = session.base
    BY <1>1, <1>4 DEF Records
  <1>5. CASE log = Append(held[b], t)
    <2>1. Len(log) = Len(held[b]) + 1 /\ log[Len(held[b]) + 1] = t /\ Len(log) \in Nat
      BY <1>2, <1>5
    <2> QED BY <1>1, <1>2, <2>1 DEF Records
  <1> QED BY <1>3, <1>4, <1>5

LEMMA StepKeepsAndRecords ==
  ASSUME Sound, Next
  PROVE  KeepsAndRecords
  <1>1. CASE EnterInsert
    BY <1>1, CommitPasteSound, AppendRecords DEF EnterInsert, CanOpen
  <1>2. CASE ExitInsert \/ StepPasteCommit
    BY <1>2, EndSessionsSound, AppendRecords DEF ExitInsert, StepPasteCommit
  <1>3. CASE \E t \in Text : Paste(t)
    BY <1>3, CommitPasteSound, AppendRecords DEF Paste, CanOpen
  <1>4. CASE \E t \in Text : PasteCycle(t)
    <2>1. /\ session \in Session /\ UNCHANGED held
          /\ session' = [session EXCEPT !.base = session.snapshot]
          /\ session.snapshot \in Text
      BY <1>4 DEF PasteCycle, OpenAt, SessionOn, Sound, TypeOK, Session
    <2>2. /\ session' # NoSession /\ session'.buffer = session.buffer
          /\ session'.snapshot = session.snapshot
      BY <2>1, NoSessionAssumption DEF Session
    <2> QED BY <2>1, <2>2, SameGroupKeeps
  <1>5. CASE StartReplay
    BY <1>5, CommitPasteSound, AppendRecords DEF StartReplay
  <1>6. CASE FinishReplay
    <2>1. CASE session # NoSession /\ session.kind # "paste"
      BY <1>6, <2>1, EndSessionsSound, AppendRecords DEF FinishReplay
    <2>2. CASE ~(session # NoSession /\ session.kind # "paste")
      BY <1>6, <2>2, SameGroupKeeps DEF FinishReplay
    <2> QED BY <2>1, <2>2
  <1>7. CASE \E p \in Pane, t \in Text : EditGrouped(p, shows[p], t)
    <2> PICK p \in Pane, t \in Text : EditGrouped(p, shows[p], t)
      BY <1>7
    <2>1. /\ session \in Session /\ UNCHANGED held
          /\ session' = [session EXCEPT !.base = IF session.base = NoText
                                                   THEN text[shows[p]] ELSE session.base]
          /\ text[shows[p]] \in Text
      BY DEF EditGrouped, OpenAt, SessionOn, Sound, TypeOK
    <2>2. /\ session' # NoSession /\ session'.buffer = session.buffer
          /\ session'.snapshot = session.snapshot
      BY <2>1, NoSessionAssumption DEF Session
    <2> QED BY <2>1, <2>2, SameGroupKeeps
  <1>8. CASE \E p \in Pane, t \in Text : EditRecorded(p, shows[p], t)
    <2> PICK p \in Pane, t \in Text : EditRecorded(p, shows[p], t)
      BY <1>8
    <2>0. PICK b \in BufferId : b = shows[p]
      BY DEF Sound, TypeOK
    <2>1. PICK log \in LogsAfterPaste(p, b) : SetLog(b, Recorded(b, log, t))
      BY <2>0 DEF EditRecorded
    <2>2. /\ NoConflict(p, b) /\ ~OpenAt("insert", p, b)
          /\ session' = SessionAfterPaste(p, b)
      BY <2>0 DEF EditRecorded
    <2>3. /\ Grows(log, b)
          /\ SessionOn(b) => OpenAt("paste", p, b) \/ OpenAt("replay", p, b)
          /\ UnrecordedEdits(b) => Continues(log, b)
      BY <2>2, AfterPasteSound
    <2>4. HistoryKept /\ held'[b] = Recorded(b, log, t)
      BY <2>1, <2>3, RecordSound
    <2>5. /\ Recorded(b, log, t) \in Seq(Text)
          /\ Len(log) <= Len(Recorded(b, log, t))
          /\ \A i \in 1 .. Len(log) : Recorded(b, log, t)[i] = log[i]
      BY <2>3 DEF Grows, Recorded
    <2>6. session' = session \/ (session' = NoSession /\ SessionOn(b))
      BY <2>2, <2>3, SessionAfterPasteSound
    <2> QED BY <2>3, <2>4, <2>5, <2>6, MoreKeeps
  <1>9. CASE \E b \in BufferId, t \in Text : EditUnowned(b, t)
    <2> PICK b \in BufferId, t \in Text : EditUnowned(b, t)
      BY <1>9
    <2>1. /\ ~SessionOn(b) /\ session' = session
          /\ SetLog(b, Recorded(b, held[b], t))
      BY DEF EditUnowned
    <2>2. Grows(held[b], b)
      BY DEF Sound, TypeOK, Grows, Revisions
    <2>3. HistoryKept
      BY <2>1, <2>2, RecordSound
    <2> QED BY <2>1, <2>3 DEF KeepsAndRecords, SameGroup, UnrecordedEdits, SessionOn
  <1>10. CASE \E p \in Pane, r \in 1 .. MaxRevisions : Walk(p, shows[p], r)
    <2> PICK p \in Pane, r \in 1 .. MaxRevisions : Walk(p, shows[p], r)
      BY <1>10
    <2>0. PICK b \in BufferId : b = shows[p]
      BY DEF Sound, TypeOK
    <2>1. PICK log \in LogsAfterPaste(p, b) : held' = [held EXCEPT ![b] = log]
      BY <2>0 DEF Walk
    <2>2. /\ NoConflict(p, b) /\ ~OpenAt("insert", p, b)
          /\ session' = SessionAfterPaste(p, b)
      BY <2>0 DEF Walk
    <2>3. /\ Grows(log, b)
          /\ SessionOn(b) => OpenAt("paste", p, b) \/ OpenAt("replay", p, b)
          /\ UnrecordedEdits(b) => Continues(log, b)
      BY <2>2, AfterPasteSound
    <2>4. held'[b] = log /\ \A c \in BufferId \ {b} : held'[c] = held[c] /\ Len(held[c]) \in Nat
      BY <2>1 DEF Sound, TypeOK
    <2>5. HistoryKept
      BY <2>3, <2>4 DEF HistoryKept, Grows
    <2>6. session' = session \/ (session' = NoSession /\ SessionOn(b))
      BY <2>2, <2>3, SessionAfterPasteSound
    <2>7. log \in Seq(Text) /\ Len(log) <= Len(log)
      BY <2>3 DEF Grows
    <2> QED BY <2>3, <2>4, <2>5, <2>6, <2>7, MoreKeeps
  <1>11. CASE \E p \in Pane : FocusPane(p)
    BY <1>11, EndSessionsSound, AppendRecords DEF FocusPane
  <1>12. CASE \E p \in Pane, b \in BufferId : SwitchBuffer(p, b)
    <2> PICK p \in Pane, b \in BufferId : SwitchBuffer(p, b)
      BY <1>12
    <2>1. CASE p = focus
      BY <2>1, EndSessionsSound, AppendRecords DEF SwitchBuffer
    <2>2. CASE p # focus
      BY <2>2, SameGroupKeeps DEF SwitchBuffer
    <2> QED BY <2>1, <2>2
  <1>13. CASE \E t \in Text, from_disk \in BOOLEAN : Reload(t, from_disk)
    <2> PICK t \in Text, from_disk \in BOOLEAN : Reload(t, from_disk)
      BY <1>13
    <2>0. PICK b \in BufferId : b = Focused
      BY DEF Sound, TypeOK, Focused
    <2>a. PICK left \in LeftTexts(b) : \E log \in CommittedLogs(b, left) :
            SetLog(b, IF t = left THEN log ELSE Recorded(b, log, t))
      BY <2>0 DEF Reload
    <2>1. PICK log \in CommittedLogs(b, left) :
            SetLog(b, IF t = left THEN log ELSE Recorded(b, log, t))
      BY <2>a
    <2>2. session' = NoSession /\ (SessionOn(b) \/ session = NoSession)
      BY <2>0 DEF Reload, Sound, SessionIsFocused, SessionOn
    <2>3. Grows(log, b) /\ (UnrecordedEdits(b) => Continues(log, b))
      BY <2>1, CommittedGrows
    <2>4. CASE t = left
      <3>1. HistoryKept /\ held'[b] = log
        BY <2>1, <2>3, <2>4, SetLogKeeps DEF Sound
      <3>2. log \in Seq(Text) /\ Len(log) <= Len(log)
        BY <2>3 DEF Grows
      <3> QED BY <2>2, <2>3, <3>1, <3>2, MoreKeeps
    <2>5. CASE t # left
      <3>1. HistoryKept /\ held'[b] = Recorded(b, log, t)
        BY <2>1, <2>3, <2>5, RecordSound
      <3>2. /\ Recorded(b, log, t) \in Seq(Text)
            /\ Len(log) <= Len(Recorded(b, log, t))
            /\ \A i \in 1 .. Len(log) : Recorded(b, log, t)[i] = log[i]
        BY <2>3 DEF Grows, Recorded
      <3> QED BY <2>2, <2>3, <3>1, <3>2, MoreKeeps
    <2> QED BY <2>4, <2>5
  <1>14. CASE \E b \in BufferId : Write(b)
    BY <1>14, SameGroupKeeps DEF Write
  <1> QED BY <1>1, <1>2, <1>3, <1>4, <1>5, <1>6, <1>7, <1>8, <1>9, <1>10, <1>11, <1>12,
             <1>13, <1>14 DEF Next

\* commit_open_session never loses typing: whatever ends a session that has
\* composed edits records them as the next revision of its buffer.
THEOREM SessionsAreRecorded ==
  ASSUME ~TakeoverAfterEdit
  PROVE  Spec => EditsAreRecorded
  <1> DEFINE Kept == \A b \in BufferId : UnrecordedEdits(b) /\ ~SameGroup => Records(b)
  <1>1. Sound /\ [Next]_vars => [Kept]_vars
    BY StepKeepsAndRecords DEF KeepsAndRecords
  <1>2. EditsAreRecorded <=> [][Kept]_vars
    BY DEF EditsAreRecorded
  <1> HIDE DEF Kept
  <1> QED BY <1>1, <1>2, SoundAlways, PTL DEF Spec

-----------------------------------------------------------------------------
(* Save points *)

\* The revision a buffer was saved at holds what its file holds.
SavedIsDisk == \A b \in BufferId : held[b][saved[b]] = disk[b]

LEMMA StepSavedIsDisk ==
  ASSUME ~TakeoverAfterEdit, ~WriteInSession, Sound, SavedIsDisk, [Next]_vars
  PROVE  SavedIsDisk'
  <1>1. CASE UNCHANGED files /\ HistoryKept
    BY <1>1 DEF files, SavedIsDisk, HistoryKept, Sound, TypeOK
  <1>2. CASE \E b \in BufferId : Write(b)
    BY <1>2 DEF Write, Sound, TypeOK, TextIsCurrent, SavedIsDisk
  <1>3. CASE \E t \in Text, from_disk \in BOOLEAN : Reload(t, from_disk)
    <2> PICK t \in Text, from_disk \in BOOLEAN : Reload(t, from_disk)
      BY <1>3
    <2>1. Next
      BY <1>3 DEF Next
    <2>2. HistoryKept /\ Sound'
      BY <2>1, StepKeepsAndRecords, StepSound DEF KeepsAndRecords
    <2>3. CASE from_disk
      <3>0. PICK b \in BufferId : b = Focused
        BY DEF Sound, TypeOK, Focused
      <3>1. /\ t = disk[b] /\ text' = [text EXCEPT ![b] = t] /\ session' = NoSession
            /\ saved' = [saved EXCEPT ![b] = current'[b]] /\ UNCHANGED disk
        BY <2>3, <3>0 DEF Reload
      <3>2. text'[b] = disk[b] /\ held'[b][current'[b]] = text'[b]
        BY <2>2, <3>1 DEF Sound, TypeOK, TextIsCurrent, SessionOn
      <3>3. \A c \in BufferId \ {b} : held'[c][saved'[c]] = disk'[c]
        <4>1. \A c \in BufferId : held'[c][saved[c]] = held[c][saved[c]]
          BY <2>2 DEF HistoryKept, Sound, TypeOK
        <4>2. \A c \in BufferId \ {b} : saved'[c] = saved[c]
          BY <3>1 DEF Sound, TypeOK
        <4> QED BY <3>1, <4>1, <4>2 DEF SavedIsDisk
      <3> QED BY <3>1, <3>2, <3>3 DEF SavedIsDisk, Sound, TypeOK
    <2>4. CASE ~from_disk
      BY <1>1, <2>2, <2>4 DEF Reload, files
    <2> QED BY <2>3, <2>4
  <1>4. CASE UNCHANGED vars
    BY <1>4 DEF vars, files, SavedIsDisk
  <1>5. CASE Next /\ UNCHANGED files
    BY <1>1, <1>5, StepKeepsAndRecords DEF KeepsAndRecords
  <1>6. Next => \/ UNCHANGED files
                \/ \E b \in BufferId : Write(b)
                \/ \E t \in Text, from_disk \in BOOLEAN : Reload(t, from_disk)
    BY DEF Next, EnterInsert, ExitInsert, StepPasteCommit, Paste, PasteCycle, StartReplay,
           FinishReplay, EditGrouped, EditRecorded, EditUnowned, Walk, FocusPane, SwitchBuffer
  <1> QED BY <1>2, <1>3, <1>4, <1>5, <1>6

\* What the invariant says of a buffer that reads as saved.
LEMMA SoundIsClean ==
  ASSUME Sound, SavedIsDisk
  PROVE  CleanMatchesDisk
  BY DEF Sound, SavedIsDisk, CleanMatchesDisk, HasUnsavedChanges, UnrecordedEdits,
         HasEdits, SessionOn, TextIsCurrent, SnapshotIsCurrent, BaseIsSnapshot

\* has_unsaved_changes tells the truth, as long as no write lands while its
\* buffer has a session: a buffer that reads as saved is its file.
THEOREM CleanIsDisk ==
  ASSUME ~TakeoverAfterEdit, ~WriteInSession
  PROVE  Spec => []CleanMatchesDisk
  <1>1. Init => SavedIsDisk
    BY DEF Init, SavedIsDisk
  <1>2. Sound /\ SavedIsDisk /\ [Next]_vars => SavedIsDisk'
    BY StepSavedIsDisk
  <1>3. Sound /\ SavedIsDisk => CleanMatchesDisk
    BY SoundIsClean
  <1> QED BY <1>1, <1>2, <1>3, SoundAlways, PTL DEF Spec
-----------------------------------------------------------------------------
(* The refinement *)

\* A write is the promised save of its buffer, and nothing to the others.
LEMMA WriteIsSave ==
  ASSUME ~WriteInSession, Sound, NEW b \in BufferId, Write(b),
         (Sound /\ CleanMatchesDisk)'
  PROVE  Promised!Next
  <1>1. /\ ~SessionOn(b) /\ UNCHANGED <<text, current, session>>
        /\ disk' = [disk EXCEPT ![b] = text[b]]
        /\ saved' = [saved EXCEPT ![b] = current[b]]
    BY DEF Write
  <1>2. disk'[b] = text[b] /\ saved'[b] = current'[b] /\ ~SessionOn(b)'
    BY <1>1 DEF Sound, TypeOK, SessionOn
  <1>3. Promised!Save(b)
    BY <1>1, <1>2 DEF Promised!Save, HasUnsavedChanges, UnrecordedEdits
  <1>4. \A f \in BufferId \ {b} : Promised!Change(f)
    <2> SUFFICES ASSUME NEW f \in BufferId \ {b} PROVE Promised!Change(f)
      OBVIOUS
    <2>1. disk'[f] = disk[f]
      BY <1>1 DEF Sound, TypeOK
    <2>2. ~HasUnsavedChanges(f)' => text'[f] = disk[f]
      BY <2>1 DEF CleanMatchesDisk
    <2> QED BY <2>1, <2>2 DEF Promised!Change
  <1> QED BY <1>3, <1>4 DEF Promised!Next, Sound, TypeOK

\* Any other step changes what is in the buffers, or what is known of it, and
\* leaves the files alone.
LEMMA ElseIsChange ==
  ASSUME UNCHANGED disk, (Sound /\ CleanMatchesDisk)'
  PROVE  Promised!Next
  <1> SUFFICES ASSUME NEW f \in BufferId PROVE Promised!Change(f)
    BY DEF Promised!Next, Sound, TypeOK
  <1>1. ~HasUnsavedChanges(f)' => text'[f] = disk[f]
    BY DEF CleanMatchesDisk
  <1> QED BY <1>1 DEF Promised!Change

LEMMA StepIsPromised ==
  ASSUME ~TakeoverAfterEdit, ~WriteInSession, Sound, SavedIsDisk, [Next]_vars
  PROVE  [Promised!Next]_(Promised!vars)
  <1>1. Sound' /\ SavedIsDisk'
    BY StepSound, StepSavedIsDisk
  <1>2. (Sound /\ CleanMatchesDisk)'
    BY <1>1, SoundIsClean, PTL
  <1>3. CASE \E b \in BufferId : Write(b)
    BY <1>2, <1>3, WriteIsSave
  <1>4. CASE UNCHANGED disk
    BY <1>2, <1>4, ElseIsChange
  <1>5. \/ UNCHANGED disk
        \/ \E b \in BufferId : Write(b)
    BY DEF Next, vars, files, EnterInsert, ExitInsert, StepPasteCommit, Paste, PasteCycle,
           StartReplay, FinishReplay, EditGrouped, EditRecorded, EditUnowned, Walk,
           FocusPane, SwitchBuffer, Reload
  <1> QED BY <1>3, <1>4, <1>5

\* Sessions keep the promises of FileVersions, whatever the panes, buffers,
\* texts and bounds: saving, reading as saved and the file's content go
\* together through inserts, pastes, replays, walks and reloads.
THEOREM SessionsKeepPromises ==
  ASSUME ~TakeoverAfterEdit, ~WriteInSession
  PROVE  Spec => ImplementsFileVersions
  <1>1. Init => Promised!Init /\ SavedIsDisk
    BY DEF Init, SavedIsDisk, Promised!Init, HasUnsavedChanges, UnrecordedEdits, SessionOn
  <1>2. Sound /\ SavedIsDisk /\ [Next]_vars => SavedIsDisk' /\ [Promised!Next]_(Promised!vars)
    BY StepSavedIsDisk, StepIsPromised
  <1> QED BY <1>1, <1>2, SoundAlways, PTL DEF Spec, ImplementsFileVersions, Promised!Spec
=============================================================================
