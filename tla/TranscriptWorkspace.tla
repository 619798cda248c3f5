------------------------- MODULE TranscriptWorkspace -------------------------
(***************************************************************************)
(* The media page of the web interface: the editor of one transcript, the  *)
(* form of one publication, the import, and the requests they make of the  *)
(* server, whose answers come in any order.  Others store cues of the same *)
(* transcripts meanwhile.  Times are milliseconds and what is typed is     *)
(* HH:MM:SS.mmm, as the four numbers; a transcript, an answer and the like *)
(* that may be absent is a set of at most one.  Wording, the pages of cues *)
(* and the fields of a publication are left out.                           *)
(***************************************************************************)
EXTENDS Integers, FiniteSetsExt, SequencesExt

CONSTANTS
  Assets,       \* media of the library
  Originals,    \* the transcripts: [id -> [asset, cues]]
  TypedTimes,   \* times a user may type
  TypedTexts,   \* texts a user may type
  Inferred,     \* cues a transcription may store
  PostBound,    \* bound: requests under way
  ClickBound    \* bound: what the user and others do

VARIABLES
  stored,      \* the transcripts of the database
  recency,     \* their ids, the most recently updated first
  workspace,   \* transcriptWorkspace of MediaRoute
  typed,       \* the draft of TranscriptEditor
  dirty,       \* its isDirty
  guarded,     \* transcriptIsDirty of MediaRoute
  publishing,  \* publishMediaId
  busy,      \* activeAction
  posted,      \* requests under way
  crossed,     \* history: an answer came to a page that had changed meanwhile
  clicks

workspaceVars ==
  <<stored, recency, workspace, typed, dirty, guarded, publishing, busy, posted, crossed, clicks>>
pageVars == <<workspace, typed, dirty, guarded, publishing, busy>>
storeVars == <<stored, recency>>

TheOne(set) == CHOOSE x \in set : TRUE
Ids == DOMAIN Originals

-----------------------------------------------------------------------------
(* Cues                                                                    *)

Timestamp(ms) ==
  <<ms \div 3600000, (ms % 3600000) \div 60000, (ms % 60000) \div 1000, ms % 1000>>
\* timestampPattern takes minutes and seconds below 60.
Milliseconds(time) ==
  IF time[2] < 60 /\ time[3] < 60
  THEN {3600000 * time[1] + 60000 * time[2] + 1000 * time[3] + time[4]} ELSE {}

\* A cue of a transcript and one of a draft; words is the time of each word.
CueRow == [start : Nat, end : Nat, text : STRING, words : SUBSET (Nat \X Nat)]
DraftRow == [start : Nat \X Nat \X Nat \X Nat, end : Nat \X Nat \X Nat \X Nat,
             text : STRING, words : SUBSET (Nat \X Nat)]

\* transcriptCueSchema and transcriptCueListSchema
ValidCue(cue) ==
  /\ cue.text # "" /\ cue.end > cue.start
  /\ \A word \in cue.words : word[2] >= word[1] /\ word[1] >= cue.start /\ word[2] <= cue.end
ValidCues(cues) ==
  /\ cues # <<>>
  /\ \A i \in DOMAIN cues : ValidCue(cues[i]) /\ (i > 1 => cues[i].start >= cues[i - 1].start)

\* draftFromTranscript.
Drafted(cue) == [start |-> Timestamp(cue.start), end |-> Timestamp(cue.end),
                 text |-> cue.text, words |-> cue.words]
DraftOf(shown) ==
  IF shown = {} THEN <<>>
  ELSE [i \in DOMAIN TheOne(shown).cues |-> Drafted(TheOne(shown).cues[i])]
\* validateDraft: the cues of a draft without an error.
CuesOf(draft) ==
  LET Starts(i) == Milliseconds(draft[i].start)
      Ends(i) == Milliseconds(draft[i].end)
      Fits(i) == /\ Starts(i) # {} /\ Ends(i) # {} /\ draft[i].text # ""
                 /\ \A s \in Starts(i), e \in Ends(i) : e > s
                 /\ i > 1 => \A s \in Starts(i), before \in Starts(i - 1) : s >= before
  IN IF \A i \in DOMAIN draft : Fits(i)
     THEN {[i \in DOMAIN draft |->
              [start |-> TheOne(Starts(i)), end |-> TheOne(Ends(i)),
               text |-> draft[i].text, words |-> draft[i].words]]}
     ELSE {}

\* What a list of transcripts shows of one, and the cues of its rows.
View(id) == [id |-> id, revision |-> stored[id].revision, cues |-> stored[id].cues]
\* listByMediaId; the page shows the first.
Of(n, asset) == Originals[recency[n]].asset = asset
Listed(asset) ==
  {View(recency[n]) : n \in
     {m \in DOMAIN recency : Of(m, asset) /\ \A earlier \in 1..(m - 1) : ~Of(earlier, asset)}}

WorkspaceTypeOK ==
  /\ stored \in [Ids -> [cues : Seq(CueRow), edited : BOOLEAN, revision : Nat]]
  /\ recency \in Seq(Ids) /\ ToSet(recency) = Ids
  /\ Cardinality(workspace) <= 1 /\ Cardinality(publishing) <= 1
  /\ \A w \in workspace :
       /\ DOMAIN w = {"asset", "loading", "saving", "exporting", "error", "shown"}
       /\ w.asset \in Assets /\ Cardinality(w.shown) <= 1
       /\ {w.loading, w.saving, w.exporting, w.error} \subseteq BOOLEAN
  /\ typed \in Seq(DraftRow)
  /\ {dirty, guarded, crossed} \subseteq BOOLEAN
  /\ publishing \subseteq Assets /\ busy \in {"none", "import", "publish"}
  /\ Len(posted) <= PostBound /\ clicks \in 0..ClickBound

WorkspaceInit ==
  /\ stored = [id \in Ids |-> [cues |-> Originals[id].cues, edited |-> FALSE, revision |-> 0]]
  /\ recency = SetToSeq(Ids)
  /\ workspace = {} /\ typed = <<>> /\ dirty = FALSE /\ guarded = FALSE
  /\ publishing = {} /\ busy = "none"
  /\ posted = <<>> /\ crossed = FALSE /\ clicks = 0

-----------------------------------------------------------------------------
(* The page                                                                *)

Click == clicks < ClickBound /\ clicks' = clicks + 1
\* A request, what the page was when it was made and what it then became.
Post(kind, subject, base, left) ==
  /\ Len(posted) < PostBound
  /\ posted' = Append(posted, [kind |-> kind, subject |-> subject, base |-> base, left |-> left,
                               status |-> "sent", answer |-> {}, gone |-> FALSE])

\* The editor takes another transcript or revision into its draft, and says so
\* to the page (the effects of TranscriptEditor).
Key(w) == UNION {{<<s.id, s.revision>> : s \in v.shown} : v \in w}
Show(w, clean) ==
  LET same == workspace # {} /\ w # {} /\ Key(w) = Key(workspace)
  IN /\ workspace' = w
     /\ typed' = IF same THEN typed ELSE DraftOf(UNION {v.shown : v \in w})
     /\ dirty' = (same /\ dirty)
     /\ guarded' = (~clean /\ same /\ guarded)

\* loadTranscript
Load(asset) ==
  LET w == {[asset |-> asset, loading |-> TRUE, saving |-> FALSE, exporting |-> FALSE,
             error |-> FALSE, shown |-> {}]}
  IN Show(w, TRUE) /\ Post("load", asset, w, w)

\* The buttons of the media wait for an import or a publication under way.
Idle == busy = "none"
Saving == \E w \in workspace : w.saving
BeginTranscript(asset) ==
  /\ Click /\ Idle /\ ~Saving
  /\ publishing' = {} /\ Load(asset)
  /\ UNCHANGED <<storeVars, busy, crossed>>
ReloadTranscript ==
  /\ Click /\ \E w \in workspace : w.error /\ Load(w.asset)
  /\ UNCHANGED <<storeVars, publishing, busy, crossed>>
CloseTranscript ==
  /\ Click /\ workspace # {} /\ ~Saving
  /\ Show({}, TRUE)
  /\ UNCHANGED <<storeVars, publishing, busy, posted, crossed>>

\* The fields of a cue are there, and not disabled by a save under way.
Typing == \E w \in workspace : ~w.loading /\ ~w.saving /\ w.shown # {}
\* Seeded fault: a changed cue keeps the times of its words.
FieldKeepingWords(i, field, value) ==
  /\ Click /\ i \in DOMAIN typed
  /\ typed' = [typed EXCEPT ![i] = [@ EXCEPT ![field] = value]]
  /\ dirty' = TRUE /\ guarded' = IF dirty THEN guarded ELSE TRUE
  /\ UNCHANGED <<storeVars, workspace, publishing, busy, posted, crossed>>

\* A change of a cue drops the times of its words.
Field(i, field, value) ==
  /\ Click /\ i \in DOMAIN typed
  /\ typed' = [typed EXCEPT ![i] = [[@ EXCEPT ![field] = value] EXCEPT !.words = {}]]
  /\ dirty' = TRUE /\ guarded' = IF dirty THEN guarded ELSE TRUE
  /\ UNCHANGED <<storeVars, workspace, publishing, busy, posted, crossed>>

\* Seeded fault: a cue may be edited while a save is under way.
UpdateCueAnytime(i) ==
  \/ \E t \in TypedTimes : Field(i, "start", t) \/ Field(i, "end", t)
  \/ \E t \in TypedTexts : Field(i, "text", t)

\* updateCue
UpdateCue(i) ==
  /\ Typing
  /\ \/ \E t \in TypedTimes : Field(i, "start", t) \/ Field(i, "end", t)
     \/ \E t \in TypedTexts : Field(i, "text", t)

\* submit: by the button when there are edits, by the keyboard at any time.
SaveTranscript ==
  /\ Click /\ Typing /\ typed # <<>> /\ CuesOf(typed) # {}
  /\ \E w \in workspace : \E s \in w.shown :
       LET left == {[w EXCEPT !.saving = TRUE, !.exporting = FALSE, !.error = FALSE]}
       IN /\ Show(left, FALSE)
          /\ Post("save", [id |-> s.id, expected |-> s.revision, cues |-> TheOne(CuesOf(typed))],
                  workspace, left)
  /\ UNCHANGED <<storeVars, publishing, busy, crossed>>
ExportTranscript ==
  /\ Click /\ Typing /\ typed # <<>> /\ ~dirty
  /\ \E w \in workspace : \E s \in w.shown :
       LET left == {[w EXCEPT !.exporting = TRUE, !.error = FALSE]}
       IN ~w.exporting /\ Show(left, FALSE) /\ Post("export", s.id, workspace, left)
  /\ UNCHANGED <<storeVars, publishing, busy, crossed>>

\* beginPublish does not look at a save that is under way.
BeginPublish(asset) ==
  /\ Click /\ Idle
  /\ Show({}, TRUE) /\ publishing' = {asset}
  /\ UNCHANGED <<storeVars, busy, posted, crossed>>
\* The form of the publication waits for its own request only.
Publishing == busy = "publish"
\* queueYouTubePublish, queueTikTokPublish
QueuePublish ==
  /\ Click /\ ~Publishing
  /\ \E asset \in publishing : Post("publish", asset, {}, {})
  /\ busy' = "publish"
  /\ UNCHANGED <<storeVars, workspace, typed, dirty, guarded, publishing, crossed>>
CancelPublish ==
  /\ Click /\ publishing # {} /\ ~Publishing
  /\ publishing' = {}
  /\ UNCHANGED <<storeVars, workspace, typed, dirty, guarded, busy, posted, crossed>>
\* The form of the import looks at imports only.
ImportMedia ==
  /\ Click /\ busy # "import"
  /\ Post("import", "path", {}, {})
  /\ busy' = "import" /\ crossed' = (crossed \/ Publishing)
  /\ UNCHANGED <<storeVars, workspace, typed, dirty, guarded, publishing>>

Fresh ==
  /\ workspace' = {} /\ typed' = <<>> /\ dirty' = FALSE /\ guarded' = FALSE
  /\ publishing' = {} /\ busy' = "none" /\ crossed' = FALSE
  /\ posted' = [n \in DOMAIN posted |-> [posted[n] EXCEPT !.gone = TRUE]]
\* The page is left: by a link, after a warning when there are edits, or by the
\* browser's Back button, without one.
LeavePage == Click /\ workspace \cup publishing # {} /\ Fresh /\ UNCHANGED storeVars
\* The link to the page itself, or one opened elsewhere, leaves it as it is.
FollowLinkHere ==
  /\ Click /\ guarded
  /\ guarded' = FALSE /\ crossed' = TRUE
  /\ UNCHANGED <<storeVars, workspace, typed, dirty, publishing, busy, posted>>

-----------------------------------------------------------------------------
(* The server                                                              *)

Store(id, cues, edited) ==
  /\ stored' = [stored EXCEPT ![id] = [cues |-> cues, edited |-> edited, revision |-> @.revision + 1]]
  /\ recency' = LET at == CHOOSE n \in DOMAIN recency : recency[n] = id
                IN [n \in DOMAIN recency |->
                      IF n = 1 THEN id ELSE IF n <= at THEN recency[n - 1] ELSE recency[n]]

\* replaceGeneratedCues
Generate(id) ==
  /\ Click /\ ~stored[id].edited
  /\ Store(id, Inferred, FALSE)
  /\ UNCHANGED <<pageVars, posted, crossed>>
\* Another page saves (updateCue of the repository does the same to one cue).
OtherSaves(id) ==
  /\ Click /\ stored[id].cues # <<>>
  /\ \E text \in TypedTexts \ {""} :
       Store(id, [stored[id].cues EXCEPT ![1] = [@ EXCEPT !.text = text, !.words = {}]], TRUE)
  /\ UNCHANGED <<pageVars, posted, crossed>>

\* exportSubtitle takes what the schema takes.
Exportable(id) == ValidCues(stored[id].cues)
\* What the server makes of a request: an answer, or a refusal.
Accepts(r) ==
  CASE r.kind = "save" -> /\ ValidCues(r.subject.cues)
                          /\ stored[r.subject.id].revision = r.subject.expected
    [] r.kind = "export" -> Exportable(r.subject)
    [] OTHER -> TRUE
Serve(n) ==
  LET r == posted[n]
  IN /\ r.status = "sent"
     /\ IF r.kind = "save" /\ Accepts(r)
        THEN Store(r.subject.id, r.subject.cues, TRUE) ELSE UNCHANGED storeVars
     /\ posted' = [posted EXCEPT ![n] =
          [r EXCEPT !.status = IF Accepts(r) THEN "answered" ELSE "refused",
                    !.answer = IF ~Accepts(r) THEN {}
                               ELSE CASE r.kind = "load" -> Listed(r.subject)
                                      [] r.kind = "save" ->
                                           {[id |-> r.subject.id, cues |-> r.subject.cues,
                                             revision |-> r.subject.expected + 1]}
                                      [] OTHER -> {}]]
     /\ UNCHANGED <<pageVars, crossed, clicks>>
\* A request or its answer is lost.
Lose(n) ==
  /\ Click /\ posted[n].status # "refused"
  /\ posted' = [posted EXCEPT ![n] = [@ EXCEPT !.status = "refused", !.answer = {}]]
  /\ UNCHANGED <<storeVars, pageVars, crossed>>

\* The page as the answer of r leaves it, from what it was when r was made.
Answered(r, w) ==
  IF r.status = "refused"
  THEN [w EXCEPT !.loading = FALSE, !.saving = FALSE, !.error = TRUE]
  ELSE IF r.kind = "export" THEN w
  ELSE [w EXCEPT !.loading = FALSE, !.saving = FALSE, !.shown = r.answer]
Receive(n) ==
  LET r == posted[n]
  IN /\ r.status # "sent"
     /\ posted' = RemoveAt(posted, n)
     /\ CASE r.gone -> UNCHANGED <<pageVars, crossed>>
          [] ~r.gone /\ r.kind = "import" ->
               /\ busy' = "none" /\ crossed' = (crossed \/ busy # "import")
               /\ UNCHANGED <<workspace, typed, dirty, guarded, publishing>>
          [] ~r.gone /\ r.kind = "publish" ->
               /\ busy' = "none" /\ crossed' = (crossed \/ ~Publishing)
               /\ publishing' = IF r.status = "refused" THEN publishing ELSE {}
               /\ UNCHANGED <<workspace, typed, dirty, guarded>>
          [] OTHER ->
               /\ Show({Answered(r, w) : w \in r.base}, r.kind = "save" /\ r.status = "answered")
               /\ crossed' = (\/ crossed \/ workspace # r.left
                              \/ \E m \in (n + 1)..Len(posted) : posted[m].left # {})
               /\ UNCHANGED <<publishing, busy>>
     /\ UNCHANGED <<storeVars, clicks>>

WorkspaceNext ==
  \/ \E asset \in Assets : BeginTranscript(asset) \/ BeginPublish(asset)
  \/ ReloadTranscript \/ CloseTranscript \/ SaveTranscript \/ ExportTranscript
  \/ \E i \in DOMAIN typed : UpdateCue(i)
  \/ QueuePublish \/ CancelPublish \/ ImportMedia \/ LeavePage \/ FollowLinkHere
  \/ \E id \in Ids : Generate(id) \/ OtherSaves(id)
  \/ \E n \in DOMAIN posted : Serve(n) \/ Lose(n) \/ Receive(n)
WorkspaceSpec == WorkspaceInit /\ [][WorkspaceNext]_workspaceVars

-----------------------------------------------------------------------------
\* What the page lets through is never refused as invalid, and what a save
\* asks to store over the revision it names is what that revision holds but
\* for the cues that were edited, which have lost the times of their words
\* ("Modified cues discard stale word timing while untouched cues preserve any
\* existing word timing", docs/progress/v0.7.md).
SavesAreFaithful ==
  \A n \in DOMAIN posted :
    LET r == posted[n]
    IN /\ r.kind = "export" => Exportable(r.subject)
       /\ r.kind = "save" =>
            /\ ValidCues(r.subject.cues) /\ r.subject.expected <= stored[r.subject.id].revision
            /\ r.status = "sent" /\ r.subject.expected = stored[r.subject.id].revision =>
                 LET cues == stored[r.subject.id].cues
                 IN /\ Len(r.subject.cues) = Len(cues)
                    /\ \A i \in DOMAIN cues :
                         r.subject.cues[i] = cues[i] \/ r.subject.cues[i].words = {}

\* As long as every answer comes to the page that asked for it, edits are known
\* to the page, which warns before it discards them, and a publication is asked
\* for once at a time.
EditsAreGuarded ==
  ~crossed =>
    /\ dirty => guarded
    /\ Cardinality({n \in DOMAIN posted : posted[n].kind = "publish" /\ ~posted[n].gone}) <= 1

\* Unsaved edits do not vanish unasked: they are discarded after a warning or
\* with the page, or a save has stored all that was typed.  (Answers that cross
\* do discard edits.)
Warned == guarded /\ Len(posted') >= Len(posted)
EditsVanishAsked ==
  [][dirty /\ ~dirty' => \/ crossed \/ crossed' \/ Warned \/ LeavePage
                         \/ \E w \in workspace' : \E s \in w.shown : CuesOf(typed) = {s.cues}]_workspaceVars
=============================================================================
