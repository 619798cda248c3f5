---------------------------- MODULE WorkflowForm ----------------------------
(***************************************************************************)
(* From the workflow editor to the workflows table: a form is filled in by *)
(* hand or by a preset the server drafts, validated, turned into steps and *)
(* edges, validated again by WorkflowService, stored, and read back.       *)
(* Other clients put requests of their own to the same service.            *)
(***************************************************************************)
EXTENDS WorkflowInput

CONSTANTS
  Offers,     \* what the installation offers: the destinations a preset may
              \* use, whether there is a clip source, whether there is FFmpeg
  Requests,   \* the requests of other clients
  ActBound    \* bound: edits and requests

VARIABLES
  form,       \* the editor's fields
  touched,    \* (history) the fields edited since the form was loaded
  loaded,     \* (history) the draft the form was loaded from
  applying,   \* the preset that was asked for
  sending,    \* the editor's request on its way, and what the form was then
  workflows,  \* the rows, each with who asked for it and what was answered
  acts

formVars == <<form, touched, loaded, applying, sending, workflows, acts>>

Presets == {"obs-clip-short-form", "stream-clip-short-form"}
Sizes == {"vertical", "square", "landscape", "custom"}

FreshForm ==
  [folder |-> FALSE, kind |-> "standard", remote |-> FALSE, retention |-> "delete_after_success",
   duration |-> "whole", rights |-> FALSE, filtering |-> FALSE, filter |-> FALSE,
   transforming |-> FALSE, size |-> "vertical", even |-> TRUE, fit |-> "crop",
   scheduling |-> FALSE, schedule |-> FALSE, title |-> "file", destinations |-> <<>>]

-----------------------------------------------------------------------------
(* WorkflowPresetService                                                   *)

PresetDestinations(o) ==
  LET In(to) == IF to \in o.destinations
                THEN <<[to |-> to, chosen |-> TRUE,
                        feed |-> IF to = "instagram" THEN "yes" ELSE "absent"]>> ELSE <<>>
  IN In("youtube") \o In("tiktok") \o In("instagram")
Blocked(o, id) ==
  \/ ~o.ffmpeg
  \/ id = "stream-clip-short-form" /\ ~o.clips
  \/ o.destinations = {}
Draft(o, id) ==
  LET remote == id = "stream-clip-short-form"
      ds == PresetDestinations(o)
  IN [folder |-> FALSE, account |-> FALSE, title |-> "source", destinations |-> {ds},
      remote |-> IF remote THEN {[retention |-> "delete_after_success", duration |-> "absent",
                                  filter |-> FALSE, rights |-> "no"]} ELSE {},
      definition |-> {Fan(<<SourceStep(remote, IF remote THEN "standard" ELSE "obs_replay_buffer"),
                            TransformStep("vertical", TRUE, "crop")>>, ds)}]

\* The editor's initial state, from a draft.
FormOf(v) ==
  LET d == CHOOSE d \in v.definition : TRUE
      fits == StepsOf(d, "transform")
  IN [FreshForm EXCEPT
        !.folder = v.folder,
        !.kind = LET kinds == UNION {s.folder : s \in StepsOf(d, "source")}
                 IN IF kinds = {} THEN "standard" ELSE CHOOSE k \in kinds : TRUE,
        !.remote = v.remote # {},
        !.retention = IF v.remote = {} THEN @ ELSE (CHOOSE r \in v.remote : TRUE).retention,
        !.rights = \E r \in v.remote : r.rights = "yes",
        !.filtering = StepsOf(d, "filter") # {}, !.filter = @ \/ StepsOf(d, "filter") # {},
        !.transforming = fits # {},
        !.size = IF fits = {} THEN @ ELSE (CHOOSE s \in fits : TRUE).size,
        !.fit = IF fits = {} THEN @ ELSE (CHOOSE s \in fits : TRUE).fit,
        !.scheduling = StepsOf(d, "schedule") # {}, !.schedule = StepsOf(d, "schedule") # {},
        !.title = v.title,
        !.destinations = CHOOSE ds \in v.destinations : TRUE]

-----------------------------------------------------------------------------
(* The editor                                                              *)

EditorAccepts(f) ==
  /\ f.remote \/ f.folder
  /\ f.remote /\ f.retention = "keep_for_duration" => f.duration # "short"
  /\ f.destinations # <<>> /\ \A i \in DOMAIN f.destinations : f.destinations[i].chosen
  /\ ~Duplicates(f.destinations)
  /\ f.scheduling => f.schedule
  /\ f.title # "blank"
  /\ f.transforming => f.even

\* The value submit() sends: the fields of the source that is not chosen and
\* of the stages that are off are left out.
Submitted(f) ==
  LET filter == f.remote /\ f.filtering /\ f.filter
      chain == <<SourceStep(f.remote, IF f.remote THEN "standard" ELSE f.kind)>>
               \o (IF filter THEN <<FilterStep>> ELSE <<>>)
               \o (IF f.transforming THEN <<TransformStep(f.size, f.even, f.fit)>> ELSE <<>>)
               \o (IF f.scheduling THEN <<ScheduleStep(f.schedule)>> ELSE <<>>)
  IN [folder |-> f.folder /\ ~f.remote, account |-> FALSE, title |-> f.title,
      destinations |-> {f.destinations},
      remote |-> IF ~f.remote THEN {}
                 ELSE {[retention |-> f.retention,
                        duration |-> IF f.retention = "keep_for_duration" THEN f.duration ELSE "absent",
                        filter |-> filter, rights |-> IF f.rights THEN "yes" ELSE "no"]},
      definition |-> {Fan(chain, f.destinations)}]

FormTypeOK ==
  /\ form \in [folder : BOOLEAN, kind : FolderKinds, remote : BOOLEAN, retention : Retentions,
               duration : Durations, rights : BOOLEAN, filtering : BOOLEAN, filter : BOOLEAN,
               transforming : BOOLEAN, size : Sizes, even : BOOLEAN, fit : {"crop", "stretch"},
               scheduling : BOOLEAN, schedule : BOOLEAN, title : Titles,
               destinations : UNION {[1..n -> Destination] : n \in 0..3}]
  /\ touched \subseteq DOMAIN form
  /\ loaded \subseteq {Draft(o, id) : o \in Offers, id \in Presets}
  /\ applying \in Presets \cup {"none"}
  /\ acts \in 0..ActBound

FormInit ==
  /\ form = FreshForm /\ touched = {} /\ loaded = {} /\ applying = "none"
  /\ sending = {} /\ acts = 0
  /\ workflows = <<>>

\* One field is edited; the fields are disabled while a request is out.
Edit(field, f) ==
  /\ sending = {} /\ acts < ActBound
  /\ form' = f
  /\ touched' = touched \cup {field}
  /\ acts' = acts + 1
  /\ UNCHANGED <<loaded, applying, sending, workflows>>

\* The kind of a watched folder brings its title template with it.
TitleFor(kind) ==
  CASE kind = "standard" /\ form.title = "source" -> "file"
    [] kind # "standard" /\ form.title = "file" -> "source"
    [] OTHER -> form.title

EditSource ==
  \/ Edit("remote", [form EXCEPT !.remote = ~@])
  \/ ~form.remote /\ Edit("folder", [form EXCEPT !.folder = ~@])
  \/ \E k \in FolderKinds \ {form.kind} :
       ~form.remote /\ Edit("kind", [form EXCEPT !.kind = k, !.title = TitleFor(k)])
  \/ \E r \in Retentions \ {form.retention} :
       form.remote /\ Edit("retention", [form EXCEPT !.retention = r])
  \/ \E d \in Durations \ {form.duration} :
       /\ form.remote /\ form.retention = "keep_for_duration"
       /\ Edit("duration", [form EXCEPT !.duration = d])
  \/ form.remote /\ Edit("rights", [form EXCEPT !.rights = ~@])
EditFilter ==
  \/ form.remote /\ Edit("filtering", [form EXCEPT !.filtering = ~@])
  \/ form.remote /\ form.filtering /\ Edit("filter", [form EXCEPT !.filter = ~@])
EditTransform ==
  \/ Edit("transforming", [form EXCEPT !.transforming = ~@])
  \/ \E s \in Sizes \ {form.size} :
       form.transforming /\ Edit("size", [form EXCEPT !.size = s, !.even = s # "custom" \/ @])
  \/ form.transforming /\ form.size = "custom" /\ Edit("even", [form EXCEPT !.even = ~@])
  \/ \E fit \in {"crop", "stretch"} \ {form.fit} :
       form.transforming /\ Edit("fit", [form EXCEPT !.fit = fit])
EditSchedule ==
  \/ Edit("scheduling", [form EXCEPT !.scheduling = ~@])
  \/ form.scheduling /\ Edit("schedule", [form EXCEPT !.schedule = ~@])
\* A destination that is chosen again starts from its defaults.
EditDestinations ==
  \/ /\ Len(form.destinations) < 3
     /\ Edit("destinations", [form EXCEPT !.destinations =
          Append(@, [to |-> "youtube", chosen |-> FALSE, feed |-> "absent"])])
  \/ \E i \in DOMAIN form.destinations :
       \/ \E to \in Platforms :
            Edit("destinations", [form EXCEPT !.destinations[i] =
              [to |-> to, chosen |-> TRUE, feed |-> "absent"]])
       \/ Edit("destinations", [form EXCEPT !.destinations =
            SubSeq(@, 1, i - 1) \o SubSeq(@, i + 1, Len(@))])
EditTitle == \E t \in Titles \ {form.title} : Edit("title", [form EXCEPT !.title = t])

\* A preset is asked for, and its draft replaces whatever the form holds by
\* then; a blocked one leaves it.  (Bound: none is asked for after one came.)
UsePreset(id) ==
  /\ applying = "none" /\ loaded = {}
  /\ applying' = id
  /\ UNCHANGED <<form, touched, loaded, sending, workflows, acts>>
PresetAnswered ==
  /\ applying # "none"
  /\ applying' = "none"
  /\ \E o \in Offers :
       IF Blocked(o, applying) THEN UNCHANGED <<form, touched, loaded>>
       ELSE /\ form' = FormOf(Draft(o, applying))
            /\ touched' = {} /\ loaded' = {Draft(o, applying)}
  /\ UNCHANGED <<sending, workflows, acts>>

Submit ==
  /\ sending = {} /\ EditorAccepts(form) /\ ~\E i \in DOMAIN workflows : workflows[i].by = "editor"
  /\ sending' = {[value |-> Submitted(form), loaded |-> loaded, touched |-> touched]}
  /\ UNCHANGED <<form, touched, loaded, applying, workflows, acts>>

-----------------------------------------------------------------------------
(* The server                                                              *)

Accepted(by, v) == [by |-> by, row |-> Row(Built(v)), answered |-> {Built(v)}]

Handled ==
  \E s \in sending :
    /\ sending' = {}
    /\ workflows' = IF Refusals(s.value) = {}
                    THEN Append(workflows, Accepted("editor", s.value)) ELSE workflows
    /\ acts' = ActBound   \* bound: nothing is edited after a request
    /\ UNCHANGED <<form, touched, loaded, applying>>

\* Bound: the others are only looked at while nothing was edited here; they
\* and the editor share nothing but the table.
Others ==
  /\ form = FreshForm /\ touched = {} /\ applying = "none"
  /\ acts < ActBound /\ acts' = acts + 1
Migrate(v) ==
  /\ Others /\ workflows = <<>> /\ acts = 0
  /\ v.definition = {} /\ Refusals(v) = {}
  /\ workflows' = <<[by |-> "migration", row |-> Migrated(Row(Built(v))), answered |-> {}]>>
  /\ UNCHANGED <<form, touched, loaded, applying, sending>>
Client(v, i) ==
  /\ Others
  /\ workflows' =
       IF Refusals(v) # {} THEN workflows
       ELSE IF i \in DOMAIN workflows THEN [workflows EXCEPT ![i] = Accepted("client", v)]
       ELSE Append(workflows, Accepted("client", v))
  /\ UNCHANGED <<form, touched, loaded, applying, sending>>
Delete(i) ==
  /\ Others
  /\ workflows' = SubSeq(workflows, 1, i - 1) \o SubSeq(workflows, i + 1, Len(workflows))
  /\ UNCHANGED <<form, touched, loaded, applying, sending>>

FormNext ==
  \/ EditSource \/ EditFilter \/ EditTransform \/ EditSchedule
  \/ EditDestinations \/ EditTitle
  \/ \E id \in Presets : UsePreset(id)
  \/ PresetAnswered \/ Submit \/ Handled
  \/ \E v \in Requests : Migrate(v) \/ \E i \in 1..(Len(workflows) + 1) : Client(v, i)
  \/ \E i \in DOMAIN workflows : Delete(i)

FormSpec == FormInit /\ [][FormNext]_formVars

-----------------------------------------------------------------------------
\* What the editor lets through is refused by the service only for a variable
\* that its title names and there is not, or for a duration that is not whole
\* seconds: the two validate on their own.
EditorIsAccepted ==
  \A s \in sending :
    Refusals(s.value) = {r \in {"template", "retention"} :
                           IF r = "template" THEN s.value.title = "unknown"
                           ELSE \E x \in s.value.remote : x.duration = "fraction"}

\* What is read back from the rows is what the answer said, but for rights that
\* were not confirmed, and it compiles: list() reads every row, and fails for
\* all of them if one does not.
StoredReadsBack ==
  \A i \in DOMAIN workflows :
    /\ Compiles(Read(workflows[i].row))
    /\ \A w \in workflows[i].answered :
         Read(workflows[i].row) =
           [w EXCEPT !.remote = {[r EXCEPT !.rights = IF @ = "no" THEN "absent" ELSE @] : r \in @}]

\* The filter a workflow of the editor applies (that of its remote source) is
\* the one its route shows (a filter step).
AppliedAsShown ==
  \A i \in DOMAIN workflows : workflows[i].by = "editor" =>
    LET w == Read(workflows[i].row)
    IN (StepsOf(w.definition, "filter") # {}) = (\E r \in w.remote : r.filter)

\* A preset that is sent with nothing changed but its folder and the rights is
\* the route the server drafted.
PresetUnchanged ==
  \A s \in sending : \A d \in s.loaded : s.touched \subseteq {"folder", "rights"} =>
    s.value.definition = d.definition /\ s.value.title = d.title

\* A title template nobody typed renders a title: the source has one, unless it
\* is a folder of plain files.  (The clip preset that is turned into a watched
\* folder keeps the template of its clips.)
DefaultTitleRenders ==
  \A s \in sending :
    /\ "title" \notin s.touched
    /\ s.value.remote = {} /\ s.value.title = "source"
    /\ \A d \in s.loaded : d.remote = {}
    => \A d \in s.value.definition : \A x \in StepsOf(d, "source") : x.folder # {}

FormIsStored ==
  /\ EditorIsAccepted /\ StoredReadsBack /\ AppliedAsShown
  /\ PresetUnchanged /\ DefaultTitleRenders
=============================================================================
