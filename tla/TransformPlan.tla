---------------------------- MODULE TransformPlan ----------------------------
(***************************************************************************)
(* A transform recipe, the FFmpeg command it is compiled to, what FFmpeg   *)
(* makes of that command, and what TransformJobHandler accepts of the      *)
(* result.  A recipe is written step by step; it is the user's, and may be *)
(* followed by that of a destination.  Lengths are counts of milliseconds, *)
(* sizes counts of pixels, small ones.  Codecs, positions, styles and      *)
(* paths are left out.                                                     *)
(***************************************************************************)
EXTENDS Integers, Sequences, FiniteSets

CONSTANTS
  StepTypes,    \* the steps a recipe may hold
  OutputTypes,  \* the output settings it may ask for
  SourceTypes,  \* the media it is applied to
  Images,       \* the watermark assets that are there
  StepBound     \* bound: steps of a plan

VARIABLES plan, media

planVars == <<plan, media>>

Least(m, n) == IF m <= n THEN m ELSE n
Greatest(m, n) == IF m >= n THEN m ELSE n

\* The steps; until is an end, a duration or neither.
Trim(start, until, ms) == [type |-> "trim", start |-> start, until |-> until, ms |-> ms]
Fit(mode, width, height) == [type |-> "fit", mode |-> mode, width |-> width, height |-> height]
Audio(mode) == [type |-> "audio", mode |-> mode]
Watermark(asset) == [type |-> "watermark", asset |-> asset]
Caption(transcript, mode) == [type |-> "captions", transcript |-> transcript, mode |-> mode]
\* A limit is a set of at most one value.
Output(aac, width, height, rate) == [aac |-> aac, width |-> width, height |-> height, rate |-> rate]

\* transformStepSchema, of the steps above.
ValidStep(s) ==
  CASE s.type = "trim" -> s.until = "end" => s.ms > s.start
    [] s.type = "fit" -> \A n \in {s.width, s.height} : n >= 2 /\ n % 2 = 0
    [] OTHER -> TRUE

StepsOf(p) == IF p.destination = {} THEN p.steps ELSE p.steps \o (CHOOSE r \in p.destination : TRUE).steps
\* The output of a destination's recipe replaces the user's.
OutputOf(p) == IF p.destination = {} THEN p.output ELSE (CHOOSE r \in p.destination : TRUE).output
OfType(p, type) == {i \in DOMAIN StepsOf(p) : StepsOf(p)[i].type = type}
Limited(output) == output.width \cup output.height # {}

-----------------------------------------------------------------------------
(* compileTransformCommand                                                 *)

\* The labels of the filter graph: a stream of input i, and what a chain makes.
Stream(i, kind) == <<kind, i>>
IsStream(label) == label[1] \in {"video", "audio"}
Chain(ins, filters, out) == [ins |-> ins, filters |-> filters, out |-> out]

Start(source) ==
  [inputs |-> 1, graph |-> <<>>, video |-> Stream(0, "video"), pending |-> <<>>, sound |-> <<>>,
   audio |-> source.audio]

Extended(c, filters, label) ==
  IF filters = <<>> THEN c
  ELSE [c EXCEPT !.graph = Append(@, Chain(<<c.video>>, filters, label)), !.video = label]

\* A watermark is an input of its own, laid over the filters so far.
Overlaid(c, main, s) ==
  LET mark == Chain(<<Stream(c.inputs, "video")>>, <<>>, <<"wm", c.inputs>>)
      over == Chain(<<main.video, <<"wm", c.inputs>> >>, <<s>>, <<"vwm", c.inputs>>)
  IN [main EXCEPT !.inputs = @ + 1, !.video = over.out, !.graph = Append(Append(@, mark), over)]

\* Seeded fault: the filters before a watermark stay pending after it.
AddWatermarkUnflushed(c, s) == Overlaid(c, Extended(c, c.pending, <<"v", c.inputs>>), s)

AddWatermark(c, s) ==
  [Overlaid(c, Extended(c, c.pending, <<"v", c.inputs>>), s) EXCEPT !.pending = <<>>]

AddStep(c, s) ==
  CASE s.type = "trim" ->
         [c EXCEPT !.pending = Append(@, s), !.sound = IF c.audio THEN Append(@, s) ELSE @]
    [] s.type = "fit" -> [c EXCEPT !.pending = Append(@, s)]
    [] s.type = "audio" ->
         IF s.mode = "remove" THEN [c EXCEPT !.audio = FALSE]
         ELSE IF c.audio /\ s.mode # "preserve" THEN [c EXCEPT !.sound = Append(@, s)] ELSE c
    [] s.type = "captions" ->
         IF s.mode = "burn-in" THEN [c EXCEPT !.pending = Append(@, s)] ELSE c
    [] OTHER -> AddWatermark(c, s)

\* The compilation of all steps.  A recursive function, as are the other loops
\* over steps and filters.
AddSteps(c, steps) ==
  LET Added[n \in 0..Len(steps)] ==
        IF n = 0 THEN c ELSE AddStep(Added[n - 1], steps[n])
  IN  Added[Len(steps)]

\* The scaling to the limits comes last.
Limits(output) ==
  IF Limited(output) THEN <<[type |-> "limit", width |-> output.width, height |-> output.height]>>
  ELSE <<>>

\* The graph, the labels that are mapped to the output, and its frame rate.
Compiled(p, source) ==
  LET output == OutputOf(p)
      steps == AddSteps(Start(source), StepsOf(p))
      whole == Extended(steps, steps.pending, <<"vout", 0>>)
      limited == Extended(whole, Limits(output), <<"vlimited", 0>>)
      sounds == limited.audio /\ limited.sound # <<>>
      aout == Chain(<<Stream(0, "audio")>>, limited.sound, <<"aout", 0>>)
  IN [graph |-> IF sounds THEN Append(limited.graph, aout) ELSE limited.graph,
      video |-> limited.video, rate |-> output.rate,
      audio |-> IF ~(limited.audio /\ output.aac) THEN {}
                ELSE {IF sounds THEN aout.out ELSE Stream(0, "audio")}]

-----------------------------------------------------------------------------
(* FFmpeg                                                                  *)

\* Every label is made once, before it is used, and used once: by one input of
\* one chain, or (the place <<0, 0>>) by the output.
Produced(graph) == {graph[i].out : i \in DOMAIN graph}
Inputs(graph) == {at \in (DOMAIN graph) \X (1..2) : at[2] \in DOMAIN graph[at[1]].ins}
Places(graph, label) == {at \in Inputs(graph) : graph[at[1]].ins[at[2]] = label}
Mapped(command) == {command.video} \cup command.audio
Uses(command, label) ==
  Places(command.graph, label) \cup (IF label \in Mapped(command) THEN {<<0, 0>>} ELSE {})
Unconnected(command) == {l \in Produced(command.graph) : Uses(command, l) = {}}
Ordered(graph) ==
  /\ \A i, j \in DOMAIN graph : graph[i].out = graph[j].out => i = j
  /\ \A at \in Inputs(graph) :
       LET l == graph[at[1]].ins[at[2]]
       IN IsStream(l) \/ \E n \in 1..(at[1] - 1) : graph[n].out = l
WellFormed(command) ==
  /\ Ordered(command.graph)
  /\ \A l \in Produced(command.graph) : \A at, bt \in Uses(command, l) : at = bt
  /\ \A l \in Mapped(command) : IsStream(l) \/ l \in Produced(command.graph)

\* Back from a label and the filters after it: a chain that made it, and all.
Back(chain, at) == IF chain.out = at[1] THEN <<chain.ins[1], chain.filters \o at[2]>> ELSE at
Traced(graph, at) ==
  LET Through[n \in 0..Len(graph)] ==
        IF n = 0 THEN at ELSE Back(graph[Len(graph) + 1 - n], Through[n - 1])
  IN  Through[Len(graph)]
\* The filters a label went through, in order.
Passed(graph, label) == Traced(graph, <<label, <<>> >>)[2]

\* scale with force_original_aspect_ratio rounds to the nearest pixel.
Nearest(m, n) == (2 * m + n) \div (2 * n)
Bounded(limit, n) == IF limit = {} THEN n ELSE Least(CHOOSE m \in limit : TRUE, n)
\* A trim that begins at the end or later leaves nothing.
Kept(length, f) ==
  LET left == Greatest(0, length - f.start)
  IN CASE f.until = "none" -> left
       [] f.until = "end" -> Least(left, f.ms - f.start)
       [] OTHER -> Least(left, f.ms)
Filtered(frame, f) ==
  CASE f.type = "fit" -> [frame EXCEPT !.width = f.width, !.height = f.height]
    [] f.type = "limit" ->
         LET w == Bounded(f.width, frame.width)
             h == Bounded(f.height, frame.height)
         IN [frame EXCEPT !.width = Least(w, Nearest(h * frame.width, frame.height)),
                          !.height = Least(h, Nearest(w * frame.height, frame.width))]
    [] f.type = "trim" -> [frame EXCEPT !.length = Kept(@, f)]
    [] OTHER -> frame
FilteredBy(frame, filters) ==
  LET Frame[n \in 0..Len(filters)] ==
        IF n = 0 THEN frame ELSE Filtered(Frame[n - 1], filters[n])
  IN  Frame[Len(filters)]
Rendered(command, source) ==
  LET frame == FilteredBy(source, Passed(command.graph, command.video))
  IN [frame EXCEPT !.audio = command.audio # {},
                   !.rate = IF command.rate = {} THEN @ ELSE CHOOSE r \in command.rate : TRUE]
\* libx264 takes no odd size with yuv420p.
Encodes(frame) == frame.width % 2 = 0 /\ frame.height % 2 = 0

-----------------------------------------------------------------------------
(* TransformJobHandler                                                     *)

\* resolveWatermarkPaths, and one transcript for all the captions.
Refused(p) ==
  \/ \E i \in OfType(p, "watermark") : StepsOf(p)[i].asset \notin Images
  \/ Cardinality({StepsOf(p)[i].transcript : i \in OfType(p, "captions")}) > 1

\* ffprobe finds a picture in the output, which has none when nothing was left
\* to render; and assertCoreTransformOutput.
Accepted(p, source, frame) ==
  LET output == OutputOf(p)
      lastFit == {i \in OfType(p, "fit") : \A j \in OfType(p, "fit") : j <= i}
      removed == \E i \in OfType(p, "audio") : StepsOf(p)[i].mode = "remove"
  IN /\ frame.length > 0
     /\ \A i \in lastFit : ~Limited(output) =>
          frame.width = StepsOf(p)[i].width /\ frame.height = StepsOf(p)[i].height
     /\ \A n \in output.width : frame.width <= n
     /\ \A n \in output.height : frame.height <= n
     /\ \A n \in output.rate : frame.rate <= n
     /\ frame.audio = (source.audio /\ ~removed /\ output.aac)

\* expectedDurationMillis
Shortened(length, s) ==
  IF s.type # "trim" THEN length
  ELSE CASE s.until = "duration" -> s.ms
         [] s.until = "end" -> Greatest(0, s.ms - s.start)
         [] OTHER -> Greatest(0, length - s.start)
Expected(p, source) ==
  LET steps == StepsOf(p)
      Length[n \in 0..Len(steps)] ==
        IF n = 0 THEN source.length ELSE Shortened(Length[n - 1], steps[n])
  IN  Length[Len(steps)]

-----------------------------------------------------------------------------
PlanTypeOK ==
  /\ media \in SourceTypes
  /\ plan.output \in OutputTypes /\ plan.steps \in Seq(StepTypes)
  /\ \A r \in plan.destination : r.output \in OutputTypes /\ r.steps \in Seq(StepTypes)
  /\ Cardinality(plan.destination) <= 1 /\ Len(StepsOf(plan)) <= StepBound

PlanInit ==
  /\ media \in SourceTypes
  /\ \E o \in OutputTypes : plan = [steps |-> <<>>, output |-> o, destination |-> {}]

\* The user adds a step, a destination's profile is attached, and has steps.
AddUserStep(s) ==
  /\ plan.destination = {} /\ Len(plan.steps) < StepBound /\ ValidStep(s)
  /\ plan' = [plan EXCEPT !.steps = Append(@, s)]
  /\ UNCHANGED media
AttachDestination(o) ==
  /\ plan.destination = {}
  /\ plan' = [plan EXCEPT !.destination = {[steps |-> <<>>, output |-> o]}]
  /\ UNCHANGED media
AddDestinationStep(s) ==
  /\ plan.destination # {} /\ Len(StepsOf(plan)) < StepBound /\ ValidStep(s)
  /\ plan' = [plan EXCEPT !.destination = {[r EXCEPT !.steps = Append(@, s)] : r \in @}]
  /\ UNCHANGED media
PlanNext ==
  \/ \E s \in StepTypes : AddUserStep(s) \/ AddDestinationStep(s)
  \/ \E o \in OutputTypes : AttachDestination(o)

PlanSpec == PlanInit /\ [][PlanNext]_planVars

-----------------------------------------------------------------------------
\* A plan compiles to a graph FFmpeg takes, whatever is in it and in what
\* order; but that of a plan that changes the sound and asks for none leaves
\* the sound unconnected, and FFmpeg refuses it.
Removes(s) == s.type = "audio" /\ s.mode = "remove"
Heard(s) == s.type = "trim" \/ (s.type = "audio" /\ s.mode \notin {"preserve", "remove"})
GraphIsWellFormed ==
  LET command == Compiled(plan, media)
      steps == StepsOf(plan)
      sound == /\ \E i \in DOMAIN steps : Heard(steps[i])
               /\ \A i \in DOMAIN steps : ~Removes(steps[i])
  IN /\ WellFormed(command)
     /\ Unconnected(command) =
          IF media.audio /\ sound /\ ~OutputOf(plan).aac THEN {<<"aout", 0>>} ELSE {}

\* Those of the steps that are in S, in their order.
Among(steps, S) ==
  LET Found[n \in 0..Len(steps)] ==
        IF n = 0 THEN <<>>
        ELSE IF steps[n] \in S THEN Append(Found[n - 1], steps[n])
        ELSE Found[n - 1]
  IN  Found[Len(steps)]

\* The picture goes through the steps in the order they were written in, those
\* of the destination after the user's ("Step order is preserved",
\* core/transform.ts), and the sound through those of its steps.
Seen(s) == s.type # "audio" /\ (s.type = "captions" => s.mode = "burn-in")
StepsKeepOrder ==
  LET command == Compiled(plan, media)
      steps == StepsOf(plan)
      All == {steps[i] : i \in DOMAIN steps}
  IN /\ Passed(command.graph, command.video) =
          Among(steps, {s \in All : Seen(s)}) \o Limits(OutputOf(plan))
     /\ \A l \in command.audio :
          Passed(command.graph, l) = Among(steps, {s \in All : Heard(s)})

\* What the trims leave of the media, one after the other.
Trimmed(length, s) == IF s.type = "trim" THEN Kept(length, s) ELSE length
Remaining(p, source) ==
  LET steps == StepsOf(p)
      Length[n \in 0..Len(steps)] ==
        IF n = 0 THEN source.length ELSE Trimmed(Length[n - 1], steps[n])
  IN  Length[Len(steps)]

\* What FFmpeg makes of an accepted plan passes the handler's own examination,
\* so that no transform fails after it was rendered, but one whose trims leave
\* nothing of the media; and it can be encoded, unless its size comes from the
\* source or from a limit.
OutputPasses ==
  LET command == Compiled(plan, media)
      frame == Rendered(command, media)
  IN ~Refused(plan) /\ Unconnected(command) = {} =>
       /\ Encodes(frame) => (Accepted(plan, media, frame) <=> Remaining(plan, media) > 0)
       /\ OfType(plan, "fit") # {} /\ ~Limited(OutputOf(plan)) => Encodes(frame)

\* The progress a job shows does not run ahead of the rendering: the output is
\* not longer than expected (it is shorter when a trim reaches beyond the end).
ProgressNotAhead ==
  Expected(plan, media) >= Rendered(Compiled(plan, media), media).length

PlanRenders == GraphIsWellFormed /\ StepsKeepOrder /\ OutputPasses /\ ProgressNotAhead
=============================================================================
