---------------------------- MODULE AprilTagField ----------------------------
(***************************************************************************)
(* typedef/apriltag.py: the field of tags that a stage is configured with, *)
(* inline, in a file or by name, in the format of WPILib or SpectacularAI, *)
(* and its conversion to what the stage needs, by the resolver of the      *)
(* worker configurations.                                                  *)
(*                                                                         *)
(* A WPI tag is [id, pose], with one family and size for the field; a SAI  *)
(* tag has its own. A pose is [of, inverse]: which, and in which direction *)
(* it leads.                                                               *)
(***************************************************************************)
EXTENDS Naturals, Sequences, SequencesExt, FiniteSets

CONSTANTS
  FieldChoices,  \* possible fields of a stage: [kind, format, tags, path]
  FileChoices,   \* possible contents of the files: functions from paths
  Invalid,       \* an exception
  Nothing        \* None

\* AprilTagWpi and AprilTagSai, and the kinds of AprilTagField; a file holds a list of
\* tags in one of the formats.
Formats == {"wpi", "sai"}
AprilTagDefinition ==
  [id : Nat, pose : [of : Nat, inverse : BOOLEAN], family : STRING]
FieldNamed == [kind : {"named"}, format : {"wpi"}, tags : {<<>>}, path : {""}]
FieldInline == [kind : {"inline"}, format : Formats, tags : Seq(AprilTagDefinition), path : {""}]
FieldRef == [kind : {"ref"}, format : Formats, tags : {<<>>}, path : STRING]
FieldFile == [format : Formats, tags : Seq(AprilTagDefinition)]

\* A file that is missing or cannot be parsed is Invalid.
ASSUME FieldAssumption ==
  /\ \A f \in FieldChoices : f \in FieldNamed \/ f \in FieldInline \/ f \in FieldRef
  /\ \A contents \in FileChoices :
       /\ \A path \in DOMAIN contents : contents[path] \in FieldFile \/ contents[path] = Invalid
       /\ \A f \in FieldChoices : f.kind = "ref" => f.path \in DOMAIN contents
  /\ \A none \in {Invalid, Nothing} : none \notin FieldInline \cup FieldRef
  /\ Invalid # Nothing

VARIABLES
  field, target, files,  \* what is to be resolved, to which form, and the files there are
  resolved, converted    \* whether it is, and the result

fieldVars == <<field, target, files, resolved, converted>>

\* The forms that stages are resolved to: AprilTagFieldInlineWpi for apriltag,
\* AprilTagFieldRefSai for slam. A slam stage takes no named field.
StageForms == {[kind |-> "inline", format |-> "wpi"], [kind |-> "ref", format |-> "sai"]}

FormOf(f) == [kind |-> f.kind, format |-> f.format]

Inline(format, tags) == [kind |-> "inline", format |-> format, tags |-> tags, path |-> ""]

\* Transform3d.inverse
Inverted(pose) == [pose EXCEPT !.inverse = ~@]

\* AprilTagWpi.to_sai
ToSai(tag) == [tag EXCEPT !.pose = Inverted(@)]

\* AprilTagFieldInlineWpi.as_inline_sai
AsInlineSai(f) ==
  IF f.format = "sai" THEN f
  ELSE Inline("sai", [i \in DOMAIN f.tags |-> ToSai(f.tags[i])])

\* AprilTagFieldInlineSai.as_inline_wpi: tags of one family and size only; and to_wpi of
\* any tag raises, as numpy cannot read its matrix out of the model.
AsInlineWpi(f) ==
  IF f.format = "wpi" THEN f ELSE IF f.tags # <<>> THEN Invalid ELSE Inline("wpi", <<>>)

\* A mutated form of ReadFile: a file of the other format is taken as it is.
ReadFileAny(f) == files[f.path]

\* _load_data: the file is there and of the format.
ReadFile(f) ==
  IF files[f.path] # Invalid /\ files[f.path].format = f.format THEN files[f.path] ELSE Invalid

\* load(); AprilTagFieldRefSai's hands its list of tags over as a model, which is none.
Load(f) ==
  IF f.kind = "inline" THEN f
  ELSE IF ReadFile(f) = Invalid \/ f.format = "sai" THEN Invalid
  ELSE Inline(f.format, ReadFile(f).tags)

\* store(): a reference stays; AprilTagFieldInlineSai's stores and returns nothing.
Store(f) == IF f.kind = "ref" THEN f ELSE Nothing

NeedLoad(f, form) == form.kind = "inline" \/ f.format # form.format

\* _AprilTagField.convert, which a named field does not have.
Convert(f, form) ==
  IF f.kind = "named" THEN Invalid
  ELSE IF FormOf(f) = form THEN f
  ELSE LET loaded == IF NeedLoad(f, form) THEN Load(f) ELSE f
           current == IF loaded = Invalid THEN Invalid
                      ELSE IF loaded.format = form.format THEN loaded
                      ELSE IF form.format = "sai" THEN AsInlineSai(loaded)
                      ELSE AsInlineWpi(loaded) IN
         IF current = Invalid THEN Invalid
         ELSE IF form.kind = "ref" THEN Store(current) ELSE current

FieldInit ==
  /\ field \in FieldChoices
  /\ target \in {form \in StageForms : field.kind = "named" => form.kind = "inline"}
  /\ files \in FileChoices
  /\ resolved = FALSE /\ converted = Nothing

\* _resolve_stage_apriltag, _resolve_stage_slam.
ResolveField ==
  /\ ~resolved /\ resolved' = TRUE
  /\ converted' = Convert(field, target)
  /\ UNCHANGED <<field, target, files>>

FieldSpec == FieldInit /\ [][ResolveField]_fieldVars
-----------------------------------------------------------------------------
Readable(f) == f.kind = "ref" => files[f.path] # Invalid /\ files[f.path].format = f.format

\* The tags that a field stands for: where each is on the field, and its family.
TagsWith(f) ==
  LET tags == IF f.kind # "ref" THEN f.tags
              ELSE IF Readable(f) THEN files[f.path].tags ELSE <<>> IN
    {[tags[i] EXCEPT !.pose = IF f.format = "sai" THEN Inverted(@) ELSE @] :
       i \in DOMAIN tags}

\* What a stage gets is the field that the user described, in the form it needs: the same
\* tags in the same places, from wherever they come. A field that is refused cannot be
\* read, or is one in the SAI format for a stage that needs the other; a WPI field that can be
\* read is good for every apriltag stage. Only a field that has to be written to a file
\* for slam is lost without a word.
FieldIntact ==
  resolved =>
    CASE converted = Invalid -> field.kind = "named" \/ field.format = "sai" \/ ~Readable(field)
      [] converted = Nothing -> target.kind = "ref"
      [] OTHER -> FormOf(converted) = target /\ TagsWith(converted) = TagsWith(field)
=============================================================================
