------------------------------ MODULE TagLine ------------------------------
(***************************************************************************)
(* The tagline manager (chosetag.c): the tagline in use, in one of two     *)
(* styles; the persistent and the run-time one; the file taglines.atp; and *)
(* the commands that change them.  A tagline is a sequence of characters:  *)
(* the prefix of its style, its words, and a newline.                      *)
(***************************************************************************)
EXTENDS Integers, Sequences, SequencesExt

CONSTANTS
    TAG_END,     \* position at which a tagline is cut off for a reply
    TLMX,        \* characters read of a line of taglines.atp
    Words,       \* taglines that are typed or found in messages
    MaxTags      \* bound on the lines of taglines.atp, for TLC

ASSUME TagAssumption ==
    /\ TAG_END \in Nat \ {0, 1, 2} /\ TLMX \in Nat \ {0, 1}
    /\ Words \subseteq Seq(STRING) /\ MaxTags \in Nat

LF      == "newline"
FidoTag == <<LF, "*">>
PcbTag  == <<LF, "#">>

VARIABLES
    fido,        \* the style: FIDO or PCBoard
    autotag,     \* a tagline is chosen at random for each reply
    tag_flag,    \* taglines are in use
    dflag,       \* the next swap brings the run-time tagline
    CurTag,      \* the tagline in use
    UserTag,     \* the run-time tagline
    OrigTag,     \* the persistent tagline
    taglines     \* the lines of taglines.atp

tagvars == <<fido, autotag, tag_flag, dflag, CurTag, UserTag, OrigTag, taglines>>

Prefix(style) == IF style THEN FidoTag ELSE PcbTag

\* BuildNewTag(): the end of a line that is too long is cut off.
BuildNewTag(line) ==
    Prefix(fido) \o SubSeq(line, 1, IF Len(line) < TLMX THEN Len(line) ELSE TLMX - 1) \o <<LF>>

\* TagSeek(): lines count from 0; a line that is not there changes nothing.
TagSeek(n) == IF n < Len(taglines) THEN BuildNewTag(taglines[n + 1]) ELSE CurTag

\* ChooseTag(): the taglines a random choice can give.
ChooseTag == IF taglines = <<>> THEN {CurTag} ELSE {TagSeek(n) : n \in 0..(Len(taglines) - 1)}

\* get_CurTag(): what a reply gets; a long tagline is cut for good.
Cut(tag) == IF Len(tag) > TAG_END THEN Append(SubSeq(tag, 1, TAG_END), LF) ELSE tag

\* The start: the persistent tagline of atprc, or one of the file.
TagInit ==
    /\ fido \in BOOLEAN /\ autotag \in BOOLEAN
    /\ tag_flag = TRUE /\ dflag = FALSE
    /\ OrigTag \in {Append(w, LF) : w \in Words}
    /\ UserTag = <<LF>>
    /\ taglines \in {<<>>} \cup {<<w>> : w \in Words}
    /\ CurTag \in IF autotag /\ taglines # <<>> THEN ChooseTag ELSE {Prefix(fido) \o OrigTag}

TagNumb(n) ==
    /\ CurTag' = TagSeek(n)
    /\ UNCHANGED <<fido, autotag, tag_flag, dflag, UserTag, OrigTag, taglines>>

TagRandom ==
    /\ CurTag' \in ChooseTag
    /\ UNCHANGED <<fido, autotag, tag_flag, dflag, UserTag, OrigTag, taglines>>

TagOnOff ==
    /\ tag_flag' = ~tag_flag
    /\ UNCHANGED <<fido, autotag, dflag, CurTag, UserTag, OrigTag, taglines>>

TagAuto ==
    /\ autotag' = ~autotag
    /\ CurTag' \in IF autotag' THEN ChooseTag ELSE {CurTag}
    /\ UNCHANGED <<fido, tag_flag, dflag, UserTag, OrigTag, taglines>>

\* StealTag() and AddTag(): a tagline goes to the end of the file.
TagAdd(words) ==
    /\ Len(taglines) < MaxTags
    /\ taglines' = Append(taglines, words)
    /\ UNCHANGED <<fido, autotag, tag_flag, dflag, CurTag, UserTag, OrigTag>>

\* Mutant of TagFido: the old prefix stays in the tagline.
TagFido2 ==
    /\ fido' = ~fido
    /\ CurTag' = Prefix(fido') \o CurTag
    /\ UNCHANGED <<autotag, tag_flag, dflag, UserTag, OrigTag, taglines>>

\* TagFido(): the prefix of the other style takes the place of the old one.
TagFido ==
    /\ fido' = ~fido
    /\ CurTag' = Prefix(fido') \o SubSeq(CurTag, Len(Prefix(fido)) + 1, Len(CurTag))
    /\ UNCHANGED <<autotag, tag_flag, dflag, UserTag, OrigTag, taglines>>

TagSwap ==
    /\ dflag' = ~dflag
    /\ CurTag' = Prefix(fido) \o (IF dflag' THEN OrigTag ELSE UserTag)
    /\ UNCHANGED <<fido, autotag, tag_flag, UserTag, OrigTag, taglines>>

TagUser(words) ==
    /\ UserTag' = Append(words, LF)
    /\ CurTag' = Prefix(fido) \o UserTag'
    /\ dflag' = FALSE
    /\ UNCHANGED <<fido, autotag, tag_flag, OrigTag, taglines>>

Tag == \/ TagRandom \/ TagOnOff \/ TagAuto \/ TagFido \/ TagSwap
       \/ \E n \in 0..MaxTags : TagNumb(n)
       \/ \E w \in Words : TagUser(w) \/ TagAdd(w)

(* The tagline in use is at every moment in the style that is set, and its *)
(* words are those of the persistent tagline, the run-time one or a line   *)
(* of the file, whole or as they were cut for the file's or the reply's    *)
(* limit: no sequence of changes of style and of source mixes two          *)
(* taglines or leaves the prefix of the other style in one.                *)
TagKeepsStyle ==
    \E w \in Words \cup {<<>>} : \E n \in {Len(w), TLMX - 1, TAG_END - Len(Prefix(fido))} :
        CurTag = Prefix(fido) \o SubSeq(w, 1, IF n < Len(w) THEN n ELSE Len(w)) \o <<LF>>
=============================================================================
