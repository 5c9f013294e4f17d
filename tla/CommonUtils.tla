------------------------------ MODULE CommonUtils ------------------------------
(***************************************************************************)
(* What CommonUtils.c tells the components about languages and about the   *)
(* program they run in.  A process is                                      *)
(*   name    of the program                                                *)
(*   minor   the minor version of the system, 5 for 10.5                   *)
(*   lists   the preferences that are set, by their key: [type, value]     *)
(***************************************************************************)
EXTENDS Integers, Sequences, SequencesExt

\* ISO_QTLanguages, one row or two of every kind: languages without a two-letter code, with a
\* code for bibliographers and one of their own, and several names for what QuickTime takes
\* for one.
Row(two, three, qt) == [twoChar |-> two, threeChar |-> three, qtLang |-> qt]
ISO_QTLanguages ==
  <<Row("", "und", "Unspecified"), Row("sq", "alb", "Albanian"), Row("sq", "sqi", "Albanian"),
    Row("en", "eng", "English"), Row("fr", "fre", "French"), Row("fr", "fra", "French"),
    Row("", "grc", "GreekAncient"), Row("el", "gre", "Greek"), Row("el", "ell", "Greek"),
    Row("nb", "nob", "Norwegian"), Row("no", "nor", "Norwegian"), Row("se", "sme", "Sami"),
    Row("", "smi", "Sami")>>
langUnspecified == "Unspecified"

\* The first row with a code, if any.
LanguageAt(i) == IF i = 0 THEN langUnspecified ELSE ISO_QTLanguages[i].qtLang
ISO639_1ToQTLangCode(lang) ==
  IF Len(lang) # 2 THEN langUnspecified
  ELSE LanguageAt(SelectInSeq(ISO_QTLanguages, LAMBDA row : row.twoChar = lang))
ISO639_2ToQTLangCode(lang) ==
  IF Len(lang) # 3 THEN langUnspecified
  ELSE LanguageAt(SelectInSeq(ISO_QTLanguages, LAMBDA row : row.threeChar = lang))

-----------------------------------------------------------------------------
(* Lists of programs. *)

defaultFrameDroppingList ==
  <<"Finder", "Front Row", "Movie Time", "Movist", "NicePlayer", "QTKitServer",
    "QuickTime Player", "Spiral">>
defaultTransparentSubtitleList_10_6 ==
  <<"CoreMediaAuthoringSessionHelper", "CoreMediaAuthoringSourcePropertyHelper", "Front Row",
    "QTPlayerHelper">>
defaultTransparentSubtitleList_10_5 == <<"Front Row">>
defaultForcedAppList == <<"iChat">>

\* A preference of another type than the one asked for is as good as unset.
NoPreference == [type |-> "null"]
CopyPreferencesValueTyped(process, key, type) ==
  IF key \in DOMAIN process.lists /\ process.lists[key].type = type
  THEN process.lists[key] ELSE NoPreference

\* The user's list replaces the default one.
findNameInList(name, names) == IF name \in ToSet(names) THEN 1 ELSE 0
isApplicationNameInList(process, prefOverride, defaultList) ==
  LET list == CopyPreferencesValueTyped(process, prefOverride, "array")
  IN findNameInList(process.name, IF list = NoPreference THEN defaultList ELSE list.value)

\* What a static variable knows before it was asked.  The answers to the questions below are
\* found once in the life of a process, and kept.
Unasked == -1

IsFrameDroppingEnabled(enabled, process) ==
  IF enabled # Unasked THEN enabled
  ELSE isApplicationNameInList(process, "FrameDroppingWhiteList", defaultFrameDroppingList)
IsForcedDecodeEnabled(forced, process) ==
  IF forced # Unasked THEN forced
  ELSE isApplicationNameInList(process, "ForcePerianAppList", defaultForcedAppList)

\* Transparency is for two systems.
InTransparentList(process, defaultList) ==
  isApplicationNameInList(process, "TransparentModeSubtitleAppList", defaultList)

\* Faulty: the answer is looked up each time.
TransparentAskedAnew(forced, process) ==
  CASE process.minor = 5 -> InTransparentList(process, defaultTransparentSubtitleList_10_5)
    [] process.minor = 6 -> InTransparentList(process, defaultTransparentSubtitleList_10_6)
    [] OTHER -> 0

IsTransparentSubtitleHackEnabled(forced, process) ==
  CASE forced # Unasked -> forced
    [] forced = Unasked /\ process.minor = 5 ->
         InTransparentList(process, defaultTransparentSubtitleList_10_5)
    [] forced = Unasked /\ process.minor = 6 ->
         InTransparentList(process, defaultTransparentSubtitleList_10_6)
    [] OTHER -> 0

\* Opaque black, which the transparent mode does not draw, becomes almost black.  A pixel is
\* its colour, with anything that tells where it is.
Black == 0
AlmostBlack == 1
ConvertImageToQDTransparent(pixels) ==
  {IF p.c = Black THEN [p EXCEPT !.c = AlmostBlack] ELSE p : p \in pixels}
=============================================================================
