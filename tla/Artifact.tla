------------------------------- MODULE Artifact -------------------------------
(***************************************************************************)
(* The backup artifact (internal/backup): what Assemble writes, what Open  *)
(* accepts and reads back, and the preview Diff makes of it.               *)
(*                                                                         *)
(* Sources is a function from a part's path to its text.  A text of        *)
(* roles.conf is that of RolesConf; any other is a sequence of lines, each *)
(* a word ("" for none) and what follows it: nothing, white space, a       *)
(* carriage return or a control character.  A hash is the text it is of.   *)
(***************************************************************************)
EXTENDS RolesConf, FiniteSets

CONSTANTS
    KeyLines, \* the words whose token before "=" names a key
    Removed,  \* the line StripWireguard writes in their place
    Noise,    \* a line that damage leaves in a text
    Garbage,  \* bytes that are not what they were
    Keys      \* the keys a signature can be made with

ASSUME ArtifactAssumption ==
    /\ Removed \in STRING \ (KeyLines \cup {""})
    /\ "" \notin KeyLines
    /\ Garbage # << >>

NoKey == "none"
SchemaVersion == 1

Path(subsystem, name) == [subsystem |-> subsystem, name |-> name]

ManifestPath == Path("manifest", "")
ChecksumPath == Path("checksum", "")
SignaturePath == Path("signature", "")
RolesPath == Path("roles", "")

Subsystems == {"roles", "sysctl", "resolved", "firewall", "networkd",
               "dhcpdns", "wireguard", "nftables"}

(* The subsystems that are a directory of files.                           *)
Keyed(path) == path.subsystem \in {"networkd", "wireguard"}

Word(word, tail) == [word |-> word, tail |-> tail]
Blank == Word("", "none")

Tails == {"none", "space", "cr", "control"}
Words == [word : STRING, tail : Tails]

-----------------------------------------------------------------------------
(* Texts.  A control character alone is neither a blank line nor no line.  *)
IsEmptyLine(line) == line.word = "" /\ line.tail # "control"

IsBlank(path, text) ==
    IF path = RolesPath THEN text = << >>
    ELSE \A i \in DOMAIN text : IsEmptyLine(text[i])

(* ensureTrailingNewline: no empty lines at the end.                       *)
Trimmed(text) ==
    SubSeq(text, 1, Max({0} \cup {i \in DOMAIN text : text[i] # Blank}))

(* sanitizeText: a carriage return is a line end of its own, a control     *)
(* character is dropped.                                                   *)
SanitizedLine(line) ==
    CASE line.tail = "cr" -> <<Word(line.word, "none"), Blank>>
      [] line.tail = "control" -> <<Word(line.word, "none")>>
      [] OTHER -> <<line>>

Sanitized(path, text) ==
    IF path = RolesPath THEN text
    ELSE FlattenSeq([i \in DOMAIN text |-> SanitizedLine(text[i])])

(* Mutation: white space at the end of a line counts.                      *)
NormalizeNothing(path, text) == text

(* normalize: without empty lines, and without white space and carriage    *)
(* returns at the end of a line.                                           *)
NormalizedLine(line) ==
    CASE IsEmptyLine(line) -> << >>
      [] line.tail = "control" -> <<line>>
      [] OTHER -> <<Word(line.word, "none")>>

Normalized(path, text) ==
    IF path = RolesPath THEN text
    ELSE FlattenSeq([i \in DOMAIN text |-> NormalizedLine(text[i])])

(* StripWireguard: a line whose token before "=" is that of a key.  A key  *)
(* that is commented out is a line like any other, and stays.              *)
StripWireguard(text) ==
    Trimmed([i \in DOMAIN text |->
               IF text[i].word \in KeyLines THEN Word(Removed, "none")
               ELSE text[i]])

-----------------------------------------------------------------------------
(* Mutation: roles.conf is captured as it stands.                          *)
CollectAsIs(disk) ==
    [path \in DOMAIN disk |->
       IF path.subsystem = "wireguard" THEN StripWireguard(disk[path])
       ELSE disk[path]]

(* CollectSources of the real backend: roles.conf in its canonical form     *)
(* when a restore would write it, tunnels without their keys.              *)
CollectSources(disk) ==
    [path \in DOMAIN disk |->
       CASE path = RolesPath /\ IsSafe(disk[path]) -> SafeRolesConf(disk[path])
         [] path.subsystem = "wireguard" -> StripWireguard(disk[path])
         [] OTHER -> disk[path]]

(* A subsystem of one file is there when its text is not blank.            *)
Has(sources, path) ==
    path \in DOMAIN sources /\ (Keyed(path) \/ ~IsBlank(path, sources[path]))

Items(sources) == {path \in DOMAIN sources : Has(sources, path)}

(* partFiles.                                                              *)
PartFiles(sources) ==
    [path \in Items(sources) |->
       IF path.subsystem = "networkd" THEN sources[path]
       ELSE Trimmed(sources[path])]

With(function, x, y) ==
    [z \in DOMAIN function \cup {x} |-> IF z = x THEN y ELSE function[z]]

(* Assemble.  The checksum file covers the manifest and the parts, the     *)
(* signature the checksum file.                                            *)
Assemble(sources, signer) ==
    LET parts == PartFiles(sources)
        manifest == [schema |-> SchemaVersion,
                     parts |-> [path \in DOMAIN parts |->
                                  [subsystem |-> path.subsystem,
                                   sum |-> parts[path]]]]
        checksums == With(parts, ManifestPath, manifest)
        files == With(checksums, ChecksumPath, checksums)
    IN  IF signer = NoKey THEN files
        ELSE With(files, SignaturePath, [key |-> signer, over |-> checksums])

-----------------------------------------------------------------------------
(* Mutation: the hash of the manifest is not compared.                     *)
VerifyPartsOnly(files) ==
    \A path \in DOMAIN files[ChecksumPath] \ {ManifestPath} :
        path \in DOMAIN files /\ files[path] = files[ChecksumPath][path]

VerifyChecksums(files) ==
    LET checksums == files[ChecksumPath] IN
    /\ ManifestPath \in DOMAIN checksums
    /\ \A path \in DOMAIN checksums :
         path \in DOMAIN files /\ files[path] = checksums[path]

VerifyManifestParts(files) ==
    LET parts == files[ManifestPath].parts IN
    \A path \in DOMAIN parts :
        path \in DOMAIN files /\ files[path] = parts[path].sum

(* verifier is the key a signature has to be by, or NoKey.                 *)
VerifySignature(files, verifier) ==
    verifier # NoKey =>
        /\ SignaturePath \in DOMAIN files
        /\ files[SignaturePath] = [key |-> verifier, over |-> files[ChecksumPath]]

KnowsSubsystems(files) ==
    LET parts == files[ManifestPath].parts IN
    \A path \in DOMAIN parts : parts[path].subsystem \in Subsystems

(* readTarGz: a damaged stream, an unsafe or repeated name, or more bytes  *)
(* or entries than the bounds allow, and the whole is refused.             *)
Unpacks(files) == files # Garbage

(* Open accepts the files.                                                 *)
Opens(files, verifier) ==
    /\ Unpacks(files)
    /\ {ManifestPath, ChecksumPath} \subseteq DOMAIN files
    /\ VerifyChecksums(files)
    /\ files[ManifestPath].schema = SchemaVersion
    /\ VerifyManifestParts(files)
    /\ VerifySignature(files, verifier)
    /\ KnowsSubsystems(files)

SourcesFromParts(files) ==
    [path \in DOMAIN files[ManifestPath].parts |-> Sanitized(path, files[path])]

-----------------------------------------------------------------------------
(* Mutation: two texts are compared by their lengths.                      *)
ChangeKindByLength(current, target, path) ==
    CASE ~Has(target, path) -> "remove"
      [] Has(target, path) /\ ~Has(current, path) -> "add"
      [] OTHER -> IF Len(Normalized(path, current[path]))
                       = Len(Normalized(path, target[path]))
                  THEN "unchanged" ELSE "replace"

(* The kind of change a restore is previewed to make to one item.          *)
ChangeKind(current, target, path) ==
    CASE ~Has(target, path) -> "remove"
      [] Has(target, path) /\ ~Has(current, path) -> "add"
      [] OTHER -> IF Normalized(path, current[path]) = Normalized(path, target[path])
                  THEN "unchanged" ELSE "replace"

(* Diff: a file only the machine has is listed when its subsystem is a     *)
(* directory, and left alone.                                              *)
Diff(current, target) ==
    [path \in Items(target) \cup {path \in Items(current) : Keyed(path)} |->
       ChangeKind(current, target, path)]

HasChanges(diff) == \E path \in DOMAIN diff : diff[path] # "unchanged"
=============================================================================
