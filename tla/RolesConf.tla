------------------------------ MODULE RolesConf ------------------------------
(***************************************************************************)
(* roles.conf as a text: ParseRolesConf, Validate, RenderRolesConf         *)
(* (internal/router/roles.go) and what a restore makes of it,              *)
(* SafeRolesConf and MissingRoleDevices (internal/router/backup.go).       *)
(*                                                                         *)
(* A text is a sequence of lines.  A line is a key with the fields of its  *)
(* value; a comment has the key "#", an assignment of another variable     *)
(* with a plain value the key "knob", and a line a restore must not write  *)
(* back (a substitution, a second statement) the key "odd".                *)
(***************************************************************************)
EXTENDS Naturals, Sequences, SequencesExt

CONSTANTS
    Names,     \* the fields that are interface names (ifaceName)
    Macs,      \* the fields that are lower-case MACs (macAddr)
    LowerCase  \* the MACs written otherwise, with their lower-case form

(* What is in lower case stays as it is, and a MAC has to be (macAddr).    *)
ASSUME RolesAssumption ==
    /\ \A field \in DOMAIN LowerCase : LowerCase[field] \in STRING \ DOMAIN LowerCase
    /\ Macs \cap DOMAIN LowerCase = {}

(* The variables of each role set: its plural and its singular form.       *)
KeysOf == [wanIfs |-> {"WAN_IFS", "WAN_IF"}, wanMacs |-> {"WAN_MACS", "WAN_MAC"},
           lanIfs |-> {"LAN_IFS", "LAN_IF"}, lanMacs |-> {"LAN_MACS", "LAN_MAC"}]

RoleSets == DOMAIN KeysOf

Lines == [key : {"#", "knob", "odd"} \cup UNION {KeysOf[set] : set \in RoleSets},
          value : Seq(STRING)]

(* The fields of every line with one of these keys, in file order.         *)
Fields(text, keys) ==
    FlattenSeq([i \in DOMAIN text |->
                  IF text[i].key \in keys THEN text[i].value ELSE << >>])

Lowered(fields) ==
    [i \in DOMAIN fields |-> IF fields[i] \in DOMAIN LowerCase
                             THEN LowerCase[fields[i]] ELSE fields[i]]

(* What is neither a role set nor a comment is kept as it is.              *)
IsExtra(line) ==
    line.key # "#" /\ \A set \in RoleSets : line.key \notin KeysOf[set]

Extras(text) ==
    FlattenSeq([i \in DOMAIN text |->
                  IF IsExtra(text[i]) THEN <<text[i]>> ELSE << >>])

ParseRolesConf(text) ==
    [wanIfs  |-> Fields(text, KeysOf.wanIfs),
     wanMacs |-> Lowered(Fields(text, KeysOf.wanMacs)),
     lanIfs  |-> Fields(text, KeysOf.lanIfs),
     lanMacs |-> Lowered(Fields(text, KeysOf.lanMacs)),
     extras  |-> Extras(text)]

Assigned(conf) ==
    /\ conf.wanIfs \o conf.wanMacs # << >>
    /\ conf.lanIfs \o conf.lanMacs # << >>

Validates(conf) ==
    /\ ToSet(conf.wanIfs \o conf.lanIfs) \subseteq Names
    /\ ToSet(conf.wanMacs \o conf.lanMacs) \subseteq Macs

Line(key, value) == [key |-> key, value |-> value]

RoleLines(conf) ==
    <<Line("#", << >>),
      Line("WAN_IFS", conf.wanIfs), Line("WAN_MACS", conf.wanMacs),
      Line("LAN_IFS", conf.lanIfs), Line("LAN_MACS", conf.lanMacs)>>

(* Mutation: the other lines of the file are not written back.             *)
RenderRolesOnly(conf) == RoleLines(conf)

(* RenderRolesConf, of a conf that validates.                              *)
RenderRolesConf(conf) == RoleLines(conf) \o conf.extras

-----------------------------------------------------------------------------
(* SafeRolesConf refuses a text, or renders what it parses to.             *)
SafeRolesExtra(line) == line.key = "knob"

IsSafe(text) ==
    LET conf == ParseRolesConf(text) IN
    /\ \A i \in DOMAIN conf.extras : SafeRolesExtra(conf.extras[i])
    /\ Validates(conf)

SafeRolesConf(text) == RenderRolesConf(ParseRolesConf(text))

(* Mutation: the LAN is not looked at.                                     *)
MissingUplinks(text, present) == ToSet(ParseRolesConf(text).wanIfs) \ present

(* MissingRoleDevices: MACs are not looked at.                             *)
MissingRoleDevices(text, present) ==
    LET conf == ParseRolesConf(text)
    IN  ToSet(conf.wanIfs \o conf.lanIfs) \ present
=============================================================================
