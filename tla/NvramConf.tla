------------------------------- MODULE NvramConf -------------------------------
(***************************************************************************)
(* Editing the configuration through nvram_conf.c: cli_nvram_conf_get      *)
(* reads the keys of one kind of configuration into a structure, the       *)
(* caller changes the structure, and cli_nvram_conf_set writes every key   *)
(* of the kind back.  cli_nvram_safe_get puts a default where a key is     *)
(* empty.  Every read and write of a key is one request to the             *)
(* configuration manager; ScfgClient models what happens inside it.        *)
(* Nothing keeps sessions of one kind apart, no result of a request is     *)
(* looked at, programs die and the device restarts at any step.  A read    *)
(* (nvram_safe_get, which is not in the repository) does not fail.         *)
(*                                                                         *)
(* The value of a key is abstracted to who changed it last: the number of  *)
(* a session, or the default.  RSTP_PORT is left out: reading it drops     *)
(* four of the eight fields of a port, which this abstraction cannot tell. *)
(***************************************************************************)
EXTENDS Naturals, Sequences

CONSTANTS
  Clients,     (* the programs that edit the configuration                 *)
  Kinds,       (* the kinds of configuration they edit                     *)
  MaxSessions, (* bound: the number of sessions                            *)
  FailKinds,   (* the kinds the sets and commits of which may fail         *)
  MayRestart   (* TRUE: the device may restart                             *)

AllKinds == {"VLAN_PORT", "VLAN_FOWD", "SNMP_USER", "ACCESS_USER", "DOT1X_CONF", "TRUNK_LIST",
             "STATIC_ARP", "SOURCE_BINDING", "POE_CONF", "POE_NAMES"}

ASSUME NvramAssumption ==
  /\ Kinds \subseteq AllKinds
  /\ MaxSessions \in Nat
  /\ FailKinds \subseteq Kinds
  /\ MayRestart \in BOOLEAN

VARIABLES
  store,    (* the configuration manager's value of every key              *)
  flash,    (* the value of every key that survives a restart              *)
  applied,  (* the VLAN configuration "rc vlan start" last put to work     *)
  pc,       (* where every client is in its session                        *)
  session,  (* its session: number, kind, and the key it changes           *)
  image,    (* what it read, and then what it writes                       *)
  todo,     (* keys it has still to read or to write                       *)
  missed,   (* history: a scfgmgr_set of what it writes back failed        *)
  beside,   (* history: a session of its kind was open beside its session  *)
  spoilt,   (* history: applied is from a session that missed a write, or  *)
            (* had another one beside it                                   *)
  unsaved,  (* history: the last PoE configuration was written, but a      *)
            (* commit of it failed or was never sent                       *)
  written,  (* history: the images of VLAN_PORT written back in full       *)
  sessions  (* history: the number of sessions begun                       *)

clientVars == <<pc, session, image, todo, missed, beside>>
vars == <<store, flash, applied, pc, session, image, todo, missed, beside, spoilt, unsaved,
          written, sessions>>

(* The keys of a kind, in the order they are read and written. *)
KeysOf(kind) ==
  CASE kind = "VLAN_PORT"      -> << "vlan_link_type", "pvid_config",
                                     "trunk_vlan_allowed", "trunk_vlan_untagged" >>
    [] kind = "VLAN_FOWD"      -> << "vlan_fwd_config" >>
    [] kind = "SNMP_USER"      -> << "snmp_user" >>
    [] kind = "ACCESS_USER"    -> << "user" >>
    [] kind = "DOT1X_CONF"     -> << "dot1x_config" >>
    [] kind = "TRUNK_LIST"     -> << "trunk_list" >>
    [] kind = "STATIC_ARP"     -> << "static_arp_list" >>
    [] kind = "SOURCE_BINDING" -> << "source_binding" >>
    [] kind = "POE_CONF"       -> << "poe_port_conf" >>
    [] kind = "POE_NAMES"      -> << "port_desps" >>

KeySet(kind) == {KeysOf(kind)[i] : i \in DOMAIN KeysOf(kind)}
Keys == UNION {KeySet(kind) : kind \in Kinds}

(* Kinds that are read with cli_nvram_safe_get, and the one that is        *)
(* committed after it was written.                                         *)
Defaulted == {"VLAN_PORT", "VLAN_FOWD", "POE_CONF", "POE_NAMES"}
Committed == {"POE_CONF"}

(* Sessions are numbered from 2. *)
Empty   == 0
Default == 1
Vals    == 0 .. MaxSessions + 1

NoSession == [id |-> 0, kind |-> "NONE", key |-> "NONE"]
NoImage   == [k \in {} |-> Empty]

Init ==
  /\ store = [k \in Keys |-> Empty] /\ flash = store
  /\ applied = NoImage
  /\ pc = [c \in Clients |-> "idle"]
  /\ session = [c \in Clients |-> NoSession]
  /\ image = [c \in Clients |-> NoImage]
  /\ todo = [c \in Clients |-> <<>>]
  /\ missed = [c \in Clients |-> FALSE] /\ beside = [c \in Clients |-> FALSE]
  /\ spoilt = FALSE /\ unsaved = FALSE
  /\ written = {}
  /\ sessions = 0

-------------------------------------------------------------------------------
(* cli_nvram_conf_get *)

(* The session is over, and its structure is freed. *)
Leave(c) ==
  /\ pc' = [pc EXCEPT ![c] = "idle"]
  /\ session' = [session EXCEPT ![c] = NoSession]
  /\ image' = [image EXCEPT ![c] = NoImage]
  /\ todo' = [todo EXCEPT ![c] = <<>>]
  /\ missed' = [missed EXCEPT ![c] = FALSE]
  /\ beside' = [beside EXCEPT ![c] = FALSE]

(* Who is in a session of this kind. *)
Open(kind) == {d \in Clients : pc[d] # "idle" /\ session[d].kind = kind}

(* The structure is a new one: the caller has cleared it, as it must, for  *)
(* the users of SNMP and of the console are counted on from what it holds. *)
BeginGet(c) ==
  /\ pc[c] = "idle"
  /\ sessions < MaxSessions
  /\ sessions' = sessions + 1
  /\ \E kind \in Kinds :
       /\ \E key \in KeySet(kind) :
            session' = [session EXCEPT ![c] = [id |-> sessions + 2, kind |-> kind, key |-> key]]
       /\ todo' = [todo EXCEPT ![c] = KeysOf(kind)]
       /\ beside' = [d \in Clients |-> IF d = c THEN Open(kind) # {}
                                       ELSE beside[d] \/ d \in Open(kind)]
  /\ pc' = [pc EXCEPT ![c] = "get"]
  /\ UNCHANGED <<store, flash, applied, image, missed, spoilt, unsaved, written>>

WithKey(f, k, v) == [x \in {k} \cup DOMAIN f |-> IF x = k THEN v ELSE f[x]]

(* The key is read; cli_nvram_safe_get goes on to initialise an empty one. *)
GetKey(c) ==
  LET k == Head(todo[c]) IN
  /\ pc[c] = "get"
  /\ todo[c] # <<>>
  /\ IF store[k] = Empty /\ session[c].kind \in Defaulted
     THEN /\ pc' = [pc EXCEPT ![c] = "default"]
          /\ UNCHANGED <<image, todo>>
     ELSE /\ image' = [image EXCEPT ![c] = WithKey(@, k, store[k])]
          /\ todo' = [todo EXCEPT ![c] = Tail(@)]
          /\ UNCHANGED pc
  /\ UNCHANGED <<store, flash, applied, session, missed, beside, spoilt, unsaved, written, sessions>>

(* The default is written, and read again in a request of its own; that    *)
(* the first one may have failed is not looked at.                         *)
SetDefault(c) ==
  /\ pc[c] = "default"
  /\ pc' = [pc EXCEPT ![c] = "reread"]
  /\ \/ store' = [store EXCEPT ![Head(todo[c])] = Default]
     \/ session[c].kind \in FailKinds /\ UNCHANGED store
  /\ UNCHANGED <<flash, applied, session, image, todo, missed, beside, spoilt, unsaved, written,
                 sessions>>

(* Mutant of Reread: the key that was initialised is passed over. *)
RereadNothing(c) ==
  /\ pc[c] = "reread"
  /\ todo' = [todo EXCEPT ![c] = Tail(@)]
  /\ pc' = [pc EXCEPT ![c] = "get"]
  /\ UNCHANGED <<store, flash, applied, session, image, missed, beside, spoilt, unsaved, written,
                 sessions>>

Reread(c) ==
  LET k == Head(todo[c]) IN
  /\ pc[c] = "reread"
  /\ image' = [image EXCEPT ![c] = WithKey(@, k, store[k])]
  /\ todo' = [todo EXCEPT ![c] = Tail(@)]
  /\ pc' = [pc EXCEPT ![c] = "get"]
  /\ UNCHANGED <<store, flash, applied, session, missed, beside, spoilt, unsaved, written, sessions>>

(* What was read is taken apart.  The texts of the ports have a field for  *)
(* each of them: in an empty one, whose default could not be set, the      *)
(* search for the next field ends at a null pointer, and the program dies. *)
Readable(c) ==
  session[c].kind \in {"VLAN_PORT", "POE_CONF"} => \A k \in DOMAIN image[c] : image[c][k] # Empty

(* The caller only wanted to see the configuration. *)
Show(c) ==
  /\ pc[c] = "get"
  /\ todo[c] = <<>>
  /\ Readable(c)
  /\ Leave(c)
  /\ UNCHANGED <<store, flash, applied, spoilt, unsaved, written, sessions>>

-------------------------------------------------------------------------------
(* cli_nvram_conf_set *)

(* Mutant of Edit: the structure is not filled from what was read. *)
EditFromNothing(c) ==
  /\ pc[c] = "get"
  /\ todo[c] = <<>>
  /\ Readable(c)
  /\ image' = [image EXCEPT ![c] = [k \in KeySet(session[c].kind) |->
                 IF k = session[c].key THEN session[c].id ELSE Default]]
  /\ todo' = [todo EXCEPT ![c] = KeysOf(session[c].kind)]
  /\ pc' = [pc EXCEPT ![c] = "set"]
  /\ UNCHANGED <<store, flash, applied, session, missed, beside, spoilt, unsaved, written, sessions>>

(* The caller changes what one key holds, and sets the whole structure. *)
Edit(c) ==
  /\ pc[c] = "get"
  /\ todo[c] = <<>>
  /\ Readable(c)
  /\ image' = [image EXCEPT ![c][session[c].key] = session[c].id]
  /\ todo' = [todo EXCEPT ![c] = KeysOf(session[c].kind)]
  /\ pc' = [pc EXCEPT ![c] = "set"]
  /\ UNCHANGED <<store, flash, applied, session, missed, beside, spoilt, unsaved, written, sessions>>

(* One scfgmgr_set; its result is not looked at.  One that fails may have  *)
(* been carried out all the same.                                          *)
SetKey(c) ==
  LET k == Head(todo[c])
      done == [store EXCEPT ![k] = image[c][k]]
  IN
  /\ pc[c] = "set"
  /\ todo[c] # <<>>
  /\ todo' = [todo EXCEPT ![c] = Tail(@)]
  /\ \/ store' = done /\ UNCHANGED missed
     \/ /\ session[c].kind \in FailKinds
        /\ missed' = [missed EXCEPT ![c] = TRUE]
        /\ store' \in {store, done}
  /\ UNCHANGED <<flash, applied, pc, session, image, beside, spoilt, unsaved, written, sessions>>

(* "rc vlan start", external, puts the four keys of VLAN_PORT to work.     *)
PutToWork(c) ==
  IF session[c].kind = "VLAN_PORT"
  THEN /\ applied' = [k \in KeySet("VLAN_PORT") |-> store[k]]
       /\ spoilt' = (missed[c] \/ beside[c])
       /\ written' = IF missed[c] THEN written ELSE written \cup {image[c]}
  ELSE UNCHANGED <<applied, spoilt, written>>

(* scfgmgr_commit saves all keys, after POE_CONF only.  Its result is not  *)
(* looked at; one that fails may have been carried out all the same.       *)
Commit(c) ==
  IF session[c].kind \in Committed
  THEN \/ flash' = store /\ unsaved' = FALSE
       \/ session[c].kind \in FailKinds /\ flash' \in {flash, store} /\ unsaved' = TRUE
  ELSE UNCHANGED <<flash, unsaved>>

(* Mutant of EndSet: the VLAN configuration is put to work too early. *)
ApplyEarly(c) ==
  /\ pc[c] = "set"
  /\ Len(todo[c]) <= 1
  /\ PutToWork(c)
  /\ Commit(c)
  /\ Leave(c)
  /\ UNCHANGED <<store, sessions>>

(* Mutant of EndSet: nothing is committed. *)
EndWithoutCommit(c) ==
  /\ pc[c] = "set"
  /\ todo[c] = <<>>
  /\ PutToWork(c)
  /\ Leave(c)
  /\ UNCHANGED <<store, flash, unsaved, sessions>>

(* All keys were written; the result is always CLI_SUCCESS.                *)
EndSet(c) ==
  /\ pc[c] = "set"
  /\ todo[c] = <<>>
  /\ PutToWork(c)
  /\ Commit(c)
  /\ Leave(c)
  /\ UNCHANGED <<store, sessions>>

-------------------------------------------------------------------------------
(* A program dies in its session, external.  What it has written of the    *)
(* PoE configuration it does not commit.                                   *)
Die(c) ==
  /\ pc[c] # "idle"
  /\ Leave(c)
  /\ unsaved' = (unsaved \/ (pc[c] = "set" /\ session[c].kind \in Committed))
  /\ UNCHANGED <<store, flash, applied, spoilt, written, sessions>>

(* The device restarts at any moment, external: sessions end where they    *)
(* are, and the manager loads what is in flash.                            *)
Restart ==
  /\ MayRestart
  /\ pc' = [c \in Clients |-> "idle"]
  /\ session' = [c \in Clients |-> NoSession]
  /\ image' = [c \in Clients |-> NoImage]
  /\ todo' = [c \in Clients |-> <<>>]
  /\ missed' = [c \in Clients |-> FALSE] /\ beside' = [c \in Clients |-> FALSE]
  /\ store' = flash
  /\ applied' = NoImage
  /\ spoilt' = FALSE /\ unsaved' = FALSE
  /\ UNCHANGED <<flash, written, sessions>>

Finished == sessions = MaxSessions /\ (\A c \in Clients : pc[c] = "idle") /\ UNCHANGED vars

Next ==
  \/ \E c \in Clients :
       \/ BeginGet(c) \/ GetKey(c) \/ SetDefault(c) \/ Reread(c) \/ Show(c)
       \/ Edit(c) \/ SetKey(c) \/ EndSet(c) \/ Die(c)
  \/ Restart
  \/ Finished

Spec == Init /\ [][Next]_vars
-------------------------------------------------------------------------------
(* Properties *)

TypeOK ==
  /\ store \in [Keys -> Vals] /\ flash \in [Keys -> Vals]
  /\ DOMAIN applied \subseteq Keys
  /\ pc \in [Clients -> {"idle", "get", "default", "reread", "set"}]
  /\ \A c \in Clients :
       /\ session[c].id \in Vals
       /\ DOMAIN image[c] \subseteq Keys
       /\ pc[c] = "set" => DOMAIN image[c] = KeySet(session[c].kind)
       /\ todo[c] \in Seq(Keys)
  /\ missed \in [Clients -> BOOLEAN] /\ beside \in [Clients -> BOOLEAN]
  /\ spoilt \in BOOLEAN /\ unsaved \in BOOLEAN
  /\ sessions \in 0 .. MaxSessions

(* A session writes all keys of its kind back.  If none of its kind was    *)
(* open beside it, it loses nobody's change all the same: it changes only  *)
(* the key it was opened for, and an empty one, which gets its default.    *)
(* Otherwise a key changes at a restart, which brings back what was saved, *)
(* or is written by a session that had another beside it, of which nothing *)
(* is said (cli_nvram_conf_set takes no lock).                             *)
EditsKept ==
  [][\A k \in Keys : store'[k] # store[k] =>
       \/ store' = flash
       \/ store[k] = Empty /\ store'[k] = Default
       \/ \E c \in Clients : store'[k] = session[c].id /\ session[c].key = k
       \/ \E c \in Clients : beside[c] /\ todo[c] # <<>> /\ Head(todo[c]) = k]_store

(* The VLAN configuration at work is one that a session wrote as a whole,  *)
(* never part of one and part of another, if no write of the session that  *)
(* put it to work failed and no other of its kind was open beside it: the  *)
(* code sees to neither, and goes on to "rc vlan start" all the same       *)
(* (nvram_conf.c:1118-1122).                                               *)
AppliedWhole == applied = NoImage \/ applied \in written \/ spoilt

(* A change of the PoE configuration that was made survives a restart,     *)
(* unless its commit failed, which nobody is told (nvram_conf.c:463), or   *)
(* its session ended before the commit.  The default is not committed.     *)
PoeSurvives ==
  "POE_CONF" \in Kinds /\ (\A c \in Clients : pc[c] = "set" => session[c].kind # "POE_CONF") =>
    LET k == "poe_port_conf" IN flash[k] = store[k] \/ store[k] = Default \/ unsaved

(* nvram_conf.c:85, "get nvram param, and initialize it when value is      *)
(* NULL": a default is written where nothing is, and nowhere else.         *)
DefaultsOnlyInitialise ==
  [][\A k \in Keys : store'[k] # store[k] /\ store'[k] = Default => store[k] = Empty]_store
===============================================================================
