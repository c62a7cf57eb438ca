---------------------------- MODULE NvramConfProofs ----------------------------
(***************************************************************************)
(* Proofs about NvramConf: for any clients, kinds of configuration and     *)
(* number of sessions, however sessions overlap, and wherever requests     *)
(* fail, programs die and the device restarts.                             *)
(***************************************************************************)
EXTENDS NvramConf, TLAPS

-------------------------------------------------------------------------------
(* The inductive invariant, in parts *)

AllKeys == {"vlan_link_type", "pvid_config", "trunk_vlan_allowed", "trunk_vlan_untagged",
            "vlan_fwd_config", "snmp_user", "user", "dot1x_config", "trunk_list",
            "static_arp_list", "source_binding", "poe_port_conf", "port_desps"}
Images  == UNION {[ks -> Vals] : ks \in SUBSET Keys}
Getting == {"get", "default", "reread"}

Sessions == [id : Vals, kind : AllKinds \cup {"NONE"}, key : AllKeys \cup {"NONE"}]
PCs      == {"idle", "get", "default", "reread", "set"}

(* The keys that are still to be read, or to be written. *)
Left(keys) == {keys[i] : i \in 1 .. Len(keys)}

LocalsTyped ==
  /\ session \in [Clients -> Sessions]
  /\ image \in [Clients -> Images]
  /\ todo \in [Clients -> Seq(Keys)]

(* What the clients share, and what is remembered of their sessions. *)
SharedTyped ==
  /\ store \in [Keys -> Vals] /\ flash \in [Keys -> Vals]
  /\ DOMAIN applied \subseteq Keys
  /\ beside \in [Clients -> BOOLEAN] /\ spoilt \in BOOLEAN /\ unsaved \in BOOLEAN
  /\ sessions \in 0 .. MaxSessions

(* A session at p is about keys of its kind, each of which comes once; what *)
(* it has read is the rest of them.                                         *)
Seated(p, s, im, keys) ==
  /\ s.kind \in Kinds /\ s.key \in KeySet(s.kind)
  /\ s.id \notin {Empty, Default}
  /\ Left(keys) \subseteq KeySet(s.kind)
  /\ \A i, j \in 1 .. Len(keys) : keys[i] = keys[j] => i = j
  /\ p \in Getting => DOMAIN im = KeySet(s.kind) \ Left(keys)
  /\ p \in {"default", "reread"} => keys # <<>>

InSession ==
  \A c \in Clients :
    /\ pc[c] # "idle" => Seated(pc[c], session[c], image[c], todo[c])
    /\ pc[c] = "idle" => image[c] = NoImage /\ ~missed[c]

SessionInv == TypeOK /\ LocalsTyped /\ InSession

(* Of two sessions of one kind that are open, each has the other beside it. *)
Apart ==
  \A c, d \in Clients :
    /\ pc[c] # "idle" /\ pc[d] # "idle" /\ session[c].kind = session[d].kind /\ c # d
    => beside[c]

(* What a session that had no other beside it has read is what is stored,  *)
(* until it writes; and then too, but for the key it changes, which holds  *)
(* what the session made of it as soon as it was written and not missed.   *)
Fresh(p, s, im, keys, m, st) ==
  /\ p \in Getting => \A k \in DOMAIN im : im[k] = st[k]
  /\ p = "default" => st[Head(keys)] = Empty
  /\ p = "set" =>
       /\ im[s.key] = s.id
       /\ \A k \in KeySet(s.kind) : k # s.key => st[k] = im[k]
       /\ ~m /\ s.key \notin Left(keys) => st[s.key] = s.id

ImageFresh ==
  \A c \in Clients :
    ~beside[c] => Fresh(pc[c], session[c], image[c], todo[c], missed[c], store)

EditInv == Apart /\ ImageFresh

-------------------------------------------------------------------------------
(* The keys of the kinds *)

(* The kind a key belongs to, and its place there: no key belongs to two.  *)
KindOfKey(k) ==
  CASE k \in {"vlan_link_type", "pvid_config", "trunk_vlan_allowed", "trunk_vlan_untagged"}
                             -> "VLAN_PORT"
    [] k = "vlan_fwd_config"     -> "VLAN_FOWD"
    [] k = "snmp_user"           -> "SNMP_USER"
    [] k = "user"                -> "ACCESS_USER"
    [] k = "dot1x_config"        -> "DOT1X_CONF"
    [] k = "trunk_list"          -> "TRUNK_LIST"
    [] k = "static_arp_list"     -> "STATIC_ARP"
    [] k = "source_binding"      -> "SOURCE_BINDING"
    [] k = "poe_port_conf"       -> "POE_CONF"
    [] k = "port_desps"          -> "POE_NAMES"

PlaceOfKey(k) ==
  CASE k = "pvid_config" -> 2 [] k = "trunk_vlan_allowed" -> 3 [] k = "trunk_vlan_untagged" -> 4
    [] OTHER -> 1

LEMMA KeyRows ==
  ASSUME NEW S, NEW x \in S, NEW y \in S, NEW z \in S, NEW w \in S
  PROVE  <<x>> \in Seq(S) /\ <<x, y, z, w>> \in Seq(S)
OBVIOUS

LEMMA KeyAlone ==
  ASSUME NEW kind, NEW k \in AllKeys,
         KeysOf(kind) = <<k>>, KindOfKey(k) = kind, PlaceOfKey(k) = 1
  PROVE  /\ KeysOf(kind) \in Seq(AllKeys)
         /\ \A i \in 1 .. Len(KeysOf(kind)) : /\ KindOfKey(KeysOf(kind)[i]) = kind
                                            /\ PlaceOfKey(KeysOf(kind)[i]) = i
<1>1. Len(KeysOf(kind)) = 1 /\ KeysOf(kind)[1] = k
  OBVIOUS
<1>2. ASSUME NEW i \in 1 .. Len(KeysOf(kind))
      PROVE  KindOfKey(KeysOf(kind)[i]) = kind /\ PlaceOfKey(KeysOf(kind)[i]) = i
  <2>1. i = 1
    BY <1>1
  <2>q. QED BY <1>1, <2>1
<1>3. KeysOf(kind) \in Seq(AllKeys)
  BY KeyRows
<1>q. QED BY <1>2, <1>3

LEMMA KeysOfKind ==
  ASSUME NEW kind \in AllKinds
  PROVE  /\ KeysOf(kind) \in Seq(AllKeys)
         /\ \A i \in 1 .. Len(KeysOf(kind)) : /\ KindOfKey(KeysOf(kind)[i]) = kind
                                            /\ PlaceOfKey(KeysOf(kind)[i]) = i
<1>1. CASE kind = "VLAN_PORT"
  <2> DEFINE keys == KeysOf(kind)
  <2>1. keys = << "vlan_link_type", "pvid_config", "trunk_vlan_allowed", "trunk_vlan_untagged" >>
    BY <1>1 DEF KeysOf
  <2>2. /\ KindOfKey("vlan_link_type") = kind /\ KindOfKey("pvid_config") = kind
        /\ KindOfKey("trunk_vlan_allowed") = kind /\ KindOfKey("trunk_vlan_untagged") = kind
    BY <1>1 DEF KindOfKey
  <2>3. /\ PlaceOfKey("vlan_link_type") = 1 /\ PlaceOfKey("pvid_config") = 2
        /\ PlaceOfKey("trunk_vlan_allowed") = 3 /\ PlaceOfKey("trunk_vlan_untagged") = 4
    BY DEF PlaceOfKey
  <2>4. /\ Len(keys) = 4 /\ keys[1] = "vlan_link_type" /\ keys[2] = "pvid_config"
        /\ keys[3] = "trunk_vlan_allowed" /\ keys[4] = "trunk_vlan_untagged"
    BY <2>1
  <2>5. keys \in Seq(AllKeys)
    BY <2>1, KeyRows DEF AllKeys
  <2> HIDE DEF keys
  <2>6. ASSUME NEW i \in 1 .. Len(keys)
        PROVE  KindOfKey(keys[i]) = kind /\ PlaceOfKey(keys[i]) = i
    <3>1. i = 1 \/ i = 2 \/ i = 3 \/ i = 4
      BY <2>4
    <3>2. CASE i = 1 BY <2>2, <2>3, <2>4, <3>2
    <3>3. CASE i = 2 BY <2>2, <2>3, <2>4, <3>3
    <3>4. CASE i = 3 BY <2>2, <2>3, <2>4, <3>4
    <3>5. CASE i = 4 BY <2>2, <2>3, <2>4, <3>5
    <3>q. QED BY <3>1, <3>2, <3>3, <3>4, <3>5
  <2>q. QED BY <2>5, <2>6 DEF keys
<1>2. CASE kind = "VLAN_FOWD"
  <2>1. KeysOf(kind) = << "vlan_fwd_config" >>
    BY <1>2 DEF KeysOf
  <2>2. KindOfKey("vlan_fwd_config") = kind
    BY <1>2 DEF KindOfKey
  <2>3. PlaceOfKey("vlan_fwd_config") = 1
    BY DEF PlaceOfKey
  <2>q. QED BY <2>1, <2>2, <2>3, KeyAlone DEF AllKeys
<1>3. CASE kind = "SNMP_USER"
  <2>1. KeysOf(kind) = << "snmp_user" >>
    BY <1>3 DEF KeysOf
  <2>2. KindOfKey("snmp_user") = kind
    BY <1>3 DEF KindOfKey
  <2>3. PlaceOfKey("snmp_user") = 1
    BY DEF PlaceOfKey
  <2>q. QED BY <2>1, <2>2, <2>3, KeyAlone DEF AllKeys
<1>4. CASE kind = "ACCESS_USER"
  <2>1. KeysOf(kind) = << "user" >>
    BY <1>4 DEF KeysOf
  <2>2. KindOfKey("user") = kind
    BY <1>4 DEF KindOfKey
  <2>3. PlaceOfKey("user") = 1
    BY DEF PlaceOfKey
  <2>q. QED BY <2>1, <2>2, <2>3, KeyAlone DEF AllKeys
<1>5. CASE kind = "DOT1X_CONF"
  <2>1. KeysOf(kind) = << "dot1x_config" >>
    BY <1>5 DEF KeysOf
  <2>2. KindOfKey("dot1x_config") = kind
    BY <1>5 DEF KindOfKey
  <2>3. PlaceOfKey("dot1x_config") = 1
    BY DEF PlaceOfKey
  <2>q. QED BY <2>1, <2>2, <2>3, KeyAlone DEF AllKeys
<1>6. CASE kind = "TRUNK_LIST"
  <2>1. KeysOf(kind) = << "trunk_list" >>
    BY <1>6 DEF KeysOf
  <2>2. KindOfKey("trunk_list") = kind
    BY <1>6 DEF KindOfKey
  <2>3. PlaceOfKey("trunk_list") = 1
    BY DEF PlaceOfKey
  <2>q. QED BY <2>1, <2>2, <2>3, KeyAlone DEF AllKeys
<1>7. CASE kind = "STATIC_ARP"
  <2>1. KeysOf(kind) = << "static_arp_list" >>
    BY <1>7 DEF KeysOf
  <2>2. KindOfKey("static_arp_list") = kind
    BY <1>7 DEF KindOfKey
  <2>3. PlaceOfKey("static_arp_list") = 1
    BY DEF PlaceOfKey
  <2>q. QED BY <2>1, <2>2, <2>3, KeyAlone DEF AllKeys
<1>8. CASE kind = "SOURCE_BINDING"
  <2>1. KeysOf(kind) = << "source_binding" >>
    BY <1>8 DEF KeysOf
  <2>2. KindOfKey("source_binding") = kind
    BY <1>8 DEF KindOfKey
  <2>3. PlaceOfKey("source_binding") = 1
    BY DEF PlaceOfKey
  <2>q. QED BY <2>1, <2>2, <2>3, KeyAlone DEF AllKeys
<1>9. CASE kind = "POE_CONF"
  <2>1. KeysOf(kind) = << "poe_port_conf" >>
    BY <1>9 DEF KeysOf
  <2>2. KindOfKey("poe_port_conf") = kind
    BY <1>9 DEF KindOfKey
  <2>3. PlaceOfKey("poe_port_conf") = 1
    BY DEF PlaceOfKey
  <2>q. QED BY <2>1, <2>2, <2>3, KeyAlone DEF AllKeys
<1>10. CASE kind = "POE_NAMES"
  <2>1. KeysOf(kind) = << "port_desps" >>
    BY <1>10 DEF KeysOf
  <2>2. KindOfKey("port_desps") = kind
    BY <1>10 DEF KindOfKey
  <2>3. PlaceOfKey("port_desps") = 1
    BY DEF PlaceOfKey
  <2>q. QED BY <2>1, <2>2, <2>3, KeyAlone DEF AllKeys
<1>q. QED BY <1>1, <1>2, <1>3, <1>4, <1>5, <1>6, <1>7, <1>8, <1>9, <1>10 DEF AllKinds

(* The set of keys of a kind, by their places. *)
LEMMA KeySetOfKind ==
  ASSUME NEW kind \in AllKinds
  PROVE  /\ KeySet(kind) = {KeysOf(kind)[i] : i \in 1 .. Len(KeysOf(kind))}
         /\ KeySet(kind) \subseteq AllKeys
         /\ \A k \in KeySet(kind) : KindOfKey(k) = kind
         /\ \A i, j \in 1 .. Len(KeysOf(kind)) : KeysOf(kind)[i] = KeysOf(kind)[j] => i = j
<1>1. DOMAIN KeysOf(kind) = 1 .. Len(KeysOf(kind))
  BY KeysOfKind
<1>q. QED BY <1>1, KeysOfKind DEF KeySet

LEMMA KeysApart ==
  ASSUME NEW kind \in AllKinds, NEW other \in AllKinds, KeySet(kind) \cap KeySet(other) # {}
  PROVE  kind = other
BY KeySetOfKind

LEMMA KeysAreKeys == \A kind \in Kinds : KeySet(kind) \subseteq Keys /\ kind \in AllKinds
BY NvramAssumption DEF Keys

(* What is left when one key more was read or written. *)
LEMMA PopLeft ==
  ASSUME NEW S, NEW q \in Seq(S), q # <<>>,
         \A i, j \in 1 .. Len(q) : q[i] = q[j] => i = j
  PROVE  /\ Left(Tail(q)) = Left(q) \ {Head(q)}
         /\ Head(q) \in Left(q) /\ Head(q) \in S
         /\ Tail(q) \in Seq(S)
         /\ \A i, j \in 1 .. Len(Tail(q)) : Tail(q)[i] = Tail(q)[j] => i = j
<1>1. /\ Len(q) \in Nat /\ Len(q) >= 1
      /\ Tail(q) \in Seq(S) /\ Len(Tail(q)) = Len(q) - 1
      /\ \A i \in 1 .. Len(Tail(q)) : Tail(q)[i] = q[i + 1]
      /\ Head(q) = q[1] /\ Head(q) \in S
  OBVIOUS
<1>2. Head(q) \in Left(q)
  BY <1>1 DEF Left
<1>3. ASSUME NEW x \in Left(Tail(q)) PROVE x \in Left(q) \ {Head(q)}
  <2>1. PICK i \in 1 .. Len(Tail(q)) : x = Tail(q)[i]
    BY DEF Left
  <2>2. i + 1 \in 1 .. Len(q) /\ x = q[i + 1] /\ i + 1 # 1
    BY <1>1, <2>1
  <2>q. QED BY <1>1, <2>2 DEF Left
<1>4. ASSUME NEW x \in Left(q) \ {Head(q)} PROVE x \in Left(Tail(q))
  <2>1. PICK i \in 1 .. Len(q) : x = q[i]
    BY DEF Left
  <2>2. i - 1 \in 1 .. Len(Tail(q)) /\ x = Tail(q)[i - 1]
    BY <1>1, <2>1
  <2>q. QED BY <2>2 DEF Left
<1>5. \A i, j \in 1 .. Len(Tail(q)) : Tail(q)[i] = Tail(q)[j] => i = j
  BY <1>1
<1>q. QED BY <1>1, <1>2, <1>3, <1>4, <1>5

LEMMA NothingLeft == Left(<<>>) = {}
BY DEF Left

(* Nothing is read yet. *)
LEMMA NoImageYet == NoImage \in Images /\ DOMAIN NoImage = {}
<1>1. NoImage \in [{} -> Vals]
  BY DEF NoImage
<1>q. QED BY <1>1 DEF Images

(* A key that is read is added to the image. *)
LEMMA Extended ==
  ASSUME NEW f \in Images, NEW k \in Keys, NEW v \in Vals
  PROVE  /\ WithKey(f, k, v) \in Images
         /\ DOMAIN (WithKey(f, k, v)) = {k} \cup DOMAIN f
         /\ \A x \in {k} \cup DOMAIN f : (WithKey(f, k, v))[x] = IF x = k THEN v ELSE f[x]
<1>1. PICK ks \in SUBSET Keys : f \in [ks -> Vals]
  BY DEF Images
<1>2. WithKey(f, k, v) = [x \in {k} \cup ks |-> IF x = k THEN v ELSE f[x]]
  BY <1>1 DEF WithKey
<1>3. WithKey(f, k, v) \in [{k} \cup ks -> Vals]
  BY <1>1, <1>2
<1>q. QED BY <1>1, <1>2, <1>3 DEF Images

-------------------------------------------------------------------------------
(* Sessions *)

LEMMA SessionInit == Init => SessionInv
<1> SUFFICES ASSUME Init PROVE SessionInv
  OBVIOUS
<1>1. TypeOK
  <2>1. Empty \in Vals /\ 0 \in 0 .. MaxSessions
    BY NvramAssumption DEF Vals, Empty
  <2>2. <<>> \in Seq(Keys)
    OBVIOUS
  <2>q. QED BY <2>1, <2>2, NoImageYet DEF Init, TypeOK, NoSession, Empty
<1>2. LocalsTyped
  <2>1. <<>> \in Seq(Keys) /\ 0 \in Vals
    BY NvramAssumption DEF Vals
  <2>q. QED BY <2>1, NoImageYet DEF Init, LocalsTyped, NoSession, Sessions
<1>3. InSession
  BY DEF Init, InSession
<1>q. QED BY <1>1, <1>2, <1>3 DEF SessionInv

(* One client moves to p, and what it keeps becomes s, im, keys and m. *)
Moves(c, p, s, im, keys, m) ==
  /\ pc' = [pc EXCEPT ![c] = p] /\ session' = [session EXCEPT ![c] = s]
  /\ image' = [image EXCEPT ![c] = im] /\ todo' = [todo EXCEPT ![c] = keys]
  /\ missed' = [missed EXCEPT ![c] = m]

LEMMA OneMoves ==
  ASSUME SessionInv, NEW c \in Clients, SharedTyped',
         NEW p \in PCs, NEW s \in Sessions, NEW im \in Images, NEW keys \in Seq(Keys),
         NEW m \in BOOLEAN,
         Moves(c, p, s, im, keys, m),
         p = "set" => DOMAIN im = KeySet(s.kind),
         p # "idle" => Seated(p, s, im, keys),
         p = "idle" => im = NoImage /\ ~m
  PROVE  SessionInv'
<1> USE DEF SessionInv, Moves
<1>1. LocalsTyped'
  BY DEF LocalsTyped
<1>2. pc' \in [Clients -> PCs] /\ missed' \in [Clients -> BOOLEAN]
  BY DEF TypeOK, PCs
<1>3. ASSUME NEW d \in Clients
      PROVE  \/ /\ d = c /\ pc'[d] = p /\ session'[d] = s /\ image'[d] = im
                /\ todo'[d] = keys /\ missed'[d] = m
             \/ /\ d # c /\ pc'[d] = pc[d] /\ session'[d] = session[d] /\ image'[d] = image[d]
                /\ todo'[d] = todo[d] /\ missed'[d] = missed[d]
  BY DEF TypeOK, LocalsTyped
<1>4. ASSUME NEW d \in Clients
      PROVE  /\ session'[d].id \in Vals /\ todo'[d] \in Seq(Keys)
             /\ DOMAIN image'[d] \subseteq Keys
             /\ pc'[d] = "set" => DOMAIN image'[d] = KeySet(session'[d].kind)
  <2>1. DOMAIN im \subseteq Keys /\ s.id \in Vals
    BY DEF Images, Sessions
  <2>q. QED BY <2>1, <1>3 DEF TypeOK
<1>5. TypeOK'
  BY <1>2, <1>4 DEF TypeOK, PCs, SharedTyped
<1>6. InSession'
  BY <1>3 DEF InSession
<1>q. QED BY <1>1, <1>5, <1>6

(* What is known of a client. *)
LEMMA ClientTyped ==
  ASSUME SessionInv, NEW c \in Clients
  PROVE  /\ pc[c] \in PCs /\ session[c] \in Sessions /\ image[c] \in Images
         /\ todo[c] \in Seq(Keys) /\ missed[c] \in BOOLEAN
         /\ SharedTyped
         /\ store \in [Keys -> Vals] /\ flash \in [Keys -> Vals]
         /\ pc[c] = "set" => DOMAIN image[c] = KeySet(session[c].kind)
         /\ pc[c] = "idle" => image[c] = NoImage /\ ~missed[c]
         /\ pc[c] # "idle" => /\ Seated(pc[c], session[c], image[c], todo[c])
                              /\ KeySet(session[c].kind) \subseteq Keys
                              /\ session[c].key \in Keys
BY KeysAreKeys DEF SessionInv, TypeOK, LocalsTyped, InSession, PCs, Seated, SharedTyped

(* A session ends: its structure is freed. *)
LEMMA Leaves ==
  ASSUME SessionInv, NEW c \in Clients, Leave(c), SharedTyped'
  PROVE  SessionInv'
<1>1. Moves(c, "idle", NoSession, NoImage, <<>>, FALSE)
  BY DEF Leave, Moves
<1>2. "idle" \in PCs /\ "idle" # "set" /\ <<>> \in Seq(Keys)
  BY DEF PCs
<1>3. NoSession \in Sessions
  BY NvramAssumption DEF NoSession, Sessions, Vals
<1>q. QED BY <1>1, <1>2, <1>3, NoImageYet, OneMoves

LEMMA ImageTyped ==
  ASSUME NEW f \in Images, NEW k \in DOMAIN f
  PROVE  f[k] \in Vals
BY DEF Images

LEMMA SessionBegin ==
  ASSUME SessionInv, NEW c \in Clients, BeginGet(c)
  PROVE  SessionInv'
<1>0. PICK kind \in Kinds :
        /\ todo' = [todo EXCEPT ![c] = KeysOf(kind)]
        /\ \E key \in KeySet(kind) :
             session' = [session EXCEPT ![c] = [id |-> sessions + 2, kind |-> kind, key |-> key]]
  BY DEF BeginGet
<1>1. PICK key \in KeySet(kind) :
        session' = [session EXCEPT ![c] = [id |-> sessions + 2, kind |-> kind, key |-> key]]
  BY <1>0
<1> DEFINE s == [id |-> sessions + 2, kind |-> kind, key |-> key]
<1>2. /\ kind \in AllKinds /\ KeySet(kind) \subseteq Keys
      /\ KeysOf(kind) \in Seq(AllKeys) /\ KeySet(kind) \subseteq AllKeys
      /\ KeySet(kind) = {KeysOf(kind)[i] : i \in 1 .. Len(KeysOf(kind))}
      /\ \A i, j \in 1 .. Len(KeysOf(kind)) : KeysOf(kind)[i] = KeysOf(kind)[j] => i = j
  BY KeysAreKeys, KeysOfKind, KeySetOfKind
<1>3. KeysOf(kind) \in Seq(Keys)
  BY <1>2
<1>4. sessions + 2 \in Vals /\ sessions' \in 0 .. MaxSessions
  BY NvramAssumption DEF BeginGet, SessionInv, TypeOK, Vals
<1>5. s \in Sessions
  BY <1>2, <1>4 DEF Sessions
<1>6. Moves(c, "get", s, NoImage, KeysOf(kind), FALSE)
  <2>1. image[c] = NoImage /\ ~missed[c] /\ missed[c] \in BOOLEAN
    BY ClientTyped DEF BeginGet
  <2>2. image = [image EXCEPT ![c] = NoImage]
    BY <2>1 DEF SessionInv, LocalsTyped
  <2>3. missed = [missed EXCEPT ![c] = FALSE]
    <3>1. missed \in [Clients -> BOOLEAN] /\ missed[c] = FALSE
      BY <2>1, Zenon DEF SessionInv, TypeOK
    <3>2. QED BY <3>1
  <2>4. UNCHANGED <<image, missed>>
    BY DEF BeginGet
  <2>q. QED BY <2>2, <2>3, <2>4, <1>0, <1>1 DEF Moves, BeginGet
<1>7. Seated("get", s, NoImage, KeysOf(kind))
  <2>1. Left(KeysOf(kind)) = KeySet(kind)
    BY <1>2 DEF Left
  <2>2. s.id \notin {Empty, Default}
    BY NvramAssumption DEF SessionInv, TypeOK, Empty, Default
  <2> HIDE DEF s
  <2>3. s.kind = kind /\ s.key = key
    BY DEF s
  <2>q. QED BY <2>1, <2>2, <2>3, <1>2, NoImageYet DEF Seated
<1>8. "get" \in PCs /\ "get" # "set"
  BY DEF PCs
<1>9. SharedTyped'
  <2>1. beside' \in [Clients -> BOOLEAN]
    BY ClientTyped DEF BeginGet, SharedTyped, Open
  <2>q. QED BY <1>4, <2>1, ClientTyped DEF BeginGet, SharedTyped
<1> HIDE DEF s
<1>q. QED BY <1>3, <1>4, <1>5, <1>6, <1>7, <1>8, <1>9, NoImageYet, ClientTyped, OneMoves

(* A key k is read, now or after it was initialised. *)
LEMMA SessionReads ==
  ASSUME SessionInv, NEW c \in Clients, pc[c] \in Getting, todo[c] # <<>>,
         UNCHANGED <<store, flash, applied, session, missed, beside, spoilt, unsaved, sessions>>,
         image' = [image EXCEPT ![c] = WithKey(@, Head(todo[c]), store[Head(todo[c])])],
         todo' = [todo EXCEPT ![c] = Tail(@)],
         pc' = [pc EXCEPT ![c] = "get"]
  PROVE  SessionInv'
<1> DEFINE k == Head(todo[c])
           im == WithKey(image[c], k, store[k])
           rest == Tail(todo[c])
<1>0. Seated(pc[c], session[c], image[c], todo[c]) /\ "get" \in PCs /\ "get" # "set"
  BY ClientTyped DEF Getting, PCs
<1>1. /\ Left(Tail(todo[c])) = Left(todo[c]) \ {k} /\ k \in Left(todo[c]) /\ k \in Keys
      /\ Tail(todo[c]) \in Seq(Keys)
      /\ \A i, j \in 1 .. Len(Tail(todo[c])) : Tail(todo[c])[i] = Tail(todo[c])[j] => i = j
  BY <1>0, ClientTyped, PopLeft DEF Seated
<1>2. store[k] \in Vals
  BY <1>1, ClientTyped
<1>3. im \in Images /\ DOMAIN im = {k} \cup DOMAIN image[c]
  BY <1>1, <1>2, ClientTyped, Extended
<1>4. Moves(c, "get", session[c], im, rest, missed[c])
  BY DEF Moves, SessionInv, LocalsTyped, TypeOK
<1>5. Seated("get", session[c], im, rest)
  BY <1>0, <1>1, <1>3 DEF Seated, Getting
<1>6. SharedTyped' /\ session[c] \in Sessions /\ missed[c] \in BOOLEAN
  BY ClientTyped DEF SharedTyped
<1>7. rest \in Seq(Keys)
  BY <1>1
<1> HIDE DEF im, rest
<1>q. QED BY <1>0, <1>3, <1>4, <1>5, <1>6, <1>7, OneMoves

LEMMA SessionGetKey ==
  ASSUME SessionInv, NEW c \in Clients, GetKey(c)
  PROVE  SessionInv'
<1>1. CASE store[Head(todo[c])] = Empty /\ session[c].kind \in Defaulted
  <2>1. Moves(c, "default", session[c], image[c], todo[c], missed[c])
    BY <1>1 DEF GetKey, Moves, SessionInv, LocalsTyped, TypeOK
  <2>2. Seated("default", session[c], image[c], todo[c])
    BY ClientTyped DEF GetKey, Seated, Getting
  <2>3. "default" \in PCs /\ "default" # "set" /\ "default" # "idle" /\ SharedTyped'
    BY ClientTyped DEF PCs, GetKey, SharedTyped
  <2>q. QED BY <2>1, <2>2, <2>3, ClientTyped, OneMoves
<1>2. CASE ~(store[Head(todo[c])] = Empty /\ session[c].kind \in Defaulted)
  <2>1. pc' = [pc EXCEPT ![c] = "get"]
    BY <1>2 DEF GetKey, SessionInv, TypeOK
  <2>q. QED BY <1>2, <2>1, SessionReads DEF GetKey, Getting
<1>q. QED BY <1>1, <1>2

LEMMA SessionSetDefault ==
  ASSUME SessionInv, NEW c \in Clients, SetDefault(c)
  PROVE  SessionInv'
<1>1. Moves(c, "reread", session[c], image[c], todo[c], missed[c])
  BY DEF SetDefault, Moves, SessionInv, LocalsTyped, TypeOK
<1>2. Seated("reread", session[c], image[c], todo[c])
  BY ClientTyped DEF SetDefault, Seated, Getting
<1>3. "reread" \in PCs /\ "reread" # "set" /\ "reread" # "idle"
  BY DEF PCs
<1>4. Default \in Vals
  BY NvramAssumption DEF Default, Vals
<1>5. store' \in [Keys -> Vals]
  BY <1>4, ClientTyped DEF SetDefault
<1>6. SharedTyped'
  BY <1>5, ClientTyped DEF SetDefault, SharedTyped
<1>q. QED BY <1>1, <1>2, <1>3, <1>6, ClientTyped, OneMoves

LEMMA SessionReread ==
  ASSUME SessionInv, NEW c \in Clients, Reread(c)
  PROVE  SessionInv'
<1>1. pc[c] \in Getting /\ todo[c] # <<>>
  BY ClientTyped DEF Reread, Seated, Getting
<1>q. QED BY <1>1, SessionReads DEF Reread

LEMMA SessionShow ==
  ASSUME SessionInv, NEW c \in Clients, Show(c)
  PROVE  SessionInv'
<1>1. beside' \in [Clients -> BOOLEAN]
  BY ClientTyped DEF Show, Leave, SharedTyped
<1>2. SharedTyped'
  BY <1>1, ClientTyped DEF Show, SharedTyped
<1>q. QED BY <1>2, Leaves DEF Show

LEMMA SessionEdit ==
  ASSUME SessionInv, NEW c \in Clients, Edit(c)
  PROVE  SessionInv'
<1> DEFINE s == session[c]
           im == [image[c] EXCEPT ![s.key] = s.id]
<1>0. Seated(pc[c], s, image[c], todo[c]) /\ pc[c] = "get" /\ todo[c] = <<>>
  BY ClientTyped DEF Edit
<1>1. DOMAIN image[c] = KeySet(s.kind) /\ s.kind \in Kinds
  BY <1>0, NothingLeft DEF Seated, Getting
<1>2. s.id \in Vals /\ image[c] \in Images
  BY ClientTyped DEF Sessions
<1>3. im \in Images /\ DOMAIN im = KeySet(s.kind)
  BY <1>1, <1>2 DEF Images
<1>4. /\ s.kind \in AllKinds /\ KeySet(s.kind) \subseteq Keys
      /\ KeysOf(s.kind) \in Seq(AllKeys)
      /\ KeySet(s.kind) = {KeysOf(s.kind)[i] : i \in 1 .. Len(KeysOf(s.kind))}
      /\ \A i, j \in 1 .. Len(KeysOf(s.kind)) : KeysOf(s.kind)[i] = KeysOf(s.kind)[j] => i = j
  BY <1>1, KeysAreKeys, KeysOfKind, KeySetOfKind
<1>5. KeysOf(s.kind) \in Seq(Keys) /\ Left(KeysOf(s.kind)) = KeySet(s.kind)
  BY <1>4 DEF Left
<1>6. Moves(c, "set", s, im, KeysOf(s.kind), missed[c])
  BY DEF Edit, Moves, SessionInv, LocalsTyped, TypeOK
<1>7. Seated("set", s, im, KeysOf(s.kind))
  BY <1>0, <1>4, <1>5 DEF Seated, Getting
<1>8. "set" \in PCs /\ "set" # "idle" /\ SharedTyped'
  BY ClientTyped DEF PCs, Edit, SharedTyped
<1> HIDE DEF im
<1>q. QED BY <1>3, <1>5, <1>6, <1>7, <1>8, ClientTyped, OneMoves

LEMMA SessionSetKey ==
  ASSUME SessionInv, NEW c \in Clients, SetKey(c)
  PROVE  SessionInv'
<1> DEFINE k == Head(todo[c])
           rest == Tail(todo[c])
<1>0. /\ Seated("set", session[c], image[c], todo[c])
      /\ DOMAIN image[c] = KeySet(session[c].kind)
  BY ClientTyped DEF SetKey
<1>1. /\ Left(Tail(todo[c])) = Left(todo[c]) \ {k} /\ k \in Left(todo[c]) /\ k \in Keys
      /\ Tail(todo[c]) \in Seq(Keys)
      /\ \A i, j \in 1 .. Len(Tail(todo[c])) : Tail(todo[c])[i] = Tail(todo[c])[j] => i = j
  BY <1>0, ClientTyped, PopLeft DEF SetKey, Seated
<1>2. image[c][k] \in Vals
  BY <1>0, <1>1, ClientTyped, ImageTyped DEF Seated
<1>3. store' \in [Keys -> Vals]
  BY <1>1, <1>2, ClientTyped DEF SetKey
<1>4. PICK m \in BOOLEAN : missed' = [missed EXCEPT ![c] = m]
  <2>1. CASE UNCHANGED missed
    BY <2>1, ClientTyped DEF SessionInv, TypeOK
  <2>2. CASE missed' = [missed EXCEPT ![c] = TRUE]
    BY <2>2
  <2>q. QED BY <2>1, <2>2 DEF SetKey
<1>5. Moves(c, "set", session[c], image[c], rest, m)
  BY <1>4 DEF SetKey, Moves, SessionInv, LocalsTyped, TypeOK
<1>6. Seated("set", session[c], image[c], rest)
  BY <1>0, <1>1, <1>4 DEF Seated, Getting
<1>7. "set" \in PCs /\ "set" # "idle"
  BY DEF PCs
<1>8. SharedTyped' /\ session[c] \in Sessions /\ image[c] \in Images
  BY <1>3, ClientTyped DEF SetKey, SharedTyped
<1>9. rest \in Seq(Keys)
  BY <1>1
<1> HIDE DEF rest
<1>q. QED BY <1>0, <1>3, <1>5, <1>6, <1>7, <1>8, <1>9, OneMoves

LEMMA SessionEndSet ==
  ASSUME SessionInv, NEW c \in Clients, EndSet(c)
  PROVE  SessionInv'
<1>1. flash' \in [Keys -> Vals] /\ unsaved' \in BOOLEAN
  BY ClientTyped DEF EndSet, Commit, SharedTyped
<1>2. DOMAIN applied' \subseteq Keys /\ spoilt' \in BOOLEAN
  <2>1. CASE session[c].kind = "VLAN_PORT"
    BY <2>1, ClientTyped DEF EndSet, PutToWork, SharedTyped
  <2>2. CASE session[c].kind # "VLAN_PORT"
    BY <2>2, ClientTyped DEF EndSet, PutToWork, SharedTyped
  <2>q. QED BY <2>1, <2>2
<1>3. Leave(c) /\ UNCHANGED <<store, sessions>>
  BY DEF EndSet
<1>4. beside' \in [Clients -> BOOLEAN]
  BY <1>3, ClientTyped DEF Leave, SharedTyped
<1>5. SharedTyped'
  BY <1>1, <1>2, <1>3, <1>4, ClientTyped DEF SharedTyped
<1>q. QED BY <1>3, <1>5, Leaves

LEMMA SessionDie ==
  ASSUME SessionInv, NEW c \in Clients, Die(c)
  PROVE  SessionInv'
<1>1. beside' \in [Clients -> BOOLEAN] /\ unsaved' \in BOOLEAN
  BY ClientTyped DEF Die, Leave, SharedTyped
<1>2. SharedTyped'
  BY <1>1, ClientTyped DEF Die, SharedTyped
<1>q. QED BY <1>2, Leaves DEF Die

LEMMA SessionRestart ==
  ASSUME SessionInv, Restart
  PROVE  SessionInv'
<1>1. NoSession \in Sessions /\ <<>> \in Seq(Keys)
  BY NvramAssumption DEF NoSession, Sessions, Vals
<1>2. LocalsTyped'
  BY <1>1, NoImageYet DEF Restart, LocalsTyped
<1>3. NoSession.id \in Vals
  BY NvramAssumption DEF NoSession, Vals
<1>4. TypeOK'
  BY <1>1, <1>3, NoImageYet DEF Restart, SessionInv, TypeOK
<1>5. InSession'
  BY DEF Restart, InSession
<1>q. QED BY <1>2, <1>4, <1>5 DEF SessionInv

LEMMA SessionNext == SessionInv /\ [Next]_vars => SessionInv'
<1> SUFFICES ASSUME SessionInv, [Next]_vars PROVE SessionInv'
  OBVIOUS
<1>2. CASE UNCHANGED vars
  BY <1>2 DEF vars, SessionInv, TypeOK, LocalsTyped, InSession
<1>3. CASE Finished
  BY <1>2, <1>3 DEF Finished
<1>q. QED
  BY <1>2, <1>3, SessionBegin, SessionGetKey, SessionSetDefault, SessionReread, SessionShow,
     SessionEdit, SessionSetKey, SessionEndSet, SessionDie, SessionRestart DEF Next

(* Type correctness, and of every session that its image is what it read   *)
(* so far and its list what is left (cli_nvram_conf_get and _set).         *)
THEOREM NvramTypeCorrect == Spec => [](TypeOK /\ LocalsTyped /\ InSession)
<1>1. SessionInv => TypeOK /\ LocalsTyped /\ InSession
  BY DEF SessionInv
<1>q. QED BY <1>1, SessionInit, SessionNext, PTL DEF Spec

-------------------------------------------------------------------------------
(* Sessions that had no other of their kind beside them *)

(* They have no key in common with any other open session. *)
LEMMA KeysOfOthers ==
  ASSUME SessionInv, Apart, NEW c \in Clients, NEW d \in Clients, c # d,
         pc[c] # "idle", pc[d] # "idle", ~beside[d]
  PROVE  KeySet(session[c].kind) \cap KeySet(session[d].kind) = {}
<1>1. session[c].kind \in AllKinds /\ session[d].kind \in AllKinds
  BY ClientTyped, KeysAreKeys DEF Seated
<1>2. session[c].kind # session[d].kind
  BY DEF Apart
<1>q. QED BY <1>1, <1>2, KeysApart

(* Where an image was read from, and where a session looks.                *)
LEMMA LooksAtItsKeys ==
  ASSUME SessionInv, NEW d \in Clients, pc[d] # "idle"
  PROVE  /\ session[d].key \in KeySet(session[d].kind)
         /\ pc[d] \in Getting => DOMAIN image[d] \subseteq KeySet(session[d].kind)
         /\ todo[d] # <<>> => Head(todo[d]) \in KeySet(session[d].kind)
         /\ pc[d] = "default" => todo[d] # <<>>
<1>1. Seated(pc[d], session[d], image[d], todo[d]) /\ todo[d] \in Seq(Keys)
  BY ClientTyped
<1>2. ASSUME todo[d] # <<>> PROVE Head(todo[d]) \in KeySet(session[d].kind)
  BY <1>1, <1>2, PopLeft DEF Seated
<1>q. QED BY <1>1, <1>2 DEF Seated

(* A client moves and writes keys of its session only: that leaves what    *)
(* the others have read as it is.                                          *)
LEMMA OneMovesFresh ==
  ASSUME SessionInv, Apart, ImageFresh, NEW c \in Clients,
         NEW p, NEW s, NEW im, NEW keys, NEW m,
         Moves(c, p, s, im, keys, m),
         \A k \in Keys : store'[k] # store[k] => pc[c] # "idle" /\ k \in KeySet(session[c].kind),
         \A d \in Clients : d # c /\ ~beside'[d] => ~beside[d],
         ~beside'[c] => Fresh(p, s, im, keys, m, store')
  PROVE  ImageFresh'
<1> SUFFICES ASSUME NEW d \in Clients, ~beside'[d]
             PROVE  Fresh(pc'[d], session'[d], image'[d], todo'[d], missed'[d], store')
  BY DEF ImageFresh
<1>1. CASE d = c
  BY <1>1 DEF Moves, SessionInv, TypeOK, LocalsTyped
<1>2. CASE d # c
  <2>1. /\ pc'[d] = pc[d] /\ session'[d] = session[d] /\ image'[d] = image[d]
        /\ todo'[d] = todo[d] /\ missed'[d] = missed[d] /\ ~beside[d]
    BY <1>2 DEF Moves, SessionInv, TypeOK, LocalsTyped
  <2>2. CASE pc[d] = "idle"
    BY <2>1, <2>2 DEF Fresh, Getting
  <2>3. CASE pc[d] # "idle"
    <3>1. \A k \in KeySet(session[d].kind) : store'[k] = store[k]
      BY <1>2, <2>1, <2>3, KeysOfOthers, ClientTyped
    <3>q. QED BY <2>1, <2>3, <3>1, LooksAtItsKeys DEF ImageFresh, Fresh
  <2>q. QED BY <2>2, <2>3
<1>q. QED BY <1>1, <1>2

(* A client that is in a session stays in it, or leaves. *)
LEMMA ApartStays ==
  ASSUME SessionInv, Apart, NEW c \in Clients, pc[c] # "idle", NEW p,
         pc' = [pc EXCEPT ![c] = p], UNCHANGED <<session, beside>>
  PROVE  Apart'
BY DEF Apart, SessionInv, TypeOK

(* It leaves, and nothing is stored meanwhile. *)
LEMMA EditLeaves ==
  ASSUME SessionInv, EditInv, NEW c \in Clients, Leave(c), UNCHANGED store
  PROVE  EditInv'
<1>1. Moves(c, "idle", NoSession, NoImage, <<>>, FALSE)
  BY DEF Leave, Moves
<1>2. \A d \in Clients : d # c => beside'[d] = beside[d]
  BY DEF Leave, SessionInv, TypeOK
<1>3. ImageFresh'
  <2>1. Fresh("idle", NoSession, NoImage, <<>>, FALSE, store')
    BY DEF Fresh, Getting
  <2>q. QED BY <1>1, <1>2, <2>1, OneMovesFresh DEF EditInv
<1>4. Apart'
  BY <1>2 DEF EditInv, Apart, Leave, SessionInv, TypeOK, LocalsTyped
<1>q. QED BY <1>3, <1>4 DEF EditInv

LEMMA EditInit == Init => EditInv
BY DEF Init, EditInv, Apart, ImageFresh, Fresh, Getting

LEMMA EditBegin ==
  ASSUME SessionInv, EditInv, NEW c \in Clients, BeginGet(c)
  PROVE  EditInv'
<1>1. PICK kind \in Kinds :
        /\ todo' = [todo EXCEPT ![c] = KeysOf(kind)]
        /\ beside' = [d \in Clients |-> IF d = c THEN Open(kind) # {}
                                        ELSE beside[d] \/ d \in Open(kind)]
        /\ \E key \in KeySet(kind) :
             session' = [session EXCEPT ![c] = [id |-> sessions + 2, kind |-> kind, key |-> key]]
  BY DEF BeginGet
<1>2. PICK key \in KeySet(kind) :
        session' = [session EXCEPT ![c] = [id |-> sessions + 2, kind |-> kind, key |-> key]]
  BY <1>1
<1> DEFINE s == [id |-> sessions + 2, kind |-> kind, key |-> key]
<1>3. Moves(c, "get", s, NoImage, KeysOf(kind), FALSE) /\ UNCHANGED store /\ pc[c] = "idle"
  <2>1. image[c] = NoImage /\ ~missed[c] /\ missed[c] \in BOOLEAN
    BY ClientTyped DEF BeginGet
  <2>2. image = [image EXCEPT ![c] = NoImage]
    BY <2>1 DEF SessionInv, LocalsTyped
  <2>3. missed = [missed EXCEPT ![c] = FALSE]
    <3>1. missed \in [Clients -> BOOLEAN] /\ missed[c] = FALSE
      BY <2>1, Zenon DEF SessionInv, TypeOK
    <3>2. QED BY <3>1
  <2>4. UNCHANGED <<image, missed>>
    BY DEF BeginGet
  <2>q. QED BY <2>2, <2>3, <2>4, <1>1, <1>2 DEF Moves, BeginGet
<1>4. Apart'
  <2> SUFFICES ASSUME NEW d \in Clients, NEW e \in Clients, pc'[d] # "idle", pc'[e] # "idle",
                      session'[d].kind = session'[e].kind, d # e
               PROVE  beside'[d]
    BY DEF Apart
  <2>1. ASSUME NEW x \in Clients
        PROVE  \/ x = c /\ session'[x].kind = kind
               \/ x # c /\ session'[x] = session[x] /\ pc'[x] = pc[x]
    BY <1>2, <1>3 DEF Moves, SessionInv, TypeOK, LocalsTyped
  <2>2. CASE d = c
    <3>1. e \in Open(kind)
      BY <2>1, <2>2 DEF Open
    <3>q. QED BY <1>1, <2>2, <3>1
  <2>3. CASE d # c /\ e = c
    <3>1. d \in Open(kind)
      BY <2>1, <2>3 DEF Open
    <3>q. QED BY <1>1, <2>3, <3>1
  <2>4. CASE d # c /\ e # c
    <3>1. beside[d]
      BY <2>1, <2>4 DEF EditInv, Apart
    <3>q. QED BY <1>1, <2>4, <3>1
  <2>q. QED BY <2>2, <2>3, <2>4
<1>5. ImageFresh'
  <2>1. Fresh("get", s, NoImage, KeysOf(kind), FALSE, store')
    BY NoImageYet DEF Fresh
  <2>2. \A d \in Clients : d # c /\ ~beside'[d] => ~beside[d]
    BY <1>1
  <2> HIDE DEF s
  <2>q. QED BY <1>3, <2>1, <2>2, OneMovesFresh DEF EditInv
<1>q. QED BY <1>4, <1>5 DEF EditInv

LEMMA EditReads ==
  ASSUME SessionInv, EditInv, NEW c \in Clients, pc[c] \in Getting, todo[c] # <<>>,
         UNCHANGED <<store, session, missed, beside>>,
         image' = [image EXCEPT ![c] = WithKey(@, Head(todo[c]), store[Head(todo[c])])],
         todo' = [todo EXCEPT ![c] = Tail(@)],
         pc' = [pc EXCEPT ![c] = "get"]
  PROVE  EditInv'
<1> DEFINE k == Head(todo[c])
           im == WithKey(image[c], k, store[k])
           rest == Tail(todo[c])
<1>0. pc[c] # "idle"
  BY DEF Getting
<1>1. Apart'
  BY <1>0, ApartStays DEF EditInv
<1>3. Moves(c, "get", session[c], im, rest, missed[c])
  BY DEF Moves, SessionInv, LocalsTyped, TypeOK
<1>4. ASSUME ~beside[c] PROVE Fresh("get", session[c], im, rest, missed[c], store')
  <2>1. \A x \in DOMAIN image[c] : image[c][x] = store[x]
    BY <1>4 DEF EditInv, ImageFresh, Fresh
  <2>2. \A x \in DOMAIN im : im[x] = store[x]
    BY <2>1 DEF WithKey
  <2> HIDE DEF im, rest
  <2>q. QED BY <2>2 DEF Fresh
<1> HIDE DEF im, rest
<1>5. ImageFresh'
  BY <1>3, <1>4, OneMovesFresh DEF EditInv
<1>q. QED BY <1>1, <1>5 DEF EditInv

LEMMA EditGetKey ==
  ASSUME SessionInv, EditInv, NEW c \in Clients, GetKey(c)
  PROVE  EditInv'
<1>1. CASE store[Head(todo[c])] = Empty /\ session[c].kind \in Defaulted
  <2>1. Moves(c, "default", session[c], image[c], todo[c], missed[c])
    BY <1>1 DEF GetKey, Moves, SessionInv, LocalsTyped, TypeOK
  <2>2. ~beside[c] => Fresh("default", session[c], image[c], todo[c], missed[c], store')
    BY <1>1 DEF GetKey, EditInv, ImageFresh, Fresh, Getting
  <2>3. pc[c] # "idle" /\ UNCHANGED <<store, session, beside>>
    BY DEF GetKey
  <2>4. Apart'
    BY <2>1, <2>3, ApartStays DEF EditInv, Moves
  <2>5. ImageFresh'
    BY <2>1, <2>2, <2>3, OneMovesFresh DEF EditInv
  <2>q. QED BY <2>4, <2>5 DEF EditInv
<1>2. CASE ~(store[Head(todo[c])] = Empty /\ session[c].kind \in Defaulted)
  <2>1. pc' = [pc EXCEPT ![c] = "get"]
    BY <1>2 DEF GetKey, SessionInv, TypeOK
  <2>q. QED BY <1>2, <2>1, EditReads DEF GetKey, Getting
<1>q. QED BY <1>1, <1>2

LEMMA EditReread ==
  ASSUME SessionInv, EditInv, NEW c \in Clients, Reread(c)
  PROVE  EditInv'
<1>1. pc[c] \in Getting /\ todo[c] # <<>>
  BY ClientTyped DEF Reread, Seated, Getting
<1>q. QED BY <1>1, EditReads DEF Reread

(* What SetDefault stores: the default, or nothing. *)
LEMMA DefaultWrites ==
  ASSUME SessionInv, NEW c \in Clients, SetDefault(c)
  PROVE  /\ Head(todo[c]) \in KeySet(session[c].kind) /\ Head(todo[c]) \in Left(todo[c])
         /\ \A k \in Keys : store'[k] # store[k] => k = Head(todo[c]) /\ store'[k] = Default
<1>1. /\ Head(todo[c]) \in KeySet(session[c].kind) /\ Head(todo[c]) \in Left(todo[c])
      /\ store \in [Keys -> Vals]
  BY ClientTyped, LooksAtItsKeys, PopLeft DEF SetDefault, Seated
<1>2. \A k \in Keys : store'[k] # store[k] => k = Head(todo[c]) /\ store'[k] = Default
  BY <1>1 DEF SetDefault
<1>q. QED BY <1>1, <1>2

LEMMA EditSetDefault ==
  ASSUME SessionInv, EditInv, NEW c \in Clients, SetDefault(c)
  PROVE  EditInv'
<1> DEFINE k == Head(todo[c])
<1>0. pc[c] = "default" /\ UNCHANGED <<session, beside>>
  BY DEF SetDefault
<1>1. Moves(c, "reread", session[c], image[c], todo[c], missed[c])
  BY DEF SetDefault, Moves, SessionInv, LocalsTyped, TypeOK
<1>2. /\ k \in KeySet(session[c].kind) /\ k \in Left(todo[c])
      /\ DOMAIN image[c] = KeySet(session[c].kind) \ Left(todo[c])
      /\ KeySet(session[c].kind) \subseteq Keys
  BY <1>0, ClientTyped, DefaultWrites DEF Seated, Getting
<1>4. ASSUME ~beside[c] PROVE Fresh("reread", session[c], image[c], todo[c], missed[c], store')
  <2>1. \A x \in DOMAIN image[c] : image[c][x] = store[x] /\ store'[x] = store[x]
    BY <1>0, <1>2, <1>4, DefaultWrites DEF EditInv, ImageFresh, Fresh, Getting
  <2>q. QED BY <2>1 DEF Fresh
<1>5. \A x \in Keys : store'[x] # store[x] => x = k
  BY DefaultWrites
<1> HIDE DEF k
<1>6. ImageFresh'
  BY <1>0, <1>1, <1>2, <1>4, <1>5, OneMovesFresh DEF EditInv
<1>7. Apart'
  BY <1>0, <1>1, ApartStays DEF EditInv, Moves
<1>q. QED BY <1>6, <1>7 DEF EditInv

LEMMA EditEdit ==
  ASSUME SessionInv, EditInv, NEW c \in Clients, Edit(c)
  PROVE  EditInv'
<1> DEFINE s == session[c]
           im == [image[c] EXCEPT ![s.key] = s.id]
<1>0. pc[c] = "get" /\ todo[c] = <<>> /\ UNCHANGED <<store, session, beside>>
  BY DEF Edit
<1>1. DOMAIN image[c] = KeySet(s.kind) /\ s.key \in KeySet(s.kind)
  BY <1>0, ClientTyped, NothingLeft DEF Seated, Getting
<1>2. Moves(c, "set", s, im, KeysOf(s.kind), missed[c])
  BY DEF Edit, Moves, SessionInv, LocalsTyped, TypeOK
<1>3. Left(KeysOf(s.kind)) = KeySet(s.kind)
  BY <1>0, ClientTyped, KeysAreKeys, KeySetOfKind DEF Seated, Left
<1>5. ASSUME ~beside[c] PROVE Fresh("set", s, im, KeysOf(s.kind), missed[c], store')
  <2>1. \A k \in KeySet(s.kind) : image[c][k] = store[k]
    BY <1>0, <1>1, <1>5 DEF EditInv, ImageFresh, Fresh, Getting
  <2>q. QED BY <1>0, <1>1, <1>3, <2>1 DEF Fresh, Getting
<1> HIDE DEF im
<1>6. ImageFresh'
  BY <1>0, <1>2, <1>5, OneMovesFresh DEF EditInv
<1>7. Apart'
  BY <1>0, <1>2, ApartStays DEF EditInv, Moves
<1>q. QED BY <1>6, <1>7 DEF EditInv

(* What a write of one key does to what is stored: it changes that key, or *)
(* nothing.  Without a session beside it, a key the session does not       *)
(* change is written as it is.                                             *)
LEMMA SetKeyWrites ==
  ASSUME SessionInv, EditInv, NEW c \in Clients, SetKey(c)
  PROVE  /\ \A k \in Keys : store'[k] # store[k] => k = Head(todo[c])
         /\ ~beside[c] =>
              /\ \A k \in Keys : store'[k] # store[k] =>
                   k = session[c].key /\ store'[k] = session[c].id
              /\ ~missed'[c] => store'[Head(todo[c])] = image[c][Head(todo[c])] /\ ~missed[c]
              /\ image[c][session[c].key] = session[c].id
<1> DEFINE k == Head(todo[c])
<1>1. /\ k \in KeySet(session[c].kind) /\ KeySet(session[c].kind) \subseteq Keys
      /\ store \in [Keys -> Vals] /\ missed \in [Clients -> BOOLEAN]
  BY ClientTyped, LooksAtItsKeys DEF SetKey, SessionInv, TypeOK
<1>2. store' \in [Keys -> Vals] /\ store' \in {store, [store EXCEPT ![k] = image[c][k]]}
  BY SessionSetKey DEF SessionInv, TypeOK, SetKey
<1>3. \A x \in Keys : store'[x] # store[x] => x = k /\ store'[x] = image[c][x]
  BY <1>1, <1>2
<1>4. ASSUME ~beside[c]
      PROVE  /\ \A x \in Keys : store'[x] # store[x] =>
                  x = session[c].key /\ store'[x] = session[c].id
             /\ ~missed'[c] => store'[k] = image[c][k] /\ ~missed[c]
             /\ image[c][session[c].key] = session[c].id
  <2>1. /\ image[c][session[c].key] = session[c].id
        /\ \A x \in KeySet(session[c].kind) : x # session[c].key => store[x] = image[c][x]
    BY <1>4 DEF SetKey, EditInv, ImageFresh, Fresh
  <2>2. \A x \in Keys : store'[x] # store[x] => x = session[c].key /\ store'[x] = session[c].id
    BY <1>1, <1>3, <2>1
  <2>3. CASE store' = [store EXCEPT ![k] = image[c][k]] /\ UNCHANGED missed
    BY <1>1, <2>1, <2>2, <2>3
  <2>4. CASE missed' = [missed EXCEPT ![c] = TRUE]
    BY <1>1, <2>1, <2>2, <2>4
  <2>q. QED BY <2>3, <2>4 DEF SetKey
<1>q. QED BY <1>3, <1>4

LEMMA EditSetKey ==
  ASSUME SessionInv, EditInv, NEW c \in Clients, SetKey(c)
  PROVE  EditInv'
<1> DEFINE k == Head(todo[c])
           s == session[c]
           rest == Tail(todo[c])
<1>0. /\ pc[c] = "set" /\ todo[c] # <<>> /\ UNCHANGED <<session, pc, image, beside>>
      /\ todo' = [todo EXCEPT ![c] = Tail(@)]
  BY DEF SetKey
<1>1. /\ Left(rest) = Left(todo[c]) \ {k} /\ s.key \in KeySet(s.kind)
      /\ DOMAIN image[c] = KeySet(s.kind) /\ KeySet(s.kind) \subseteq Keys
      /\ missed[c] \in BOOLEAN /\ k \in KeySet(s.kind)
  BY <1>0, ClientTyped, PopLeft, LooksAtItsKeys DEF Seated
<1>2. PICK m \in BOOLEAN : missed' = [missed EXCEPT ![c] = m] /\ missed'[c] = m
  <2>1. CASE UNCHANGED missed
    BY <1>1, <2>1 DEF SessionInv, TypeOK
  <2>2. CASE missed' = [missed EXCEPT ![c] = TRUE]
    BY <2>2 DEF SessionInv, TypeOK
  <2>q. QED BY <2>1, <2>2 DEF SetKey
<1>3. Moves(c, "set", s, image[c], rest, m)
  BY <1>0, <1>2 DEF Moves, SessionInv, LocalsTyped, TypeOK
<1>4. ASSUME ~beside[c] PROVE Fresh("set", s, image[c], rest, m, store')
  <2>0. /\ \A x \in Keys : store'[x] # store[x] => x = s.key /\ x = k /\ store'[x] = s.id
        /\ ~m => store'[k] = image[c][k] /\ ~missed[c]
        /\ image[c][s.key] = s.id
    BY <1>2, <1>4, SetKeyWrites
  <2>1. \A x \in KeySet(s.kind) : x # s.key => store'[x] = image[c][x]
    BY <1>0, <1>1, <1>4, <2>0 DEF EditInv, ImageFresh, Fresh
  <2>2. ASSUME ~m, s.key \notin Left(rest) PROVE store'[s.key] = s.id
    <3>1. CASE s.key = k
      BY <2>0, <2>2, <3>1
    <3>2. CASE s.key # k
      <4>1. store[s.key] = s.id
        BY <1>0, <1>1, <1>4, <2>0, <2>2, <3>2 DEF EditInv, ImageFresh, Fresh
      <4>q. QED BY <1>1, <2>0, <3>2, <4>1
    <3>q. QED BY <3>1, <3>2
  <2>q. QED BY <2>0, <2>1, <2>2 DEF Fresh, Getting
<1>5. \A x \in Keys : store'[x] # store[x] => pc[c] # "idle" /\ x \in KeySet(session[c].kind)
  BY <1>0, <1>1, SetKeyWrites
<1> HIDE DEF rest
<1>6. ImageFresh'
  BY <1>0, <1>3, <1>4, <1>5, OneMovesFresh DEF EditInv
<1>7. Apart'
  BY <1>0, <1>3, ApartStays DEF EditInv, Moves
<1>q. QED BY <1>6, <1>7 DEF EditInv

LEMMA EditRestart ==
  ASSUME Restart
  PROVE  EditInv'
BY DEF Restart, EditInv, Apart, ImageFresh, Fresh, Getting

LEMMA EditNext == SessionInv /\ EditInv /\ [Next]_vars => EditInv'
<1> SUFFICES ASSUME SessionInv, EditInv, [Next]_vars PROVE EditInv'
  OBVIOUS
<1>1. CASE UNCHANGED vars
  BY <1>1 DEF vars, EditInv, Apart, ImageFresh
<1>2. CASE Finished
  BY <1>1, <1>2 DEF Finished
<1>3. ASSUME NEW c \in Clients, Show(c) \/ EndSet(c) \/ Die(c) PROVE EditInv'
  BY <1>3, EditLeaves DEF Show, EndSet, Die
<1>q. QED
  BY <1>1, <1>2, <1>3, EditRestart, EditBegin, EditGetKey, EditSetDefault, EditReread, EditEdit,
     EditSetKey DEF Next

(* What a session holds agrees with what is stored while it reads and      *)
(* while it writes, as long as no session of its kind was open beside it:  *)
(* the others are at keys of other kinds (nvram_conf.c:1011).              *)
THEOREM EditInvCorrect == Spec => []EditInv
BY SessionInit, EditInit, SessionNext, EditNext, PTL DEF Spec

-------------------------------------------------------------------------------
(* What sessions keep *)

LEMMA StepKeepsEdits ==
  ASSUME SessionInv, EditInv, [Next]_vars, NEW k \in Keys, store'[k] # store[k]
  PROVE  \/ store' = flash
         \/ store[k] = Empty /\ store'[k] = Default
         \/ \E c \in Clients : store'[k] = session[c].id /\ session[c].key = k
         \/ \E c \in Clients : beside[c] /\ todo[c] # <<>> /\ Head(todo[c]) = k
<1>1. CASE Restart
  BY <1>1 DEF Restart
<1>2. ASSUME NEW c \in Clients, SetKey(c)
      PROVE  \/ store'[k] = session[c].id /\ session[c].key = k
             \/ beside[c] /\ todo[c] # <<>> /\ Head(todo[c]) = k
  <2>1. CASE beside[c]
    BY <1>2, <2>1, SetKeyWrites DEF SetKey
  <2>2. CASE ~beside[c]
    BY <1>2, <2>2, SetKeyWrites
  <2>q. QED BY <2>1, <2>2
<1>3. ASSUME NEW c \in Clients, SetDefault(c)
      PROVE  \/ store[k] = Empty /\ store'[k] = Default
             \/ beside[c] /\ todo[c] # <<>> /\ Head(todo[c]) = k
  <2>1. k = Head(todo[c]) /\ store'[k] = Default /\ todo[c] # <<>>
    BY <1>3, DefaultWrites, LooksAtItsKeys DEF SetDefault
  <2>2. CASE ~beside[c]
    BY <1>3, <2>1, <2>2 DEF SetDefault, EditInv, ImageFresh, Fresh
  <2>q. QED BY <2>1, <2>2
<1>4. ASSUME NEW c \in Clients,
             \/ BeginGet(c) \/ GetKey(c) \/ Reread(c) \/ Show(c) \/ Edit(c) \/ EndSet(c) \/ Die(c)
      PROVE  FALSE
  BY <1>4 DEF BeginGet, GetKey, Reread, Show, Edit, EndSet, Die
<1>5. CASE Finished \/ UNCHANGED vars
  BY <1>5 DEF Finished, vars
<1>q. QED BY <1>1, <1>2, <1>3, <1>4, <1>5 DEF Next

(* A session that had no other of its kind beside it loses nobody's        *)
(* change, though it writes all keys of its kind back, whatever requests   *)
(* fail and wherever programs die (cli_nvram_conf_set, nvram_conf.c:1011). *)
THEOREM EditsKeptCorrect == Spec => EditsKept
<1> DEFINE Inv == SessionInv /\ EditInv
<1>1. Init => Inv
  BY SessionInit, EditInit
<1>2. Inv /\ [Next]_vars => Inv'
  BY SessionNext, EditNext
<1>3. Inv /\ [Next]_vars =>
        [\A k \in Keys : store'[k] # store[k] =>
           \/ store' = flash
           \/ store[k] = Empty /\ store'[k] = Default
           \/ \E c \in Clients : store'[k] = session[c].id /\ session[c].key = k
           \/ \E c \in Clients : beside[c] /\ todo[c] # <<>> /\ Head(todo[c]) = k]_store
  BY StepKeepsEdits
<1> HIDE DEF Inv
<1>q. QED BY <1>1, <1>2, <1>3, PTL DEF Spec, EditsKept

(* The key of the PoE configuration is of no other kind. *)
LEMMA PoeKey ==
  ASSUME NEW kind \in AllKinds
  PROVE  "poe_port_conf" \in KeySet(kind) <=> kind = "POE_CONF"
<1>1. "poe_port_conf" \in KeySet("POE_CONF")
  <2>1. KeysOf("POE_CONF") = << "poe_port_conf" >>
    BY DEF KeysOf
  <2>2. 1 \in DOMAIN KeysOf("POE_CONF") /\ KeysOf("POE_CONF")[1] = "poe_port_conf"
    BY <2>1
  <2>q. QED BY <2>2 DEF KeySet
<1>2. "POE_CONF" \in AllKinds
  BY DEF AllKinds
<1>q. QED BY <1>1, <1>2, KeysApart

LEMMA PoeInit == Init => PoeSurvives
BY PoeKey, KeysAreKeys DEF Init, PoeSurvives

LEMMA PoeStep == SessionInv /\ EditInv /\ PoeSurvives /\ [Next]_vars => PoeSurvives'
<1> SUFFICES ASSUME SessionInv, EditInv, PoeSurvives, [Next]_vars, "POE_CONF" \in Kinds,
                    \A d \in Clients : pc'[d] = "set" => session'[d].kind # "POE_CONF"
             PROVE  LET k == "poe_port_conf"
                    IN flash'[k] = store'[k] \/ store'[k] = Default \/ unsaved'
  BY DEF PoeSurvives
<1> DEFINE k == "poe_port_conf"
           Nobody == \A d \in Clients : pc[d] = "set" => session[d].kind # "POE_CONF"
<1>0. k \in Keys
  BY PoeKey, KeysAreKeys
<1>1. Nobody => flash[k] = store[k] \/ store[k] = Default \/ unsaved
  BY DEF PoeSurvives
<1>2. ASSUME NEW c \in Clients, BeginGet(c) \/ GetKey(c) \/ Reread(c) \/ Show(c) \/ Edit(c)
      PROVE  UNCHANGED <<store, flash, unsaved>> /\ Nobody
  <2>1. UNCHANGED <<store, flash, unsaved>> /\ pc[c] # "set"
    BY <1>2, ClientTyped DEF BeginGet, GetKey, Reread, Show, Edit
  <2>2. \A d \in Clients : d # c => pc'[d] = pc[d] /\ session'[d] = session[d]
    BY <1>2 DEF BeginGet, GetKey, Reread, Show, Edit, Leave, SessionInv, TypeOK, LocalsTyped
  <2>q. QED BY <2>1, <2>2
<1>3. ASSUME NEW c \in Clients, SetDefault(c)
      PROVE  /\ UNCHANGED <<flash, unsaved>> /\ Nobody
             /\ store'[k] = store[k] \/ store'[k] = Default
  <2>1. UNCHANGED <<flash, unsaved>>
    BY <1>3 DEF SetDefault
  <2>2. Nobody
    BY <1>3 DEF SetDefault, SessionInv, TypeOK
  <2>3. store'[k] = store[k] \/ store'[k] = Default
    BY <1>0, <1>3, DefaultWrites
  <2>q. QED BY <2>1, <2>2, <2>3
<1>4. ASSUME NEW c \in Clients, SetKey(c)
      PROVE  UNCHANGED <<flash, unsaved>> /\ Nobody /\ store'[k] = store[k]
  <2>1. UNCHANGED <<flash, unsaved, pc, session>> /\ pc[c] = "set"
    BY <1>4 DEF SetKey
  <2>2. session[c].kind \in AllKinds /\ session[c].kind # "POE_CONF"
    BY <2>1, ClientTyped, KeysAreKeys DEF Seated
  <2>3. Head(todo[c]) # k
    BY <1>4, <2>1, <2>2, LooksAtItsKeys, PoeKey DEF SetKey
  <2>q. QED BY <1>0, <1>4, <2>1, <2>3, SetKeyWrites
<1>5. ASSUME NEW c \in Clients, EndSet(c) \/ Die(c), session[c].kind # "POE_CONF"
      PROVE  UNCHANGED <<store, flash, unsaved>> /\ Nobody
  <2>1. UNCHANGED <<store, flash, unsaved>>
    BY <1>5 DEF EndSet, Die, Commit, Committed, SessionInv, TypeOK
  <2>2. \A d \in Clients : d # c => pc'[d] = pc[d] /\ session'[d] = session[d]
    BY <1>5 DEF EndSet, Die, Leave, SessionInv, TypeOK, LocalsTyped
  <2>q. QED BY <1>5, <2>1, <2>2
<1>6. ASSUME NEW c \in Clients, EndSet(c), session[c].kind = "POE_CONF"
      PROVE  flash'[k] = store'[k] \/ unsaved'
  BY <1>6 DEF EndSet, Commit, Committed
<1>7. ASSUME NEW c \in Clients, Die(c), session[c].kind = "POE_CONF"
      PROVE  unsaved' \/ (UNCHANGED <<store, flash, unsaved>> /\ Nobody)
  <2>1. CASE pc[c] = "set"
    BY <1>7, <2>1 DEF Die, Committed
  <2>2. CASE pc[c] # "set"
    <3>1. \A d \in Clients : d # c => pc'[d] = pc[d] /\ session'[d] = session[d]
      BY <1>7 DEF Die, Leave, SessionInv, TypeOK, LocalsTyped
    <3>2. UNCHANGED <<store, flash, unsaved>>
      BY <1>7, <2>2 DEF Die, SessionInv, TypeOK
    <3>q. QED BY <2>2, <3>1, <3>2
  <2>q. QED BY <2>1, <2>2
<1>8. CASE Restart
  BY <1>8 DEF Restart
<1>9. CASE Finished \/ UNCHANGED vars
  BY <1>1, <1>9 DEF Finished, vars
<1>10. ASSUME NEW c \in Clients,
              \/ BeginGet(c) \/ GetKey(c) \/ SetDefault(c) \/ Reread(c) \/ Show(c)
              \/ Edit(c) \/ SetKey(c) \/ EndSet(c) \/ Die(c)
       PROVE  flash'[k] = store'[k] \/ store'[k] = Default \/ unsaved'
  <2> HIDE DEF Nobody, k
  <2>q. QED BY <1>1, <1>2, <1>3, <1>4, <1>5, <1>6, <1>7, <1>10
<1>q. QED BY <1>8, <1>9, <1>10 DEF Next

(* A change of the PoE configuration that was made survives a restart,     *)
(* unless its commit failed or was never sent (nvram_conf.c:462-463).      *)
THEOREM PoeSurvivesCorrect == Spec => []PoeSurvives
BY SessionInit, EditInit, PoeInit, SessionNext, EditNext, PoeStep, PTL DEF Spec

(* The VLAN configuration at work is one that a session wrote as a whole,  *)
(* unless that session missed a write or had another of its kind beside it *)
(* (nvram_conf.c:1118-1122).                                               *)
THEOREM AppliedWholeCorrect == Spec => []AppliedWhole
<1>1. Init => AppliedWhole
  BY DEF Init, AppliedWhole
<1>2. SessionInv /\ EditInv /\ AppliedWhole /\ [Next]_vars => AppliedWhole'
  <2> SUFFICES ASSUME SessionInv, EditInv, AppliedWhole, [Next]_vars PROVE AppliedWhole'
    OBVIOUS
  <2>1. ASSUME NEW c \in Clients, EndSet(c), session[c].kind = "VLAN_PORT",
               ~missed[c], ~beside[c]
        PROVE  AppliedWhole'
    <3>1. /\ Seated("set", session[c], image[c], todo[c]) /\ image[c] \in Images
          /\ DOMAIN image[c] = KeySet("VLAN_PORT") /\ pc[c] = "set" /\ todo[c] = <<>>
      BY <2>1, ClientTyped DEF EndSet
    <3>2. \A k \in KeySet("VLAN_PORT") : store[k] = image[c][k]
      BY <2>1, <3>1, NothingLeft DEF EditInv, ImageFresh, Fresh
    <3>3. applied' = [k \in KeySet("VLAN_PORT") |-> store[k]] /\ image[c] \in written'
      BY <2>1 DEF EndSet, PutToWork
    <3>4. image[c] = [k \in KeySet("VLAN_PORT") |-> image[c][k]]
      BY <3>1 DEF Images
    <3>5. applied' = image[c]
      BY <3>2, <3>3, <3>4
    <3>q. QED BY <3>3, <3>5 DEF AppliedWhole
  <2>2. ASSUME NEW c \in Clients, EndSet(c), session[c].kind = "VLAN_PORT",
               missed[c] \/ beside[c]
        PROVE  AppliedWhole'
    BY <2>2 DEF EndSet, PutToWork, AppliedWhole
  <2>3. ASSUME NEW c \in Clients, EndSet(c), session[c].kind # "VLAN_PORT" PROVE AppliedWhole'
    BY <2>3 DEF EndSet, PutToWork, AppliedWhole
  <2>4. ASSUME NEW c \in Clients,
               \/ BeginGet(c) \/ GetKey(c) \/ SetDefault(c) \/ Reread(c) \/ Show(c)
               \/ Edit(c) \/ SetKey(c) \/ Die(c)
        PROVE  AppliedWhole'
    <3>1. UNCHANGED <<applied, written, spoilt>>
      BY <2>4 DEF BeginGet, GetKey, SetDefault, Reread, Show, Edit, SetKey, Die
    <3>q. QED BY <3>1 DEF AppliedWhole
  <2>5. CASE Restart
    BY <2>5 DEF Restart, AppliedWhole
  <2>6. CASE Finished \/ UNCHANGED vars
    BY <2>6 DEF Finished, vars, AppliedWhole
  <2>q. QED BY <2>1, <2>2, <2>3, <2>4, <2>5, <2>6 DEF Next
<1>q. QED BY <1>1, <1>2, SessionInit, EditInit, SessionNext, EditNext, PTL DEF Spec
===============================================================================
