----------------------- MODULE TorrentSettingsProofs -----------------------
(***************************************************************************)
(* Theorems about TorrentSettings, for any texts, any choices the user     *)
(* makes and any number of starts: the session's settings are well typed,  *)
(* and the encryption and the proxy in force were chosen.                  *)
(*                                                                         *)
(* What has been read of a start has been in the table since it began;     *)
(* until it is applied, the session has libtorrent's defaults.             *)
(***************************************************************************)
EXTENDS TorrentSettings, TLAPS

\* What the keys held since the start: what they hold now, and for the
\* pickers nothing but what those offer.
HeldOK ==
  /\ \A key \in Key : table[key] \in held[key]
  /\ \A key \in DOMAIN Offered : held[key] \subseteq Offered[key] \cup {None}

\* What was read has been held.
ReadOK ==
  /\ phase = "reading" =>
       \A i \in 1..(next - 1) : settings[Keys[i]] \in held[Keys[i]]
  /\ phase = "applying" => \A key \in Key : settings[key] \in held[key]

SessionOK ==
  phase \in {"reading", "applying"} /\ session # None => session = Defaults

IInv ==
  /\ TypeOK
  /\ HeldOK
  /\ ReadOK
  /\ SessionOK
  /\ EncryptionWasChosen
  /\ ProxyWasChosen

-----------------------------------------------------------------------------
(* The keys.                                                               *)

LEMMA KeysType ==
  /\ Len(Keys) = 19
  /\ \A i \in 1..19 : Keys[i] \in Key
  /\ \A key \in Key : \E i \in 1..19 : Keys[i] = key
  /\ DOMAIN Offered \subseteq Key
<1>1. Len(Keys) = 19 /\ DOMAIN Keys = 1..19
  BY DEF Keys
<1>2. Key = {Keys[i] : i \in 1..19}
  BY <1>1 DEF Key, ToSet
<1>3. /\ Keys[12] = "encryption_level" /\ Keys[13] = "encryption_incoming"
      /\ Keys[14] = "encryption_outgoing" /\ Keys[15] = "proxy_type"
  BY DEF Keys
<1>4. DOMAIN Offered = {"encryption_incoming", "encryption_outgoing",
                        "encryption_level", "proxy_type"}
  BY DEF Offered
<1>5. DOMAIN Offered \subseteq Key
  BY <1>2, <1>3, <1>4
<1>6. QED
  BY <1>1, <1>2, <1>5

-----------------------------------------------------------------------------
(* The extractors, on a map whose values all arrive in quotes.             *)

LEMMA Extracted ==
  ASSUME NEW map \in [Key -> Texts \cup {None}], NEW key \in Key,
         NEW number, NEW default \in BOOLEAN
  PROVE  /\ JsonExtractString(Json(map), key) =
              IF map[key] = None THEN "" ELSE map[key]
         /\ JsonExtractString(Json(map), key) \in Texts \cup {""}
         /\ JsonExtractInt(Json(map), key, number) \in {0, number}
         /\ JsonExtractBool(Json(map), key, default) = default
<1>1. key \in DOMAIN Json(map) <=> map[key] # None
  BY DEF Json
<1>2. ASSUME map[key] # None
      PROVE  Json(map)[key] = [quoted |-> TRUE, text |-> map[key]]
  BY <1>2 DEF Json
<1>3. JsonExtractString(Json(map), key) =
        IF map[key] = None THEN "" ELSE map[key]
  <2>1. CASE map[key] = None
    BY <1>1, <2>1 DEF JsonExtractString
  <2>2. CASE map[key] # None
    <3>1. /\ key \in DOMAIN Json(map) /\ Json(map)[key].quoted = TRUE
          /\ Json(map)[key].text = map[key]
      BY <1>1, <1>2, <2>2
    <3>2. QED
      BY <2>2, <3>1 DEF JsonExtractString
  <2>3. QED
    BY <2>1, <2>2
<1>4. map[key] \in Texts \cup {None}
  OBVIOUS
<1>5. JsonExtractInt(Json(map), key, number) \in {0, number}
  <2>1. CASE map[key] = None
    BY <1>1, <2>1 DEF JsonExtractInt
  <2>2. CASE map[key] # None
    <3>1. key \in DOMAIN Json(map) /\ Json(map)[key].quoted = TRUE
      BY <1>1, <1>2, <2>2
    <3>2. JsonExtractInt(Json(map), key, number) = 0
      BY <3>1 DEF JsonExtractInt
    <3>3. QED
      BY <3>2
  <2>3. QED
    BY <2>1, <2>2
<1>6. JsonExtractBool(Json(map), key, default) = default
  BY <1>1, <1>2 DEF JsonExtractBool
<1>7. QED
  BY <1>3, <1>4, <1>5, <1>6

LEMMA PolicyType ==
  ASSUME NEW json, NEW direction
  PROVE  EncryptionPolicy(json, direction) \in EncPolicy
BY DEF EncryptionPolicy, PolicyOf, EncPolicy

-----------------------------------------------------------------------------
(* nativeApplySettings.                                                    *)

LEMMA DefaultsType == Defaults \in SessionSettings
BY DEF Defaults, SessionSettings, Port, OutRequests, Login, EncPolicy,
   ProxyType

\* What a whole map makes of the session's settings: they stay well typed,
\* and the encryption and the proxy come from the map alone.
LEMMA Applied ==
  ASSUME NEW map \in [Key -> Texts \cup {None}], NEW s \in SessionSettings
  PROVE  /\ ApplySettings(s, Json(map)) \in SessionSettings
         /\ ApplySettings(s, Json(map)).in_enc_policy
              = EncryptionPolicy(Json(map), "encryption_incoming")
         /\ ApplySettings(s, Json(map)).out_enc_policy
              = EncryptionPolicy(Json(map), "encryption_outgoing")
         /\ ApplySettings(s, Json(map)).proxy_type
              = ProxyTypeOf(JsonExtractString(Json(map), "proxy_type"))
<1> DEFINE json == Json(map)
           type == JsonExtractString(json, "proxy_type")
<1>1. {"max_download_speed", "max_upload_speed", "max_connections",
       "enable_dht", "enable_lsd", "enable_upnp", "enable_nat_pmp",
       "enable_pex", "enable_utp", "random_port", "proxy_type", "proxy_host",
       "proxy_port", "proxy_username", "proxy_password"} \subseteq Key
  <2>1. /\ Keys[1] = "max_download_speed" /\ Keys[2] = "max_upload_speed"
        /\ Keys[3] = "max_connections" /\ Keys[4] = "enable_dht"
        /\ Keys[5] = "enable_lsd" /\ Keys[6] = "enable_upnp"
        /\ Keys[7] = "enable_nat_pmp" /\ Keys[8] = "enable_pex"
        /\ Keys[9] = "enable_utp" /\ Keys[10] = "random_port"
        /\ Keys[15] = "proxy_type" /\ Keys[16] = "proxy_host"
        /\ Keys[17] = "proxy_port" /\ Keys[18] = "proxy_username"
        /\ Keys[19] = "proxy_password"
    BY DEF Keys
  <2>2. QED
    BY <2>1, KeysType
<1>2. /\ JsonExtractInt(json, "max_download_speed", 0) = 0
      /\ JsonExtractInt(json, "max_upload_speed", 0) = 0
      /\ JsonExtractInt(json, "max_connections", 200) \in Nat
      /\ JsonExtractInt(json, "proxy_port", 0) = 0
  <2>1. JsonExtractInt(json, "max_connections", 200) \in {0, 200}
    <3>1. "max_connections" \in Key
      BY <1>1
    <3>2. \A number : JsonExtractInt(json, "max_connections", number)
                        \in {0, number}
      BY <3>1, Extracted
    <3>3. QED
      BY <3>2
  <2>2. \A key \in Key : JsonExtractInt(json, key, 0) = 0
    BY Extracted
  <2>3. QED
    BY <1>1, <2>1, <2>2
<1>3. /\ JsonExtractBool(json, "enable_utp", TRUE) = TRUE
      /\ JsonExtractBool(json, "enable_dht", TRUE) = TRUE
      /\ JsonExtractBool(json, "enable_lsd", TRUE) = TRUE
      /\ JsonExtractBool(json, "enable_upnp", TRUE) = TRUE
      /\ JsonExtractBool(json, "enable_nat_pmp", TRUE) = TRUE
      /\ JsonExtractBool(json, "enable_pex", TRUE) = TRUE
      /\ JsonExtractBool(json, "random_port", TRUE) = TRUE
  BY <1>1, Extracted
<1>4. /\ JsonExtractString(json, "proxy_host") \in Login
      /\ JsonExtractString(json, "proxy_username") \in Login
      /\ JsonExtractString(json, "proxy_password") \in Login
  BY <1>1, Extracted DEF Login
<1>5. /\ EncryptionPolicy(json, "encryption_incoming") \in EncPolicy
      /\ EncryptionPolicy(json, "encryption_outgoing") \in EncPolicy
      /\ ProxyTypeOf(type) \in ProxyType
  BY PolicyType DEF ProxyTypeOf, ProxyType
<1>6. /\ s.proxy_hostname \in Login /\ s.proxy_port \in Port
      /\ s.proxy_username \in Login /\ s.proxy_password \in Login
  BY DEF SessionSettings
<1>7. 0 \in Port /\ 0 * 1024 = 0 /\ 500 \in OutRequests
  BY DEF Port, OutRequests
<1> DEFINE user == JsonExtractString(json, "proxy_username")
           pass == JsonExtractString(json, "proxy_password")
           proxied == type \notin {"", "none"}
           down == JsonExtractInt(json, "max_download_speed", 0) * 1024
           up == JsonExtractInt(json, "max_upload_speed", 0) * 1024
           connections == JsonExtractInt(json, "max_connections", 200)
           utp == JsonExtractBool(json, "enable_utp", TRUE)
           dht == JsonExtractBool(json, "enable_dht", TRUE)
           lsd == JsonExtractBool(json, "enable_lsd", TRUE)
           upnp == JsonExtractBool(json, "enable_upnp", TRUE)
           natpmp == JsonExtractBool(json, "enable_nat_pmp", TRUE)
           requests ==
             IF JsonExtractBool(json, "enable_pex", TRUE) THEN 500 ELSE 50
           listen == IF JsonExtractBool(json, "random_port", TRUE) THEN 0
                     ELSE JsonExtractInt(json, "listening_port", 55623)
           in == EncryptionPolicy(json, "encryption_incoming")
           out == EncryptionPolicy(json, "encryption_outgoing")
           kind == ProxyTypeOf(type)
           host == IF proxied THEN JsonExtractString(json, "proxy_host")
                   ELSE s.proxy_hostname
           port == IF proxied THEN JsonExtractInt(json, "proxy_port", 0)
                   ELSE s.proxy_port
           login == IF proxied /\ user # "" THEN user ELSE s.proxy_username
           secret == IF proxied /\ pass # "" THEN pass ELSE s.proxy_password
<1>8. ApplySettings(s, json) =
        [download_rate_limit |-> down, upload_rate_limit |-> up,
         connections_limit |-> connections, utp |-> utp, dht |-> dht,
         lsd |-> lsd, upnp |-> upnp, natpmp |-> natpmp,
         max_out_request_queue |-> requests, listen_port |-> listen,
         in_enc_policy |-> in, out_enc_policy |-> out, proxy_type |-> kind,
         proxy_hostname |-> host, proxy_port |-> port,
         proxy_username |-> login, proxy_password |-> secret]
  BY DEF ApplySettings
<1>9. /\ down \in Nat /\ up \in Nat /\ connections \in Nat
      /\ utp \in BOOLEAN /\ dht \in BOOLEAN /\ lsd \in BOOLEAN
      /\ upnp \in BOOLEAN /\ natpmp \in BOOLEAN
      /\ requests \in OutRequests /\ listen \in Port
      /\ in \in EncPolicy /\ out \in EncPolicy
      /\ kind \in ProxyType /\ host \in Login /\ port \in Port
      /\ login \in Login /\ secret \in Login
  <2>1. down \in Nat /\ up \in Nat /\ connections \in Nat
    BY <1>2, <1>7
  <2>2. /\ utp \in BOOLEAN /\ dht \in BOOLEAN /\ lsd \in BOOLEAN
        /\ upnp \in BOOLEAN /\ natpmp \in BOOLEAN
    BY <1>3
  <2>3. requests \in OutRequests /\ listen \in Port
    BY <1>3, <1>7
  <2>4. in \in EncPolicy /\ out \in EncPolicy /\ kind \in ProxyType
    BY <1>5
  <2>5. /\ host \in Login /\ port \in Port /\ login \in Login
        /\ secret \in Login
    BY <1>2, <1>4, <1>6, <1>7
  <2> HIDE DEF down, up, connections, utp, dht, lsd, upnp, natpmp, requests,
               listen, in, out, kind, host, port, login, secret
  <2>6. QED
    BY <2>1, <2>2, <2>3, <2>4, <2>5
<1> HIDE DEF down, up, connections, utp, dht, lsd, upnp, natpmp, requests,
             listen, in, out, kind, host, port, login, secret
<1>10. /\ ApplySettings(s, json) \in SessionSettings
       /\ ApplySettings(s, json).in_enc_policy = in
       /\ ApplySettings(s, json).out_enc_policy = out
       /\ ApplySettings(s, json).proxy_type = kind
  BY <1>8, <1>9 DEF SessionSettings
<1>11. QED
  BY <1>10 DEF json, in, out, kind

-----------------------------------------------------------------------------
(* The encryption and the proxy of an applied map were chosen.             *)

LEMMA HeldTexts ==
  ASSUME TypeOK, HeldOK, NEW key \in DOMAIN Offered,
         NEW text \in held[key], text # None
  PROVE  text \in Offered[key] /\ text # ""
<1>1. text \in Offered[key]
  BY DEF HeldOK
<1>2. \A k \in DOMAIN Offered : "" \notin Offered[k]
  BY DEF Offered
<1>3. QED
  BY <1>1, <1>2

LEMMA PolicyChosen ==
  ASSUME TypeOK, HeldOK, \A key \in Key : settings[key] \in held[key],
         NEW direction \in {"encryption_incoming", "encryption_outgoing"}
  PROVE  Chosen(direction, EncryptionPolicy(Json(settings), direction))
<1> DEFINE level == settings["encryption_level"]
           own == settings[direction]
<1>1. /\ "encryption_level" \in DOMAIN Offered
      /\ direction \in DOMAIN Offered
  BY DEF Offered
<1>2. "encryption_level" \in Key /\ direction \in Key
  BY <1>1, KeysType
<1>3. level \in held["encryption_level"] /\ own \in held[direction]
  BY <1>2
<1>4. /\ level # None => level # ""
      /\ own # None => own # ""
  BY <1>1, <1>3, HeldTexts
<1>5. settings \in [Key -> Texts \cup {None}]
  BY DEF TypeOK
<1>6. /\ JsonExtractString(Json(settings), "encryption_level")
           = IF level = None THEN "" ELSE level
      /\ JsonExtractString(Json(settings), direction)
           = IF own = None THEN "" ELSE own
  BY <1>2, <1>5, Extracted
<1>7. PolicyOf("enabled") = "pe_enabled"
  BY DEF PolicyOf
<1> HIDE DEF level, own
<1>8. EncryptionPolicy(Json(settings), direction)
        = PolicyOf(Promised(level, own))
  BY <1>4, <1>6, <1>7 DEF EncryptionPolicy, Promised
<1>9. QED
  BY <1>3, <1>8 DEF Chosen

LEMMA TypeChosen ==
  ASSUME TypeOK, HeldOK, \A key \in Key : settings[key] \in held[key]
  PROVE  \E type \in held["proxy_type"] :
           ProxyTypeOf(JsonExtractString(Json(settings), "proxy_type"))
             = IF type = None THEN "none" ELSE type
<1> DEFINE type == settings["proxy_type"]
<1>1. "proxy_type" \in DOMAIN Offered
  BY DEF Offered
<1>2. "proxy_type" \in Key
  BY <1>1, KeysType
<1>3. type \in held["proxy_type"]
  BY <1>2
<1>4. type # None => type \in {"none", "socks4", "socks5", "http"}
  <2>1. Offered["proxy_type"] = {"none", "socks4", "socks5", "http"}
    BY DEF Offered
  <2>2. QED
    BY <1>1, <1>3, <2>1, HeldTexts
<1>5. settings \in [Key -> Texts \cup {None}]
  BY DEF TypeOK
<1>6. JsonExtractString(Json(settings), "proxy_type")
        = IF type = None THEN "" ELSE type
  BY <1>2, <1>5, Extracted
<1> HIDE DEF type
<1>7. ProxyTypeOf(JsonExtractString(Json(settings), "proxy_type"))
        = IF type = None THEN "none" ELSE type
  BY <1>4, <1>6 DEF ProxyTypeOf
<1>8. QED
  BY <1>3, <1>7

-----------------------------------------------------------------------------
(* The invariant.                                                          *)

LEMMA NoneHeldType ==
  /\ NoSettings \in [Key -> Texts \cup {None}]
  /\ \A values \in [Key -> Texts \cup {None}] :
       /\ HeldNow(values) \in [Key -> SUBSET (Texts \cup {None})]
       /\ \A key \in Key : HeldNow(values)[key] = {values[key]}
BY DEF NoSettings, HeldNow

LEMMA BoundsType == MaxSaves \in Nat /\ MaxStarts \in Nat /\ MaxStarts > 0
<1>1. MaxSaves \in Nat /\ MaxStarts \in Nat \ {0}
  BY Zenon, SettingsAssumption
<1>2. QED
  BY <1>1

LEMMA InitIInv == Init => IInv
<1> SUFFICES ASSUME Init
             PROVE  IInv
  OBVIOUS
<1>1. TypeOK
  <2>1. /\ NoSettings \in [Key -> Texts \cup {None}]
        /\ HeldNow(NoSettings) \in [Key -> SUBSET (Texts \cup {None})]
    BY NoneHeldType
  <2>2. 1 \in 1..Len(Keys)
    BY KeysType
  <2>3. saves \in 0..MaxSaves /\ starts \in 1..MaxStarts
    BY BoundsType DEF Init
  <2>4. QED
    BY <2>1, <2>2, <2>3 DEF Init, TypeOK
<1>2. HeldOK
  BY NoneHeldType, KeysType DEF Init, HeldOK, NoSettings
<1>3. ReadOK /\ SessionOK /\ EncryptionWasChosen /\ ProxyWasChosen
  BY DEF Init, ReadOK, SessionOK, EncryptionWasChosen, ProxyWasChosen,
         Propagated
<1>4. QED
  BY <1>1, <1>2, <1>3 DEF IInv

LEMMA CreateSessionIInv ==
  ASSUME IInv, CreateSession
  PROVE  IInv'
<1> USE DEF IInv, CreateSession
<1>1. TypeOK'
  BY NoneHeldType, KeysType, DefaultsType DEF TypeOK
<1>2. HeldOK'
  BY DEF HeldOK
<1>3. ReadOK' /\ SessionOK'
  BY DEF ReadOK, SessionOK
<1>4. EncryptionWasChosen' /\ ProxyWasChosen'
  BY DEF EncryptionWasChosen, ProxyWasChosen, Propagated
<1>5. QED
  BY <1>1, <1>2, <1>3, <1>4

\* The end of the loop without a value: nothing was chosen, and the defaults
\* are what that means.
LEMMA NothingRead ==
  ASSUME IInv, ReadKey, phase' = "ended"
  PROVE  EncryptionWasChosen' /\ ProxyWasChosen'
<1> USE DEF IInv, ReadKey
<1>1. next = 19 /\ settings' = NoSettings
  BY KeysType DEF TypeOK
<1>2. \A i \in 1..19 : settings'[Keys[i]] \in held[Keys[i]]
  BY <1>1, KeysType DEF TypeOK, HeldOK, ReadOK
<1>3. \A key \in Key : None \in held[key]
  BY <1>1, <1>2, KeysType DEF NoSettings
<1>4. session # None => session = Defaults
  BY DEF SessionOK
<1>5. {"encryption_level", "encryption_incoming", "encryption_outgoing",
       "proxy_type"} \subseteq Key
  BY KeysType DEF Offered
<1>6. Promised(None, None) = "enabled" /\ PolicyOf("enabled") = "pe_enabled"
  BY DEF Promised, PolicyOf
<1>7. /\ Defaults.in_enc_policy = "pe_enabled"
      /\ Defaults.out_enc_policy = "pe_enabled"
      /\ Defaults.proxy_type = "none"
  BY DEF Defaults
<1>8. held' = held /\ session' = session
  OBVIOUS
<1>9. EncryptionWasChosen'
  BY <1>3, <1>4, <1>5, <1>6, <1>7, <1>8
     DEF EncryptionWasChosen, Propagated, Chosen
<1>10. ProxyWasChosen'
  BY <1>3, <1>4, <1>5, <1>7, <1>8 DEF ProxyWasChosen, Propagated
<1>11. QED
  BY <1>9, <1>10

LEMMA ReadKeyIInv ==
  ASSUME IInv, ReadKey
  PROVE  IInv'
<1> USE DEF IInv, ReadKey
<1>1. TypeOK'
  BY KeysType DEF TypeOK
<1>2. HeldOK'
  BY DEF HeldOK
<1>3. \A i \in 1..next : settings'[Keys[i]] \in held[Keys[i]]
  BY KeysType DEF TypeOK, HeldOK, ReadOK
<1>4. ReadOK'
  BY <1>3, KeysType DEF ReadOK, TypeOK
<1>5. SessionOK'
  BY DEF SessionOK
<1>6. EncryptionWasChosen' /\ ProxyWasChosen'
  <2>1. CASE phase' = "ended"
    BY <2>1, NothingRead
  <2>2. CASE phase' # "ended"
    BY <2>2 DEF EncryptionWasChosen, ProxyWasChosen, Propagated
  <2>3. QED
    BY <2>1, <2>2
<1>7. QED
  BY <1>1, <1>2, <1>4, <1>5, <1>6

LEMMA ReadFailsIInv ==
  ASSUME IInv, ReadFails
  PROVE  IInv'
<1> USE DEF IInv, ReadFails
<1>1. TypeOK' /\ HeldOK' /\ ReadOK' /\ SessionOK'
  BY DEF TypeOK, HeldOK, ReadOK, SessionOK
<1>2. EncryptionWasChosen' /\ ProxyWasChosen'
  BY DEF EncryptionWasChosen, ProxyWasChosen, Propagated
<1>3. QED
  BY <1>1, <1>2

LEMMA ApplyIInv ==
  ASSUME IInv, Apply
  PROVE  IInv'
<1> USE DEF IInv, Apply
<1>1. /\ settings \in [Key -> Texts \cup {None}]
      /\ \A key \in Key : settings[key] \in held[key]
  BY DEF TypeOK, ReadOK
<1>2. CASE session = None
  <2>1. TypeOK' /\ HeldOK' /\ ReadOK' /\ SessionOK'
    BY <1>2 DEF TypeOK, HeldOK, ReadOK, SessionOK
  <2>2. EncryptionWasChosen' /\ ProxyWasChosen'
    BY <1>2 DEF EncryptionWasChosen, ProxyWasChosen, Propagated
  <2>3. QED
    BY <2>1, <2>2
<1>3. CASE session # None
  <2>1. session \in SessionSettings
    BY <1>3 DEF TypeOK
  <2>2. session' = ApplySettings(session, Json(settings)) /\ held' = held
    BY <1>3
  <2>3. /\ session' \in SessionSettings
        /\ session'.in_enc_policy
             = EncryptionPolicy(Json(settings), "encryption_incoming")
        /\ session'.out_enc_policy
             = EncryptionPolicy(Json(settings), "encryption_outgoing")
        /\ session'.proxy_type
             = ProxyTypeOf(JsonExtractString(Json(settings), "proxy_type"))
    BY <1>1, <2>1, <2>2, Applied
  <2>4. TypeOK' /\ HeldOK' /\ ReadOK' /\ SessionOK'
    BY <2>3 DEF TypeOK, HeldOK, ReadOK, SessionOK
  <2>5. /\ Chosen("encryption_incoming", session'.in_enc_policy)
        /\ Chosen("encryption_outgoing", session'.out_enc_policy)
    BY <1>1, <2>3, PolicyChosen
  <2>6. EncryptionWasChosen'
    BY <2>2, <2>5 DEF EncryptionWasChosen, Chosen
  <2>7. ProxyWasChosen'
    BY <1>1, <2>2, <2>3, TypeChosen DEF ProxyWasChosen
  <2>8. QED
    BY <2>4, <2>6, <2>7
<1>4. QED
  BY <1>2, <1>3

LEMMA ShutdownIInv ==
  ASSUME IInv, Shutdown
  PROVE  IInv'
<1> USE DEF IInv, Shutdown
<1>1. TypeOK' /\ HeldOK' /\ ReadOK' /\ SessionOK'
  BY DEF TypeOK, HeldOK, ReadOK, SessionOK
<1>2. EncryptionWasChosen' /\ ProxyWasChosen'
  BY DEF EncryptionWasChosen, ProxyWasChosen, Propagated
<1>3. QED
  BY <1>1, <1>2

\* What is held only grows, so that what was chosen stays so.
LEMMA SaveIInv ==
  ASSUME IInv, Save
  PROVE  IInv'
<1> USE DEF IInv, Save
<1>1. PICK save \in UserSaves :
        /\ table' = [table EXCEPT ![save[1]] = save[2]]
        /\ held' = [held EXCEPT ![save[1]] = @ \cup {save[2]}]
  OBVIOUS
<1>2. /\ save[1] \in Key /\ save[2] \in Texts
      /\ save[1] \in DOMAIN Offered => save[2] \in Offered[save[1]]
  BY SettingsAssumption
<1>3. \A key \in Key : held[key] \subseteq held'[key]
  BY <1>1, <1>2 DEF TypeOK
<1>4. TypeOK'
  <2>1. table' \in [Key -> Texts \cup {None}]
    BY <1>1, <1>2 DEF TypeOK
  <2>2. held' \in [Key -> SUBSET (Texts \cup {None})]
    BY <1>1, <1>2 DEF TypeOK
  <2>3. saves' \in 0..MaxSaves
    BY BoundsType DEF TypeOK
  <2>4. QED
    BY <2>1, <2>2, <2>3 DEF TypeOK
<1>5. HeldOK'
  <2>1. \A key \in Key : table'[key] \in held'[key]
    BY <1>1, <1>2 DEF TypeOK, HeldOK
  <2>2. \A key \in DOMAIN Offered :
          held'[key] \subseteq Offered[key] \cup {None}
    BY <1>1, <1>2, KeysType DEF TypeOK, HeldOK
  <2>3. QED
    BY <2>1, <2>2 DEF HeldOK
<1>6. ReadOK'
  <2>1. phase = "reading" => \A i \in 1..(next - 1) : Keys[i] \in Key
    BY KeysType DEF TypeOK
  <2>2. QED
    BY <1>3, <2>1 DEF ReadOK
<1>7. SessionOK'
  BY DEF SessionOK
<1>8. \A key \in DOMAIN Offered : held[key] \subseteq held'[key]
  BY <1>3, KeysType
<1>9. /\ {"encryption_level", "encryption_incoming", "encryption_outgoing",
          "proxy_type"} \subseteq DOMAIN Offered
  BY DEF Offered
<1>10. EncryptionWasChosen'
  BY <1>8, <1>9 DEF EncryptionWasChosen, Propagated, Chosen
<1>11. ProxyWasChosen'
  BY <1>8, <1>9 DEF ProxyWasChosen, Propagated
<1>12. QED
  BY <1>4, <1>5, <1>6, <1>7, <1>10, <1>11

LEMMA RestartIInv ==
  ASSUME IInv, Restart
  PROVE  IInv'
<1> USE DEF IInv, Restart
<1>1. TypeOK'
  <2>1. table \in [Key -> Texts \cup {None}]
    BY DEF TypeOK
  <2>2. held' \in [Key -> SUBSET (Texts \cup {None})]
    BY <2>1, NoneHeldType
  <2>3. starts' \in 1..MaxStarts
    BY BoundsType DEF TypeOK
  <2>4. QED
    BY <2>2, <2>3 DEF TypeOK
<1>2. HeldOK'
  <2>1. \A key \in Key : held'[key] = {table[key]} /\ table[key] \in held[key]
    BY NoneHeldType DEF TypeOK, HeldOK
  <2>2. QED
    BY <2>1, KeysType DEF HeldOK
<1>3. ReadOK' /\ SessionOK' /\ EncryptionWasChosen' /\ ProxyWasChosen'
  BY DEF ReadOK, SessionOK, EncryptionWasChosen, ProxyWasChosen, Propagated
<1>4. QED
  BY <1>1, <1>2, <1>3

LEMMA StutterIInv ==
  ASSUME IInv, UNCHANGED vars
  PROVE  IInv'
BY DEF IInv, vars, TypeOK, HeldOK, ReadOK, SessionOK, EncryptionWasChosen,
       ProxyWasChosen, Propagated, Chosen

THEOREM Invariance == Spec => []IInv
<1>1. Init => IInv
  BY InitIInv
<1>2. IInv /\ [Next]_vars => IInv'
  <2> SUFFICES ASSUME IInv, [Next]_vars
               PROVE  IInv'
    OBVIOUS
  <2>1. CASE CreateSession
    BY <2>1, CreateSessionIInv
  <2>2. CASE ReadKey
    BY <2>2, ReadKeyIInv
  <2>3. CASE ReadFails
    BY <2>3, ReadFailsIInv
  <2>4. CASE Apply
    BY <2>4, ApplyIInv
  <2>5. CASE Shutdown
    BY <2>5, ShutdownIInv
  <2>6. CASE Save
    BY <2>6, SaveIInv
  <2>7. CASE Restart
    BY <2>7, RestartIInv
  <2>8. CASE UNCHANGED vars
    BY <2>8, StutterIInv
  <2>9. QED
    BY <2>1, <2>2, <2>3, <2>4, <2>5, <2>6, <2>7, <2>8 DEF Next
<1>3. QED
  BY <1>1, <1>2, PTL DEF Spec

\* The session's settings stay well typed, whatever of them arrives: a port
\* is a port, a policy and a kind of proxy are ones libtorrent knows.
THEOREM TypeCorrect == Spec => []TypeOK
<1>1. IInv => TypeOK
  BY DEF IInv
<1>2. QED
  BY <1>1, Invariance, PTL

\* The encryption in force once initialize() is through was chosen, for any
\* number of saves between its reads and any number of starts.
THEOREM EncryptionChosen == Spec => []EncryptionWasChosen
<1>1. IInv => EncryptionWasChosen
  BY DEF IInv
<1>2. QED
  BY <1>1, Invariance, PTL

\* So was the kind of proxy.
THEOREM ProxyChosen == Spec => []ProxyWasChosen
<1>1. IInv => ProxyWasChosen
  BY DEF IInv
<1>2. QED
  BY <1>1, Invariance, PTL

=============================================================================
