-------------------------- MODULE TorrentSettings --------------------------
(***************************************************************************)
(* How a saved setting reaches libtorrent: the key/value table, the read   *)
(* of it by _propagateSettings while initialize() runs, one key per await, *)
(* and nativeApplySettings, which takes the values out of a JSON text.     *)
(*                                                                         *)
(* Only the order of things is Dart's and Android's here; that a JSON      *)
(* value is a quoted string or a bare number is kept, because the          *)
(* extractors of the bridge tell the two apart.                            *)
(***************************************************************************)
EXTENDS Integers, Sequences, SequencesExt

CONSTANTS
  None,       \* no value in the table; no session
  Numbers,    \* the numbers the screens offer: from their text to the number
  Words,      \* the other texts they offer
  UserSaves,  \* what the user may save: pairs of a key and a text
  MaxSaves,   \* bound: how often the user saves
  MaxStarts   \* bound: how often the app starts

Texts == DOMAIN Numbers \cup Words

\* The keys _propagateSettings reads, in its order.
Keys ==
  <<"max_download_speed", "max_upload_speed", "max_connections",
    "enable_dht", "enable_lsd", "enable_upnp", "enable_nat_pmp",
    "enable_pex", "enable_utp", "random_port", "listening_port",
    "encryption_level", "encryption_incoming", "encryption_outgoing",
    "proxy_type", "proxy_host", "proxy_port", "proxy_username",
    "proxy_password">>
Key == ToSet(Keys)

\* What the pickers of the encryption and the proxy offer.
Offered ==
  [key \in {"encryption_incoming", "encryption_outgoing", "encryption_level",
            "proxy_type"} |->
     CASE key = "encryption_level" -> {"forced", "enabled", "disabled"}
       [] key = "proxy_type"       -> {"none", "socks4", "socks5", "http"}
       [] OTHER                    -> {"enabled", "disabled"}]

ASSUME SettingsAssumption ==
  /\ None \notin Texts \cup {""}
  /\ \A text \in DOMAIN Numbers : Numbers[text] \in Nat
  /\ UserSaves \subseteq Key \X Texts
  /\ \A save \in UserSaves :
       save[1] \in DOMAIN Offered => save[2] \in Offered[save[1]]
  /\ MaxSaves \in Nat
  /\ MaxStarts \in Nat \ {0}

VARIABLES
  table,    \* the settings table
  phase,    \* of initialize(): where the propagation is
  next,     \* the place in Keys that is read next
  settings, \* the map being gathered
  session,  \* the settings the libtorrent session runs with
  held,     \* history: what each key has held since this start
  saves,    \* counts the saves
  starts    \* counts the starts

vars == <<table, phase, next, settings, session, held, saves, starts>>

EncPolicy == {"pe_forced", "pe_enabled", "pe_disabled"}
ProxyType == {"none", "socks4", "socks5", "http"}

Port == 0..65535
OutRequests == {50, 500}
Login == Texts \cup {""}

SessionSettings ==
  [download_rate_limit : Nat, upload_rate_limit : Nat,
   connections_limit : Nat, utp : BOOLEAN, dht : BOOLEAN, lsd : BOOLEAN,
   upnp : BOOLEAN, natpmp : BOOLEAN, max_out_request_queue : OutRequests,
   listen_port : Port, in_enc_policy : EncPolicy,
   out_enc_policy : EncPolicy, proxy_type : ProxyType,
   proxy_hostname : Login, proxy_port : Port, proxy_username : Login,
   proxy_password : Login]

TypeOK ==
  /\ table \in [Key -> Texts \cup {None}]
  /\ phase \in {"creating", "reading", "applying", "ended", "failed"}
  /\ next \in 1..Len(Keys)
  /\ settings \in [Key -> Texts \cup {None}]
  /\ session \in SessionSettings \cup {None}
  /\ held \in [Key -> SUBSET (Texts \cup {None})]
  /\ saves \in 0..MaxSaves
  /\ starts \in 1..MaxStarts

-----------------------------------------------------------------------------
(* The JSON text and the extractors of torrent_bridge.cpp.                 *)

\* JSONObject(settings).toString(): every value of the Dart map is a String,
\* and arrives in quotes.
Json(map) ==
  [key \in {k \in Key : map[k] # None} |-> [quoted |-> TRUE, text |-> map[key]]]

JsonExtractString(json, key) ==
  IF key \in DOMAIN json /\ json[key].quoted THEN json[key].text ELSE ""

\* The digits that follow the colon: there are none before a quote.
JsonExtractInt(json, key, defaultVal) ==
  IF key \notin DOMAIN json THEN defaultVal
  ELSE IF json[key].quoted THEN 0
  ELSE Numbers[json[key].text]

JsonExtractBool(json, key, defaultVal) ==
  IF key \in DOMAIN json /\ ~json[key].quoted
  THEN json[key].text = "true"
  ELSE defaultVal

-----------------------------------------------------------------------------
(* nativeApplySettings.                                                    *)

\* What the bridge makes of a text, for one direction.
PolicyOf(text) ==
  CASE text = "forced"  -> "pe_forced"
    [] text = "enabled" -> "pe_enabled"
    [] OTHER            -> "pe_disabled"

\* Mutant: the level overrides the direction.
LevelWins(json, direction) ==
  LET level == JsonExtractString(json, "encryption_level")
      own == JsonExtractString(json, direction)
  IN IF level # "" THEN PolicyOf(level)
     ELSE IF own # "" THEN PolicyOf(own)
     ELSE "pe_enabled"

\* The level sets both directions, and a direction's own setting overrides it.
EncryptionPolicy(json, direction) ==
  LET level == JsonExtractString(json, "encryption_level")
      own == JsonExtractString(json, direction)
  IN IF own # "" THEN PolicyOf(own)
     ELSE IF level # "" THEN PolicyOf(level)
     ELSE "pe_enabled"

\* Mutant: a lost else, after which the last branch takes socks4 too.
LostElse(type) ==
  IF type = "socks5" THEN "socks5"
  ELSE IF type \in {"http", "https"} THEN "http"
  ELSE "none"

ProxyTypeOf(type) ==
  IF type \in {"socks4", "socks5"} THEN type
  ELSE IF type \in {"http", "https"} THEN "http"
  ELSE "none"

\* Every setting is set, to the bridge's own default where the JSON has no
\* value for it, except that host, port and login are set only along with a
\* proxy, the login only when it is not empty: otherwise the session keeps
\* what it has.
ApplySettings(s, json) ==
  LET type == JsonExtractString(json, "proxy_type")
      user == JsonExtractString(json, "proxy_username")
      pass == JsonExtractString(json, "proxy_password")
      proxied == type \notin {"", "none"}
  IN [download_rate_limit |->
        JsonExtractInt(json, "max_download_speed", 0) * 1024,
      upload_rate_limit |->
        JsonExtractInt(json, "max_upload_speed", 0) * 1024,
      connections_limit |-> JsonExtractInt(json, "max_connections", 200),
      utp |-> JsonExtractBool(json, "enable_utp", TRUE),
      dht |-> JsonExtractBool(json, "enable_dht", TRUE),
      lsd |-> JsonExtractBool(json, "enable_lsd", TRUE),
      upnp |-> JsonExtractBool(json, "enable_upnp", TRUE),
      natpmp |-> JsonExtractBool(json, "enable_nat_pmp", TRUE),
      max_out_request_queue |->
        IF JsonExtractBool(json, "enable_pex", TRUE) THEN 500 ELSE 50,
      listen_port |-> IF JsonExtractBool(json, "random_port", TRUE) THEN 0
                      ELSE JsonExtractInt(json, "listening_port", 55623),
      in_enc_policy |-> EncryptionPolicy(json, "encryption_incoming"),
      out_enc_policy |-> EncryptionPolicy(json, "encryption_outgoing"),
      proxy_type |-> ProxyTypeOf(type),
      proxy_hostname |-> IF proxied THEN JsonExtractString(json, "proxy_host")
                         ELSE s.proxy_hostname,
      proxy_port |-> IF proxied THEN JsonExtractInt(json, "proxy_port", 0)
                     ELSE s.proxy_port,
      proxy_username |-> IF proxied /\ user # "" THEN user
                         ELSE s.proxy_username,
      proxy_password |-> IF proxied /\ pass # "" THEN pass
                         ELSE s.proxy_password]

\* What libtorrent starts a session with.
Defaults ==
  [download_rate_limit |-> 0, upload_rate_limit |-> 0,
   connections_limit |-> 200, utp |-> TRUE, dht |-> TRUE, lsd |-> TRUE,
   upnp |-> TRUE, natpmp |-> TRUE, max_out_request_queue |-> 500,
   listen_port |-> 6881, in_enc_policy |-> "pe_enabled",
   out_enc_policy |-> "pe_enabled", proxy_type |-> "none",
   proxy_hostname |-> "", proxy_port |-> 0, proxy_username |-> "",
   proxy_password |-> ""]

-----------------------------------------------------------------------------
(* The steps.                                                              *)

NoSettings == [key \in Key |-> None]
HeldNow(values) == [key \in Key |-> {values[key]}]

\* The "initialize" call: nativeCreateSession replaces whatever there is.
\* When the library did not load, or the call fails, initialize() returns.
CreateSession ==
  /\ phase = "creating"
  /\ \/ session' = Defaults /\ phase' = "reading"
     \/ UNCHANGED session /\ phase' = "failed"
  /\ next' = 1
  /\ settings' = NoSettings
  /\ UNCHANGED <<table, held, saves, starts>>

\* Mutant: the loop runs past the last key.
ReadKeyPast ==
  /\ phase = "reading"
  /\ settings' = [settings EXCEPT ![Keys[next]] = table[Keys[next]]]
  /\ next' = next + 1
  /\ UNCHANGED <<table, phase, session, held, saves, starts>>

\* One await of the loop has its value.  After the last one the map is sent,
\* unless it is empty.
ReadKey ==
  /\ phase = "reading"
  /\ settings' = [settings EXCEPT ![Keys[next]] = table[Keys[next]]]
  /\ IF next < Len(Keys)
     THEN next' = next + 1 /\ UNCHANGED phase
     ELSE /\ phase' = IF settings' = NoSettings THEN "ended" ELSE "applying"
          /\ UNCHANGED next
  /\ UNCHANGED <<table, session, held, saves, starts>>

\* A read fails: the map is dropped with the exception, and initialize()
\* goes on.
ReadFails ==
  /\ phase = "reading"
  /\ phase' = "failed"
  /\ UNCHANGED <<table, next, settings, session, held, saves, starts>>

\* Mutant: without a session the call is never answered.
ApplyUnanswered ==
  /\ phase = "applying"
  /\ session # None
  /\ session' = ApplySettings(session, Json(settings))
  /\ phase' = "ended"
  /\ UNCHANGED <<table, next, settings, held, saves, starts>>

\* The "applySettings" call.  The bridge ignores it without a session, and
\* the plugin answers all the same.
Apply ==
  /\ phase = "applying"
  /\ session' = IF session = None THEN None
                ELSE ApplySettings(session, Json(settings))
  /\ phase' = "ended"
  /\ UNCHANGED <<table, next, settings, held, saves, starts>>

\* A shutdown, which may come while initialize() is under way.
Shutdown ==
  /\ session # None
  /\ phase # "creating"
  /\ session' = None
  /\ UNCHANGED <<table, phase, next, settings, held, saves, starts>>

\* A settings screen saves a value.  None of them tells the engine.
Save ==
  /\ saves < MaxSaves
  /\ \E save \in UserSaves :
       /\ table' = [table EXCEPT ![save[1]] = save[2]]
       /\ held' = [held EXCEPT ![save[1]] = @ \cup {save[2]}]
  /\ saves' = saves + 1
  /\ UNCHANGED <<phase, next, settings, session, starts>>

\* The app starts again, in a new process or over the session of the old one.
Restart ==
  /\ starts < MaxStarts
  /\ phase' = "creating"
  /\ held' = HeldNow(table)
  /\ session' \in {session, None}
  /\ starts' = starts + 1
  /\ UNCHANGED <<table, next, settings, saves>>

Init ==
  /\ table = NoSettings
  /\ phase = "creating"
  /\ next = 1
  /\ settings = NoSettings
  /\ session = None
  /\ held = HeldNow(NoSettings)
  /\ saves = 0
  /\ starts = 1

Next ==
  \/ CreateSession \/ ReadKey \/ ReadFails \/ Apply
  \/ Shutdown \/ Save \/ Restart

\* The calls are answered and the reads end; the user owes nothing.
Fairness == WF_vars(CreateSession) /\ WF_vars(ReadKey) /\ WF_vars(Apply)

Spec == Init /\ [][Next]_vars
FairSpec == Spec /\ Fairness

-----------------------------------------------------------------------------
(* What the session runs with once the settings are through.               *)

Propagated == phase = "ended" /\ session # None

\* What the screens promise of a level and a direction's own setting: the
\* more particular one counts, and nothing saved means enabled.
Promised(level, own) ==
  IF own # None THEN own ELSE IF level # None THEN level ELSE "enabled"

Chosen(key, policy) ==
  \E level \in held["encryption_level"], own \in held[key] :
    policy = PolicyOf(Promised(level, own))

\* The encryption in force is one the user asked for, with values that were
\* in the table since this start began: whatever is saved between the reads
\* of the two keys, and whatever an earlier session ran with.  A choice that
\* was not touched since the start is in force.
EncryptionWasChosen ==
  Propagated =>
    /\ Chosen("encryption_incoming", session.in_enc_policy)
    /\ Chosen("encryption_outgoing", session.out_enc_policy)

\* So is the kind of proxy: no traffic goes without a proxy that was saved
\* before the start and left alone, and none through one that was not.
ProxyWasChosen ==
  Propagated =>
    \E type \in held["proxy_type"] :
      session.proxy_type = IF type = None THEN "none" ELSE type

\* initialize() gets past its settings, also when the session it made them
\* for is shut down meanwhile.
StartEnds == phase = "creating" ~> phase \in {"ended", "failed"}

-----------------------------------------------------------------------------
(* What the test plan asks for and the code does not do: "Speed limit and  *)
(* connection settings are applied to the session."  A limit that was in   *)
(* the table all through the start is the one the session has.             *)

LimitsAreApplied ==
  Propagated =>
    /\ \A text \in DOMAIN Numbers :
         /\ held["max_download_speed"] = {text} =>
              session.download_rate_limit = Numbers[text] * 1024
         /\ held["max_connections"] = {text} =>
              session.connections_limit = Numbers[text]

=============================================================================
