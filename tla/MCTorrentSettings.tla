------------------------- MODULE MCTorrentSettings -------------------------
(***************************************************************************)
(* The settings that can meet on their way: the level and the two          *)
(* directions of the encryption, the proxy, and one limit.                 *)
(***************************************************************************)
EXTENDS TorrentSettings, TLC

MCNumbers == ("500" :> 500) @@ ("1024" :> 1024)
MCWords == {"forced", "enabled", "disabled", "none", "socks4", "http"}

MCUserSaves ==
  {<<"max_download_speed", "500">>,
   <<"encryption_level", "forced">>, <<"encryption_level", "disabled">>,
   <<"encryption_incoming", "enabled">>,
   <<"encryption_outgoing", "disabled">>,
   <<"proxy_type", "socks4">>, <<"proxy_type", "none">>}

\* A limit is all the user saves.
MCLimitSaves ==
  {<<"max_download_speed", text>> : text \in DOMAIN MCNumbers}
    \cup {<<"max_connections", "500">>}

=============================================================================
