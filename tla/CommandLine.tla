----------------------------- MODULE CommandLine -----------------------------
(***************************************************************************)
(* The command language of the management processor: the keyword tables    *)
(* the line editor completes and checks against, and the switches that     *)
(* send a complete line to its handler.  The tables and the switches are   *)
(* written separately in the code and have to agree.                       *)
(*                                                                         *)
(* A table is a set of entries <<command ID, table of what may follow>>;   *)
(* nullptr is the empty table.  A line is the IDs of its tokens, and the   *)
(* text of a free-form token where a handler compares it.                  *)
(***************************************************************************)
EXTENDS Sequences

End == {}

g_flashCommands == {<<"CMD_COMPACT", End>>}

g_hostnameCommands == {<<"FREEFORM_TOKEN", End>>}

g_ipAddressCommands == {<<"FREEFORM_TOKEN", End>>}
g_ipGatewayCommands == {<<"FREEFORM_TOKEN", End>>}
g_ipCommands == {<<"CMD_ADDRESS", g_ipAddressCommands>>, <<"CMD_GATEWAY", g_ipGatewayCommands>>}

g_noSshKeyCommands == {<<"FREEFORM_TOKEN", End>>}
g_noSshCommands == {<<"CMD_KEY", g_noSshKeyCommands>>}
g_noFlashCommands == {<<"FREEFORM_TOKEN", End>>}
g_noCommands == {<<"CMD_FLASH", g_noFlashCommands>>, <<"CMD_NTP", End>>, <<"CMD_SSH", g_noSshCommands>>}

g_showIpCommands == {<<"CMD_ADDRESS", End>>, <<"CMD_ROUTE", End>>}
g_showSshAuthorized == {<<"CMD_KEYS", End>>}
g_showSshCommands == {<<"CMD_AUTHORIZED", g_showSshAuthorized>>, <<"CMD_FINGERPRINT", End>>}
g_showFlashDetailCommands == {<<"FREEFORM_TOKEN", End>>}
g_showFlashCommands == {<<"OPTIONAL_TOKEN", End>>, <<"CMD_DETAIL", g_showFlashDetailCommands>>}
g_showInterfaceCommands == {<<"CMD_STATUS", End>>}
g_showCommands ==
    {<<"CMD_FLASH", g_showFlashCommands>>, <<"CMD_HARDWARE", End>>,
     <<"CMD_INTERFACE", g_showInterfaceCommands>>, <<"CMD_IP", g_showIpCommands>>,
     <<"CMD_NTP", End>>, <<"CMD_SSH", g_showSshCommands>>, <<"CMD_VERSION", End>>}

g_sshCommandsDescription == {<<"FREEFORM_TOKEN", End>>}
g_sshCommandsBlob == {<<"FREEFORM_TOKEN", g_sshCommandsDescription>>}
g_sshCommandsType == {<<"CMD_SSH_ED25519", g_sshCommandsBlob>>}
g_sshCommandsUsername == {<<"FREEFORM_TOKEN", End>>}
g_sshCommands == {<<"CMD_KEY", g_sshCommandsType>>, <<"CMD_USERNAME", g_sshCommandsUsername>>}

g_ntpServerCommands == {<<"FREEFORM_TOKEN", End>>}
g_ntpCommands == {<<"CMD_SERVER", g_ntpServerCommands>>}

g_zeroizeCommands == {<<"FREEFORM_TOKEN", End>>}

g_rootCommands ==
    {<<"CMD_COMMIT", End>>, <<"CMD_EXIT", End>>, <<"CMD_FLASH", g_flashCommands>>,
     <<"CMD_HOSTNAME", g_hostnameCommands>>, <<"CMD_IP", g_ipCommands>>,
     <<"CMD_NO", g_noCommands>>, <<"CMD_NTP", g_ntpCommands>>, <<"CMD_RELOAD", End>>,
     <<"CMD_ROLLBACK", End>>, <<"CMD_SHOW", g_showCommands>>, <<"CMD_SSH", g_sshCommands>>,
     <<"CMD_ZEROIZE", g_zeroizeCommands>>}

-----------------------------------------------------------------------------
(* The lines the editor accepts: a token of each table on the way, until   *)
(* nothing more may follow.  No line has more than five tokens.            *)

Longer(partial) ==
    UNION {IF p.next = End
             THEN {p}
             ELSE {[ids |-> Append(p.ids, entry[1]), next |-> entry[2]] : entry \in p.next}
           : p \in partial}

Accepted ==
    {p.ids : p \in Longer(Longer(Longer(Longer(Longer(
        {[ids |-> <<>>, next |-> g_rootCommands]})))))}

Lines ==
    {[ids |-> ids, text |-> "other"] : ids \in Accepted}
    \union {[ids |-> <<"CMD_ZEROIZE", "FREEFORM_TOKEN">>, text |-> "all"]}

-----------------------------------------------------------------------------
(* The switches.  "unrecognized" is the answer of a default that speaks,   *)
(* "nothing" that of one that does not.                                    *)

ShowSSHByTable(id) ==                                                   \* mutant
    CASE id = "CMD_KEYS"        -> "PrintSSHKeys"
      [] id = "CMD_FINGERPRINT" -> "PrintSSHHostKey"
      [] OTHER                  -> "nothing"
ShowSSH(id) ==
    CASE id = "CMD_AUTHORIZED"  -> "PrintSSHKeys"
      [] id = "CMD_FINGERPRINT" -> "PrintSSHHostKey"
      [] OTHER                  -> "nothing"

OnShowFlash(id) == IF id = "OPTIONAL_TOKEN" THEN "PrintFlashSummary" ELSE "PrintFlashDetails"

ShowInterface(id) == IF id = "CMD_STATUS" THEN "OnShowInterfaceStatus" ELSE "nothing"

ShowIP(id) ==
    CASE id = "CMD_ADDRESS" -> "PrintIPAddress"
      [] id = "CMD_ROUTE"   -> "PrintDefaultRoute"
      [] OTHER              -> "nothing"

OnShowCommand(ids) ==
    CASE ids[2] = "CMD_FLASH"     -> OnShowFlash(ids[3])
      [] ids[2] = "CMD_HARDWARE"  -> "OnShowHardware"
      [] ids[2] = "CMD_INTERFACE" -> ShowInterface(ids[3])
      [] ids[2] = "CMD_IP"        -> ShowIP(ids[3])
      [] ids[2] = "CMD_NTP"       -> "PrintNTP"
      [] ids[2] = "CMD_SSH"       -> ShowSSH(ids[3])
      [] ids[2] = "CMD_VERSION"   -> "OnShowVersion"
      [] OTHER                    -> "unrecognized"

OnIPCommand(ids) ==
    CASE ids[2] = "CMD_ADDRESS" -> "OnIPAddress"
      [] ids[2] = "CMD_GATEWAY" -> "OnIPGateway"
      [] OTHER                  -> "unrecognized"

OnNoCommand(ids) ==
    CASE ids[2] = "CMD_FLASH" -> "RemoveFlashKey"
      [] ids[2] = "CMD_NTP"   -> "NTP.Disable"
      [] ids[2] = "CMD_SSH" /\ ids[3] = "CMD_KEY" -> "RemovePublicKey"
      [] OTHER                -> "nothing"

OnSSHCommand(ids) ==
    CASE ids[2] = "CMD_KEY"      -> "AddPublicKey"
      [] ids[2] = "CMD_USERNAME" -> "SetUsername"
      [] OTHER                   -> "unrecognized"

OnExecuteRoot(line) ==
    LET id == line.ids[1] IN
    CASE id = "CMD_COMMIT"   -> "OnCommit"
      [] id = "CMD_EXIT"     -> "Exit"
      [] id = "CMD_FLASH"    -> IF line.ids[2] = "CMD_COMPACT" THEN "Compact" ELSE "nothing"
      [] id = "CMD_HOSTNAME" -> "SetHostname"
      [] id = "CMD_IP"       -> OnIPCommand(line.ids)
      [] id = "CMD_NO"       -> OnNoCommand(line.ids)
      [] id = "CMD_NTP"      -> IF line.ids[2] = "CMD_SERVER" THEN "OnNtpServer" ELSE "nothing"
      [] id = "CMD_RELOAD"   -> "OnReload"
      [] id = "CMD_ROLLBACK" -> "OnRollback"
      [] id = "CMD_SHOW"     -> OnShowCommand(line.ids)
      [] id = "CMD_SSH"      -> OnSSHCommand(line.ids)
      [] id = "CMD_ZEROIZE"  -> IF line.text = "all" THEN "Zeroize" ELSE "nothing"
      [] OTHER               -> "unrecognized"

=============================================================================
