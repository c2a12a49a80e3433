----------------------------- MODULE SystemProxy -----------------------------
(***************************************************************************)
(* The Windows proxy settings under aegs_client.py: class                  *)
(* WindowsSystemProxy reads the user's settings, registers a RunOnce       *)
(* command for the next boot, points Windows at the local gateway and      *)
(* writes the settings back when the client ends.                          *)
(*                                                                         *)
(* Every access to the registry is a step of its own: a client can be      *)
(* killed, or the computer restarted, between any two of them, an access   *)
(* can fail, and several clients may run on one host.                      *)
(***************************************************************************)
EXTENDS Naturals

CONSTANTS Clients,   \* processes that may run aegs_client.py
          UserProxy  \* a proxy of the user's own

VARIABLES reg,      \* the values of the Internet Settings key
          runonce,  \* ProxyEnable that the RunOnce command sets, or NoCommand
          step,       \* each client: the next access to the registry
          orig,     \* the settings it has read: orig_enabled and so on
          active,   \* its is_active
          truth,    \* history: the settings the user has chosen
          broken,   \* history: a client ended and did not write them back
          stale     \* history: a client took others for the user's

proxyVars == <<reg, runonce, step, orig, active, truth, broken, stale>>

Gateway == "127.0.0.1:1080"
NoCommand == 2           \* no command is registered
Empty   == ""

ASSUME UserProxyPlain == UserProxy # Empty

Settings(e, s) == [enabled |-> e, server |-> s, override |-> s]

(* What a user has: no proxy, one that is switched off, one that is on.    *)
(* The list of exceptions belongs to the proxy.                            *)
UserSettings == {Settings(0, Empty), Settings(0, UserProxy),
                 Settings(1, UserProxy)}

ProxyInit ==
  /\ truth \in UserSettings /\ reg = truth
  /\ runonce = NoCommand
  /\ step = [c \in Clients |-> "off"]
  /\ orig = [c \in Clients |-> Settings(0, Empty)]
  /\ active = [c \in Clients |-> FALSE]
  /\ broken = FALSE /\ stale = FALSE

At(c, from, to) == step[c] = from /\ step' = [step EXCEPT ![c] = to]

-----------------------------------------------------------------------------
(* enable(), called by start() after the handshake.                        *)

ReadOriginal(c) ==
  /\ At(c, "off", "arm")
  /\ orig' = [orig EXCEPT ![c] = reg]
  /\ stale' = (stale \/ broken \/ \E d \in Clients : step[d] # "off")
  /\ UNCHANGED <<reg, runonce, active, truth, broken>>

(* Mutated form: Windows is switched before the command is registered.     *)
SwitchFirstMut(c) ==
  \/ /\ At(c, "arm", "enable") /\ reg' = [reg EXCEPT !.enabled = 1]
     /\ UNCHANGED runonce
  \/ /\ At(c, "enable", "server")
     /\ runonce' = orig[c].enabled /\ UNCHANGED reg
(* The RunOnce command, then ProxyEnable.                                  *)
SwitchOn(c) ==
  \/ /\ At(c, "arm", "enable") /\ runonce' = orig[c].enabled
     /\ UNCHANGED reg
  \/ /\ At(c, "enable", "server") /\ reg' = [reg EXCEPT !.enabled = 1]
     /\ UNCHANGED runonce

Point(c) == /\ \/ /\ At(c, "server", "override")
                  /\ reg' = [reg EXCEPT !.server = Gateway]
               \/ /\ At(c, "override", "notify")
                  /\ reg' = [reg EXCEPT !.override = Gateway]
            /\ UNCHANGED runonce

Enable(c) == /\ SwitchOn(c) \/ Point(c)
             /\ UNCHANGED <<orig, active, truth, broken, stale>>

Notify(c) == /\ At(c, "notify", "on")
             /\ active' = [active EXCEPT ![c] = TRUE]
             /\ UNCHANGED <<reg, runonce, orig, truth, broken, stale>>

Enabling == {"arm", "enable", "server", "override", "notify"}

(* An access fails: a warning is printed and the client goes on, with      *)
(* is_active unset.                                                        *)
EnableFails(c) ==
  /\ step[c] \in Enabling
  /\ step' = [step EXCEPT ![c] = "on"]
  /\ UNCHANGED <<reg, runonce, orig, active, truth, broken, stale>>

-----------------------------------------------------------------------------
(* disable(), from the signal handlers and at the exit of the interpreter. *)

Stop(c) == /\ At(c, "on", IF active[c] THEN "restore" ELSE "off")
           /\ broken' = (broken \/ ~active[c])
           /\ UNCHANGED <<reg, runonce, orig, active, truth, stale>>

(* Values that were empty are not written back.                            *)
WriteBack(c) ==
  /\ \/ /\ At(c, "restore", "server_back")
        /\ reg' = [reg EXCEPT !.enabled = orig[c].enabled]
     \/ /\ At(c, "server_back", "override_back")
        /\ reg' = [reg EXCEPT !.server =
                      IF orig[c].server = Empty THEN @ ELSE orig[c].server]
     \/ /\ At(c, "override_back", "forget")
        /\ reg' = [reg EXCEPT !.override =
                      IF orig[c].override = Empty THEN @
                      ELSE orig[c].override]
  /\ UNCHANGED <<runonce, orig, active, truth, broken, stale>>

(* Mutated form: the command stays registered.                             *)
ForgetMut(c) == UNCHANGED runonce
(* DeleteValue; a failure is ignored.                                      *)
Forget(c) == runonce' = NoCommand

Disabled(c) ==
  /\ At(c, "forget", "off")
  /\ active' = [active EXCEPT ![c] = FALSE]
  /\ \/ Forget(c) /\ UNCHANGED broken
     \/ UNCHANGED runonce /\ broken' = TRUE
  /\ UNCHANGED <<reg, orig, truth, stale>>

Disabling == {"restore", "server_back", "override_back"}

(* An access fails: a message is printed, and the exit handler calls       *)
(* disable once more, as is_active is still set, or has been that call.    *)
DisableFails(c) ==
  /\ step[c] \in Disabling
  /\ \/ /\ step' = [step EXCEPT ![c] = "restore"]
        /\ UNCHANGED <<active, broken>>
     \/ /\ step' = [step EXCEPT ![c] = "off"] /\ broken' = TRUE
        /\ active' = [active EXCEPT ![c] = FALSE]
  /\ UNCHANGED <<reg, runonce, orig, truth, stale>>

-----------------------------------------------------------------------------
(* The process is killed: the console is closed, or an interrupt comes     *)
(* before the handlers are registered.                                     *)
Die(c) == /\ step[c] # "off"
          /\ step' = [step EXCEPT ![c] = "off"]
          /\ active' = [active EXCEPT ![c] = FALSE]
          /\ broken' = TRUE
          /\ UNCHANGED <<reg, runonce, orig, truth, stale>>

(* The computer restarts and executes the RunOnce command, which it also   *)
(* removes.                                                                *)
Reboot == /\ step' = [c \in Clients |-> "off"]
          /\ active' = [c \in Clients |-> FALSE]
          /\ reg' = [reg EXCEPT !.enabled =
                        IF runonce = NoCommand THEN @ ELSE runonce]
          /\ runonce' = NoCommand
          /\ broken' = (broken \/ \E c \in Clients : step[c] # "off")
          /\ UNCHANGED <<orig, truth, stale>>

(* The user chooses settings while no client runs.  A command that is      *)
(* still registered knows nothing of them.                                 *)
Choose(s) == /\ \A c \in Clients : step[c] = "off"
             /\ truth' = s /\ reg' = s
             /\ broken' = (runonce # NoCommand)
             /\ stale' = (runonce # NoCommand)
             /\ UNCHANGED <<runonce, step, orig, active>>

ProxyNext ==
  \/ \E c \in Clients :
       \/ ReadOriginal(c) \/ Enable(c) \/ Notify(c) \/ EnableFails(c)
       \/ Stop(c) \/ WriteBack(c) \/ Disabled(c) \/ DisableFails(c) \/ Die(c)
  \/ Reboot
  \/ \E s \in UserSettings : Choose(s)

ProxySpec == ProxyInit /\ [][ProxyNext]_proxyVars

-----------------------------------------------------------------------------
Values   == {Empty, UserProxy, Gateway}
Setting  == [enabled : {0, 1}, server : Values, override : Values]
Undoing  == {"restore", "server_back", "override_back", "forget"}
Steps    == {"off", "on"} \cup Enabling \cup Undoing

ProxyTypeOK ==
  /\ reg \in Setting /\ runonce \in {0, 1, NoCommand}
  /\ step \in [Clients -> Steps] /\ orig \in [Clients -> Setting]
  /\ active \in [Clients -> BOOLEAN] /\ truth \in UserSettings
  /\ broken \in BOOLEAN /\ stale \in BOOLEAN

(* aegs_client.py:102-112 and 136-146: at every moment, in the middle of   *)
(* enable and disable too, a restart of the computer leaves ProxyEnable as *)
(* the user chose it, unless a client was started while another one ran or *)
(* after one that did not write the settings back.                         *)
RebootRestores ==
  ~stale => IF runonce = NoCommand THEN reg.enabled = truth.enabled
                              ELSE runonce = truth.enabled

(* aegs_client.py:130-157: when the clients have ended in an orderly way   *)
(* the user's proxy is in force as before and nothing waits for the next   *)
(* boot.                                                                   *)
Restored ==
  (\A c \in Clients : step[c] = "off") /\ ~broken /\ ~stale
     => /\ reg.enabled = truth.enabled
        /\ truth.enabled = 1 => reg = truth
        /\ runonce = NoCommand

-----------------------------------------------------------------------------
(* The inductive invariant behind the two.                                 *)

Switched == \A c \in Clients : active[c] => step[c] \in {"on"} \cup Undoing

(* s is in force as the user's settings are.                               *)
AsChosen(s) == /\ s.enabled = truth.enabled
               /\ truth.enabled = 1 => s = truth

(* While no client took others for the user's settings there is one client *)
(* at most, it has read the user's, and nothing is left of earlier ones.   *)
Alone == \A c, d \in Clients : step[c] # "off" /\ step[d] # "off" => c = d
Own(c) == step[c] # "off" => ~broken /\ AsChosen(orig[c])

Registered(c) ==
  \/ step[c] \in {"enable", "server", "override", "notify"} \cup Undoing
  \/ step[c] = "on" /\ active[c]

Progress(c) ==
  /\ Registered(c) => runonce = truth.enabled
  /\ step[c] \in {"server_back", "override_back", "forget"}
        => reg.enabled = truth.enabled
  /\ step[c] \in {"override_back", "forget"} /\ truth.enabled = 1
        => reg.server = truth.server
  /\ step[c] = "forget" => AsChosen(reg)

Quiet == (\A c \in Clients : step[c] = "off") /\ ~broken
            => AsChosen(reg) /\ runonce = NoCommand

Clean == ~stale => /\ Alone /\ RebootRestores /\ Quiet
                   /\ \A c \in Clients : Own(c) /\ Progress(c)

ProxyInv == ProxyTypeOK /\ Switched /\ Clean
=============================================================================
