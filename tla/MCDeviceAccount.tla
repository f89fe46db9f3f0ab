-------------------------- MODULE MCDeviceAccount --------------------------
(* What one device keeps: its account, keys and password, and the proxies  *)
(* of the application.  They share no state, and TLC explores them in      *)
(* turn.                                                                   *)
EXTENDS DeviceAccount, ProxyList, TLC

VARIABLE part  \* what is explored

MCInit == part \in {"account", "proxies"} /\ Init /\ ProxyInit
                /\ (part = "account" => DOMAIN proxyList = {})
MCNext == \/ part = "account" /\ Next /\ UNCHANGED <<proxyVars, part>>
          \/ part = "proxies" /\ ProxyNext /\ UNCHANGED <<vars, part>>
MCSpec == MCInit /\ [][MCNext]_<<vars, proxyVars, part>>

MCSymmetry == Permutations(Account) \cup Permutations(Password) \cup Permutations(Address)
=============================================================================
