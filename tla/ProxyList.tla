----------------------------- MODULE ProxyList -----------------------------
(***************************************************************************)
(* The proxies of the Android application: the list in the store, the one  *)
(* that is active, the two pages that change them, and the plugin that     *)
(* sets the route of the WebView (client/src/store/index.ts,               *)
(* api/proxy-bridge.ts, pages/Login.tsx, pages/Profile.tsx, App.tsx).      *)
(*                                                                         *)
(* The store never waits for the plugin, whose calls are carried out in    *)
(* order and may fail.  The pages give the plugin 300 ms before they test  *)
(* the latency of a proxy; it is assumed to need no more.                  *)
(***************************************************************************)
EXTENDS Naturals, Sequences, FiniteSets

CONSTANTS Address,     \* all of a proxy but its id and its name
          Direct,      \* no proxy
          ProxyLimit,  \* 5 in the code
          MaxProxies,  \* bound on the proxies made: their ids, which are times, never return
          MaxSwitches  \* bound on everything the user does, on restarts and on failures

ASSUME ProxyAssumption == /\ Direct \notin Address \cup Nat
                          /\ {ProxyLimit, MaxProxies, MaxSwitches} \subseteq Nat \ {0}

VARIABLES
  proxyList,      \* in the store and the local storage: the proxies by their ids, which order them
  activeProxyId,
  page,      \* the page with the list that is open
  form,      \* its form: empty while closed, <<Direct>> for a new proxy, or the one edited
  latency,   \* its badges, each with the proxy that was measured
  tests,     \* its latency tests under way
  calls,     \* calls of the plugin under way
  route,     \* what the WebView uses
  switches   \* acts and proxies so far, and what the property asks about

network == <<calls, route>>
view == <<form, latency, tests>>
proxyVars == <<proxyList, activeProxyId, page, view, network, switches>>

ProxyId == 1..MaxProxies
Untested == [badge |-> "untested", via |-> Direct]
Unrouted == [id |-> Direct, address |-> Direct]
Entry(id) == [id |-> id, address |-> proxyList[id]]

ProxyAct == switches.acts < MaxSwitches /\ switches' = [switches EXCEPT !.acts = @ + 1]

\* The page shows no badge that it did not test itself.
OnPage(p) == /\ page' = p /\ form' = << >> /\ tests' = {}
             /\ latency' = [id \in ProxyId |-> Untested]

\* The effect of App at its start applies the active proxy that it has stored.
AtStart(list, active) == IF active \in DOMAIN list THEN <<[id |-> active, address |-> list[active]]>> ELSE << >>

\* An empty storage, or the one proxy of an earlier version.
ProxyInit == \E old \in SUBSET {1} :
  /\ proxyList \in [old -> Address]
  /\ activeProxyId \in old \cup {Direct}
  /\ calls = AtStart(proxyList, activeProxyId) /\ route = Unrouted
  /\ page = "none" /\ form = << >> /\ tests = {} /\ latency = [id \in ProxyId |-> Untested]
  /\ switches = [acts |-> 0, made |-> Cardinality(old), failed |-> FALSE, alone |-> TRUE]

-----------------------------------------------------------------------------
(* The store.                                                              *)

\* applyNativeProxy and clearNativeProxy.
Call(to) == calls' = Append(calls, to)

\* addProxy keeps the first five.
addProxy(a) == /\ proxyList' = IF Cardinality(DOMAIN proxyList) < ProxyLimit
                               THEN [i \in DOMAIN proxyList \cup {switches.made + 1} |->
                                       IF i = switches.made + 1 THEN a ELSE proxyList[i]]
                               ELSE proxyList
               /\ UNCHANGED calls
\* Mutant: the edit of the active proxy is not applied.
updateProxy_Silent(id, a) == /\ proxyList' = [i \in DOMAIN proxyList |-> IF i = id THEN a ELSE proxyList[i]]
                             /\ UNCHANGED calls
updateProxy(id, a) == /\ proxyList' = [i \in DOMAIN proxyList |-> IF i = id THEN a ELSE proxyList[i]]
                      /\ IF activeProxyId = id THEN Call([id |-> id, address |-> a]) ELSE UNCHANGED calls
removeProxy(id) == /\ proxyList' = [i \in DOMAIN proxyList \ {id} |-> proxyList[i]]
                   /\ IF activeProxyId = id THEN activeProxyId' = Direct /\ Call(Unrouted)
                                            ELSE UNCHANGED <<activeProxyId, calls>>
setActiveProxy(id) == /\ activeProxyId' = id
                      /\ IF id = Direct THEN Call(Unrouted)
                         ELSE IF id \in DOMAIN proxyList THEN Call(Entry(id)) ELSE UNCHANGED calls

-----------------------------------------------------------------------------
(* The pages: the login page adds, activates, tests and removes; the       *)
(* settings page edits, too.                                               *)

Turn(to) == /\ page # to /\ "none" \in {page, to}
            /\ OnPage(to)
            /\ UNCHANGED <<proxyList, activeProxyId, network, switches>>

\* The button is there while the list is not full.
OpenAdd == /\ page # "none" /\ form = << >> /\ Cardinality(DOMAIN proxyList) < ProxyLimit
           /\ form' = <<Direct>>
           /\ UNCHANGED <<proxyList, activeProxyId, page, latency, tests, network, switches>>
OpenEdit(id) == /\ page = "settings" /\ id \in DOMAIN proxyList
                /\ form' = <<id>>
                /\ UNCHANGED <<proxyList, activeProxyId, page, latency, tests, network, switches>>
Cancel == /\ form # << >>
          /\ form' = << >>
          /\ UNCHANGED <<proxyList, activeProxyId, page, latency, tests, network, switches>>

\* handleAddProxy and handleSave with a host and a port; a proxy that was
\* removed while its form was open is not made anew.
Save(a) == /\ form # << >> /\ form' = << >>
           /\ switches.acts < MaxSwitches
           /\ IF form = <<Direct>>
              THEN /\ switches.made < MaxProxies
                   /\ addProxy(a)
                   /\ switches' = [switches EXCEPT !.acts = @ + 1, !.made = @ + 1]
              ELSE /\ updateProxy(form[1], a)
                   /\ switches' = [switches EXCEPT !.acts = @ + 1]
           /\ UNCHANGED <<activeProxyId, page, latency, tests, route>>

Delete(id) == /\ page # "none" /\ id \in DOMAIN proxyList
              /\ ProxyAct /\ removeProxy(id)
              /\ UNCHANGED <<page, view, route>>

\* A test: when its proxy was activated it waits for the plugin.
Test(id, waits) == /\ latency' = [latency EXCEPT ![id] = [badge |-> "testing", via |-> Direct]]
                   /\ tests' = tests \cup {[n |-> switches.acts, id |-> id, waits |-> waits,
                                            via |-> IF waits THEN Direct ELSE route.id]}

\* handleActivate: the active proxy is turned off, another takes its place.
TurnOff(id) == /\ page # "none" /\ activeProxyId = id /\ id # Direct
               /\ ProxyAct /\ setActiveProxy(Direct)
               /\ latency' = [latency EXCEPT ![id] = Untested]
               /\ UNCHANGED <<proxyList, page, form, tests, route>>
TurnOn(id) == /\ page # "none" /\ activeProxyId # id /\ id \in DOMAIN proxyList
              /\ switches.acts < MaxSwitches
              /\ setActiveProxy(id) /\ Test(id, TRUE)
              /\ switches' = [switches EXCEPT !.acts = @ + 1, !.alone = tests = {}]
              /\ UNCHANGED <<proxyList, page, form, route>>
\* The entry for no proxy.
GoDirect == /\ page # "none"
            /\ ProxyAct /\ setActiveProxy(Direct)
            /\ UNCHANGED <<proxyList, page, view, route>>
\* The badge of the active proxy tests again, at once.
Retest(id) == /\ page # "none" /\ activeProxyId = id /\ id # Direct
              /\ switches.acts < MaxSwitches
              /\ Test(id, FALSE)
              /\ switches' = [switches EXCEPT !.acts = @ + 1, !.alone = @ /\ tests = {} /\ calls = << >>]
              /\ UNCHANGED <<proxyList, activeProxyId, page, form, network>>

\* testProxyLatency after the wait: what it measures is the route of the moment.
Measure(t) == /\ t \in tests /\ t.waits /\ calls = << >>
              /\ tests' = (tests \ {t}) \cup {[t EXCEPT !.waits = FALSE, !.via = route.id]}
              /\ UNCHANGED <<proxyList, activeProxyId, page, form, latency, network, switches>>
Tested(t) == /\ t \in tests /\ ~t.waits
             /\ tests' = tests \ {t}
             /\ latency' = [latency EXCEPT ![t.id] = [badge |-> "tested", via |-> t.via]]
             /\ UNCHANGED <<proxyList, activeProxyId, page, form, network, switches>>

-----------------------------------------------------------------------------
(* The plugin, and the application when it is started again.               *)

Applied == /\ calls # << >>
           /\ route' = Head(calls) /\ calls' = Tail(calls)
           /\ switches' = [switches EXCEPT !.failed = FALSE]
           /\ UNCHANGED <<proxyList, activeProxyId, page, view>>
\* The page only logs it.
NotApplied == /\ calls # << >> /\ switches.acts < MaxSwitches
              /\ calls' = Tail(calls)
              /\ switches' = [switches EXCEPT !.acts = @ + 1, !.failed = TRUE, !.alone = FALSE]
              /\ UNCHANGED <<proxyList, activeProxyId, page, view, route>>
Restart == /\ switches.acts < MaxSwitches
           /\ calls' = AtStart(proxyList, activeProxyId) /\ route' = Unrouted
           /\ OnPage("none")
           /\ switches' = [switches EXCEPT !.acts = @ + 1, !.failed = FALSE]
           /\ UNCHANGED <<proxyList, activeProxyId>>

ProxyNext == \/ \E p \in {"none", "login", "settings"} : Turn(p)
             \/ OpenAdd \/ Cancel \/ GoDirect \/ Applied \/ NotApplied \/ Restart
             \/ \E id \in ProxyId : OpenEdit(id) \/ Delete(id) \/ TurnOff(id) \/ TurnOn(id) \/ Retest(id)
             \/ \E a \in Address : Save(a)
             \/ \E t \in tests : Measure(t) \/ Tested(t)
ProxySpec == ProxyInit /\ [][ProxyNext]_proxyVars

-----------------------------------------------------------------------------
\* Once the plugin has carried out what it was asked to, the WebView uses the
\* proxy that is shown as active, as it was last edited; and the latency shown
\* beside it was measured through it, unless another test was under way since
\* it was activated or tested (setActiveProxy, updateProxy, removeProxy, App,
\* handleActivate).
ShownIsUsed ==
  (calls = << >> /\ ~switches.failed)
    => /\ route = IF activeProxyId = Direct THEN Unrouted ELSE Entry(activeProxyId)
       /\ (switches.alone /\ activeProxyId # Direct)
            => (latency[activeProxyId].badge = "tested" => latency[activeProxyId].via = activeProxyId)
=============================================================================
