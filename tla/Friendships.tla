---------------------------- MODULE Friendships ----------------------------
(***************************************************************************)
(* Friend requests on the server (server/src/routes/friends.rs).  The      *)
(* table holds one row for each direction, and a handler runs several      *)
(* statements without a transaction: handlers of both users interleave,    *)
(* and a database error or a crash may end one between two statements.     *)
(* remove_friend is not called by the client, and nothing writes the       *)
(* status "blocked".  A call is not repeated while it is under way.        *)
(***************************************************************************)
EXTENDS Naturals, FiniteSets

CONSTANTS User,
          Me     \* the user whose answers somebody waits for

ASSUME MeAssumption == Me \in User

VARIABLES row,      \* the status of each directed pair of users
          handlers, \* calls under way; those of Me stay until their answer arrives
          broken    \* pairs whose acceptance ended after its first statement

friendVars == <<row, handlers, broken>>

Pair == {p \in User \X User : p[1] # p[2]}
Status == {"none", "pending", "accepted"}
Running == {"look", "write", "check", "confirm", "reverse"}
Result == {"ok", "already", "refused"}
Handler == [op : {"request", "accept"}, by : User, to : User, at : Running \cup Result]

Own(h) == <<h.by, h.to>>
Other(h) == <<h.to, h.by>>
Both(h) == {h.by, h.to}

FriendsInit == /\ row \in [Pair -> {"none", "accepted"}]
               /\ \A p \in Pair : row[<<p[2], p[1]>>] = row[p]
               /\ handlers = {} /\ broken = {}

At(h, place) == handlers' = (handlers \ {h}) \cup {[h EXCEPT !.at = place]}
Ends(h, result) == IF h.by = Me THEN At(h, result) ELSE handlers' = handlers \ {h}

Call(op, by, to) == /\ by # to
                    /\ ~\E h \in handlers : h.op = op /\ h.by = by /\ h.to = to
                    /\ handlers' = handlers \cup {[op |-> op, by |-> by, to |-> to,
                                                   at |-> IF op = "request" THEN "look" ELSE "confirm"]}
                    /\ UNCHANGED <<row, broken>>

\* send_request reads both directions; it repairs a friendship that has only one.
Friends(h) == "accepted" \in {row[Own(h)], row[Other(h)]}
Repair(h) == /\ h.at = "look" /\ Friends(h)
             /\ row' = [row EXCEPT ![Own(h)] = "accepted", ![Other(h)] = "accepted"]
             /\ broken' = broken \ {Both(h)}
             /\ Ends(h, "already")
Look(h) == /\ h.at = "look" /\ ~Friends(h)
           /\ IF row[Other(h)] = "pending" THEN Ends(h, "refused") ELSE At(h, "write")
           /\ UNCHANGED <<row, broken>>

\* Mutant: a request overwrites the row.
Write_Overwrites(h) == /\ h.at = "write"
                       /\ row' = [row EXCEPT ![Own(h)] = "pending"]
                       /\ At(h, "check")
                       /\ UNCHANGED broken
\* The upsert leaves a row that is accepted as it is.
Write(h) == /\ h.at = "write"
            /\ row' = [row EXCEPT ![Own(h)] = IF @ = "none" THEN "pending" ELSE @]
            /\ At(h, "check")
            /\ UNCHANGED broken
\* The row is read again; the other user is told unless it was accepted meanwhile.
Requested(h) == h.at = "check" /\ row[Own(h)] # "accepted"
Check(h) == /\ h.at = "check"
            /\ Ends(h, IF Requested(h) THEN "ok" ELSE "refused")
            /\ UNCHANGED <<row, broken>>

\* accept_request: the row of the requester, then the row of the accepter.
Confirm(h) == /\ h.at = "confirm"
              /\ IF row[Other(h)] = "pending"
                 THEN row' = [row EXCEPT ![Other(h)] = "accepted"] /\ At(h, "reverse")
                 ELSE Ends(h, "refused") /\ UNCHANGED row
              /\ UNCHANGED broken
Return(h) == /\ h.at = "reverse"
              /\ row' = [row EXCEPT ![Own(h)] = "accepted"]
              /\ Ends(h, "ok")
              /\ UNCHANGED broken

\* A statement fails, or the server stops.
Abort(h) == /\ h.at \in Running
            /\ broken' = IF h.at = "reverse" /\ row[Own(h)] # "accepted"
                         THEN broken \cup {Both(h)} ELSE broken
            /\ Ends(h, "refused")
            /\ UNCHANGED row

\* The answer arrives at the client of Me, or is lost.
Answered(h) == /\ h.at \in Result
               /\ handlers' = handlers \ {h}
               /\ UNCHANGED <<row, broken>>

FriendsNext == \/ \E op \in {"request", "accept"}, by, to \in User : Call(op, by, to)
               \/ \E h \in handlers : \/ Repair(h) \/ Look(h) \/ Write(h) \/ Check(h)
                                      \/ Confirm(h) \/ Return(h) \/ Abort(h) \/ Answered(h)

FriendsSpec == FriendsInit /\ [][FriendsNext]_friendVars

-----------------------------------------------------------------------------
\* The rows have a status, and the calls under way are calls of two users.
FriendsTypeOK == /\ row \in [Pair -> Status]
                 /\ handlers \subseteq {h \in Handler : h.by # h.to}

\* A friendship holds in both directions, except while an acceptance is between
\* its two statements, or after one failed there (accept_request in friends.rs):
\* no request, whatever it overlaps with, takes one direction away.
Mutual == \A p \in Pair : row[p] = "accepted" =>
             \/ row[<<p[2], p[1]>>] = "accepted"
             \/ {p[1], p[2]} \in broken
             \/ \E h \in handlers : h.at = "reverse" /\ Both(h) = {p[1], p[2]}
=============================================================================
