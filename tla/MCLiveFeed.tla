----------------------------- MODULE MCLiveFeed -----------------------------
(***************************************************************************)
(* One order, submitted and accepted, and a tab that is mounted once.      *)
(***************************************************************************)
EXTENDS LiveFeed

CONSTANTS c1
MCConn      == {c1}
MCPublished == << [id |-> "o1", type |-> "order.submitted"],
                  [id |-> "o1", type |-> "order.accepted"] >>
=============================================================================
