---------------------------- MODULE MCDirectory ----------------------------
(***************************************************************************)
(* Constants of the run of People and of Listings.  The two share no state: *)
(* a behaviour is one of the family tree or one of the listings.            *)
(***************************************************************************)
EXTENDS People, Listings, TLC

VARIABLE part     \* what the behaviour is one of

CONSTANTS c1, c2, ann, bob

AllAnn == [x \in Id |-> ann]

Body(op, id, name, parent) == [op |-> op, id |-> id, name |-> name, parent |-> parent]

\* A child of 2 is invited; 2 is changed and given a father, 3, who is nobody in the
\* beginning, and a mother; 3 may be made by a PATCH; 1 is renamed; 1 and 2 leave.
TheAsks ==
  {Body("register", 0, ann, ("father" :> 2) @@ ("mother" :> 1)),
   Body("update", 2, NoData, "mother" :> 1), Body("update", 2, NoData, "father" :> 3),
   Body("update", 3, bob, <<>>), Body("update", 1, bob, <<>>)} \cup
  {Body("delete", x, NoData, <<>>) : x \in {1, 2}}

-----------------------------------------------------------------------------

Asked(listing, filters) == [listing |-> listing, filters |-> filters]

TheQuestions ==
  {Asked("clan", {"keyword"}), Asked("event", {"keyword"}), Asked("pay", {"keyword", "id"}),
   Asked("clan", {"id"}), Asked("event", {}), Asked("user", {"keyword", "clanId", "memberId"}),
   Asked("pay", {"clanId"}), Asked("collectMoney", {"userId"}),
   Asked("collectMoney", {"keyword", "description"}), Asked("collectMoney", {"description"})}

\* A row that fits everything, one of another clan, one of the caller's clan only.
TheContents == {Trait, {"keyword", "userId"}, {"ofCallersClan"}}

DirectoryInit ==
  /\ Init /\ ListingsInit
  /\ part \in {"people", "listings"}
  /\ part = "people" => reader.asks = Asked("event", {})

DirectoryNext ==
  \/ part = "people" /\ Next /\ UNCHANGED <<listingVars, part>>
  \/ part = "listings" /\ ListingsNext /\ UNCHANGED <<vars, part>>

DirectorySpec == DirectoryInit /\ [][DirectoryNext]_<<vars, listingVars, part>>
=============================================================================
