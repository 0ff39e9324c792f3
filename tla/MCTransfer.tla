----------------------------- MODULE MCTransfer -----------------------------
(* An instance with an owner and somebody else, and an empty one; files with *)
(* and without the app, asking for more and for less than there is.          *)
EXTENDS Transfer

CONSTANTS photos, viewer, theOwner, somebody, family

Ungranted == [h \in Holders |-> [b \in Apps |-> None]]

Empty ==
    [app |-> [b \in Apps |-> None], kind |-> [x \in People |-> None],
     status |-> [x \in People |-> None], factor |-> {}, members |-> [x \in Groups |-> None],
     grant |-> Ungranted]

InUse ==
    {[app |-> [b \in Apps |-> [roles |-> {viewer}, enabled |-> TRUE]],
      kind |-> (theOwner :> "owner" @@ somebody :> kind),
      status |-> (theOwner :> "active" @@ somebody :> "active"),
      factor |-> {theOwner} \cup (IF kind = "admin" THEN {somebody} ELSE {}),
      members |-> [x \in Groups |-> {somebody}],
      grant |-> [Ungranted EXCEPT ![somebody][photos] = {viewer}]] :
        kind \in {"admin", "guest"}}

MCHomes == InUse \cup {Empty}

MCFiles ==
    {[app |-> [b \in Apps |-> app],
      kind |-> (theOwner :> "owner" @@ somebody :> "admin"),
      status |-> (theOwner :> "active" @@ somebody :> "suspended"),
      members |-> [x \in Groups |-> {theOwner, somebody}],
      grant |-> [h \in Holders |->
                    IF h = theOwner THEN [b \in Apps |-> None] ELSE [b \in Apps |-> {viewer}]]] :
        app \in {None, [roles |-> {viewer}, enabled |-> FALSE]}}
    \cup
    {[app |-> [b \in Apps |-> None],
      kind |-> (theOwner :> "guest" @@ somebody :> "guest"),
      status |-> (theOwner :> "active" @@ somebody :> "active"),
      members |-> [x \in Groups |-> {theOwner}],
      grant |-> Ungranted]}

=============================================================================
