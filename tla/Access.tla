------------------------------- MODULE Access -------------------------------
(***************************************************************************)
(* Who may read a collection or an item (Collection/access.ts and          *)
(* Item/access.ts).  A caller is the set of the roles it has towards what  *)
(* it asks for; what it asks for is the row as merged with its remote      *)
(* counterpart, which is where is_published comes from: the column itself  *)
(* is false in what the clients store.                                     *)
(***************************************************************************)

Roles == {"itemOwner",      \* items.eth_address is the caller
          "owner",          \* collections.eth_address is, never for a third party one
          "manager",        \* of the third party, or of the remote collection
          "minter",         \* of the merged collection, published or not
          "committee", "admin"}

\* A manager of a standard collection is one once it is merged.
isManager(roles, collection) ==
    "manager" \in roles /\ (collection.tp \/ collection.is_published)

hasAccess(roles, collection) ==
    "owner" \in roles \/ "committee" \in roles \/ isManager(roles, collection)

hasPublicAccess(roles, collection) ==
    collection.is_published \/ hasAccess(roles, collection)

\* By the minters column alone, of a row or of a merged collection.
isMinter(roles) == "minter" \in roles

canSeeCollection(roles, collection) ==
    "admin" \in roles \/ isMinter(roles) \/ hasAccess(roles, collection)

\* The collection of an item, if it was read with it: a set of at most one.
hasItemAccess(roles, found) ==
    \/ "itemOwner" \in roles \/ "committee" \in roles
    \/ \E collection \in found : isManager(roles, collection)

hasPublicItemAccess(roles, item, found) ==
    item.is_published \/ hasItemAccess(roles, found)

canSeeItem(roles, found) ==
    \/ roles \cap {"admin", "itemOwner", "committee"} # {}
    \/ \E collection \in found : canSeeCollection(roles, collection)

-----------------------------------------------------------------------------
(* Answers.                                                                *)

ok(body) == [code |-> "ok", body |-> body]
failed(code) == [code |-> code, body |-> {}]
isOk(answer) == answer.code = "ok"

=============================================================================
