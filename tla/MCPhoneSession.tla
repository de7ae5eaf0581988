--------------------------- MODULE MCPhoneSession ---------------------------
(* Two customers and a shopkeeper, one after the other on the same phone.   *)
EXTENDS PhoneSession

CONSTANTS ali, sara, shop
UsersDef == {ali, sara, shop}
CustomersDef == {ali, sara}
HoldersDef == {ali, shop}
DaysDef == {{"die", "order"}, {"kill"}, {"push", "remove"}}
=============================================================================
