--------------------------- MODULE MCNotifications ---------------------------
(* One tenant with two like events and a throttled integration, one with two  *)
(* events, each wanted by another member, or two tenants with an event each.  *)
EXTENDS Notifications

CONSTANTS hook, ann, bob

Channels == {hook}
Members == {ann, bob}
TenantsAndEvents ==
    {[tenantOf |-> <<"A", "A">>, wants |-> {<<1, hook>>, <<2, hook>>}, alike |-> {<<1, 2>>, <<2, 1>>}],
     [tenantOf |-> <<"A", "A">>, wants |-> {<<1, ann>>, <<2, bob>>}, alike |-> {}],
     [tenantOf |-> <<"A", "B">>, wants |-> {<<1, hook>>, <<2, ann>>}, alike |-> {}]}
=============================================================================
