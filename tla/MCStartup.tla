------------------------------ MODULE MCStartup ------------------------------
\* A small instance of Startup: members change, leave, come back and hand over
\* an identity, and one name is used with two providers.
EXTENDS Startup

CONSTANTS ann, bob

Plex == <<"plex", "ann">>
Seerr == <<"seerr", "ann">>
Tautulli == <<"tautulli", "7">>

Entry(member, active, ids) == [member |-> member, active |-> active, identities |-> ids]

TheIdentities == {Plex, Seerr, Tautulli}
TheConfigs ==
    {[sources |-> {"radarr"}, users |-> <<Entry(ann, TRUE, {Plex})>>],
     [sources |-> {"seerr"}, users |-> <<Entry(bob, TRUE, {Plex, Tautulli}), Entry(ann, FALSE, {})>>],
     [sources |-> {"seerr"},
      users |-> <<Entry(ann, TRUE, {Seerr}), Entry(bob, FALSE, {Plex, Tautulli}), Entry(ann, TRUE, {Plex})>>],
     [sources |-> {}, users |-> << >>]}
=============================================================================
