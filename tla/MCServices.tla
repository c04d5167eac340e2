----------------------------- MODULE MCServices -----------------------------
(* Model-checking instance of Services. *)
EXTENDS Services

CONSTANTS a4, a6, c1, c2, p1, p2, r1, r2, i1, i2, k1, k2, s1, s2

Dual == {{a4, a6}}
AllDatabases == {"postgresql", "postgresql_v2", "sqlite", "sqlite_hosts", "cockroachdb",
                 "mysql", "sqlserver", "sqlserver_v2", "oracle"}
AllProviders == {"redis", "postgres", "appconfig", "appconfig_keys", "kubernetes"}
=============================================================================
