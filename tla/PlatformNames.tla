---------------------------- MODULE PlatformNames ----------------------------
(* What the sites, the auth service and the router speak of in common.      *)

CONSTANTS
  Sites,
  Hostnames,
  Users,     \* employees
  Nobody,    \* no user; also where there is no record
  Freshness  \* readSiteSessionFreshnessTtlSeconds: how old a router's check may be
=============================================================================
