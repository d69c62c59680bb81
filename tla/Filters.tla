------------------------------ MODULE Filters ------------------------------
(***************************************************************************)
(* The filters of hub4com as the hub calls them: the methods that each of  *)
(* the plugins under plugins/ has.                                         *)
(***************************************************************************)
EXTENDS Telnet

\* The methods of a filter.
FilterHasIn(kind) == kind \in {"echo", "escparse", "pin2con", "escinsert", "awakseq", "crypt", "tag", "tag-sync", "telnet"}
FilterHasOut(kind) == kind \notin {"echo", "escparse", "pin2con"}
FilterIn(f, env, m) ==
  CASE f.kind = "echo" -> EchoIn(f, env, m)
    [] f.kind = "escparse" -> EscParseIn(f, env, m)
    [] f.kind = "escinsert" -> EscInsertIn(f, env, m)
    [] f.kind = "pin2con" -> Pin2ConIn(f, env, m)
    [] f.kind = "awakseq" -> AwakSeqIn(f, env, m)
    [] f.kind = "crypt" -> CryptIn(f, env, m)
    [] f.kind = "tag" -> TagIn(f, env, m)
    [] f.kind = "tag-sync" -> TagSyncIn(f, env, m)
    [] f.kind = "telnet" -> TelnetIn(f, env, m)
FilterOut(f, env, from, m) ==
  CASE f.kind = "escinsert" -> EscInsertOut(f, env, m)
    [] f.kind = "pinmap" -> PinMapOut(f, env, from, m)
    [] f.kind = "lsrmap" -> LsrMapOut(f, env, from, m)
    [] f.kind = "linectl" -> LineCtlOut(f, env, from, m)
    [] f.kind = "purge" -> PurgeOut(f, env, from, m)
    [] f.kind = "awakseq" -> AwakSeqOut(f, env, m)
    [] f.kind = "crypt" -> CryptOut(f, env, m)
    [] f.kind = "tag" -> TagOut(f, env, m)
    [] f.kind = "tag-sync" -> TagSyncOut(f, env, m)
    [] f.kind = "telnet" -> TelnetOut(f, env, m)
=============================================================================
