--------------------------- MODULE MCWorkbenchTask ---------------------------
(* Small instances of WorkbenchTask for TLC. *)
EXTENDS WorkbenchTask

MCSessions == {"pi", "lane"}
MCExternal == {"lane"}
MCOneSession == {"pi"}
MCNone == {}
MCBothContracts == {"chat", "uncommitted"}
MCChat == {"chat"}
MCCalls == {"call"}
=============================================================================
