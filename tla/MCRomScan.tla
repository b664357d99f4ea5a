------------------------------ MODULE MCRomScan ------------------------------
(* An instance of RomScan: a ROM that two of the common directories hold,   *)
(* and a console without file extensions (NES).                             *)
EXTENDS RomScan, TLC

MCConsoles == {"gba", "nes"}
MCDirs == <<{"a.gba"}, {"a.gba"}>>
MCConsoleOf == "a.gba" :> "gba"
=============================================================================
