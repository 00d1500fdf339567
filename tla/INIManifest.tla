---------------------------- MODULE INIManifest ----------------------------
(***************************************************************************)
(* The INI manifest: the one implementation of the manifest contract the   *)
(* library ships.  Its state is the section the next .kv goes to and a map *)
(* from section to key to value; "" is "no current section".               *)
(***************************************************************************)

\* A command line after tokenizing: ".section <name>", ".kv <key> <value>" or
\* anything else, which the manifest rejects.
SectionCmd(name) == [op |-> "section", name |-> name]

KvCmd(key, value) == [op |-> "kv", key |-> key, value |-> value]

EmptyManifest == [current |-> "", sections |-> [s \in {} |-> {}]]

LOCAL Extended(f, k, default) ==
  [x \in DOMAIN f \cup {k} |-> IF x \in DOMAIN f THEN f[x] ELSE default]

LOCAL NoKeys == [k \in {} |-> ""]

Accepts(cmd) == cmd.op \in {"section", "kv"}

\* A .kv before any .section goes to the section called "global".
consume_command(m, cmd) ==
  IF cmd.op = "section"
  THEN [current  |-> cmd.name,
        sections |-> Extended(m.sections, cmd.name, NoKeys)]
  ELSE LET section == IF m.current = "" THEN "global" ELSE m.current
           opened  == Extended(m.sections, section, NoKeys)
           keys    == Extended(opened[section], cmd.key, "")
       IN  [m EXCEPT !.sections =
              [opened EXCEPT ![section] = [keys EXCEPT ![cmd.key] = cmd.value]]]

\* The text written to the archive: the sections, not the current section.
serialize(m) == m.sections

=============================================================================
