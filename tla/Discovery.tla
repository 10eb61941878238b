----------------------------- MODULE Discovery -----------------------------
(***************************************************************************)
(* Which copies of a skill a platform loads.  Every directory that is      *)
(* scanned is a place; a copy is a skill of a place.  Places are numbered  *)
(* in the order of precedence, so that the copies of one platform are in   *)
(* one order: that of their candidates, sorted by precedence.              *)
(***************************************************************************)
EXTENDS Integers, Sequences, FiniteSets, FiniteSetsExt, SequencesExt

CONSTANTS Place, PlatformOf, SourceOf,
          DirectoryOf,  \* of a nested place: where it is, from the working directory
          PluginOf,     \* of a plugin's place: its name and its marketplace
          Key,          \* what settings call plugins: by both, or by a name and None
          Name,         \* names of skill directories, numbered in their order
          Target,       \* the directories behind the copies, once resolved
          None,
          Broken        \* a copy whose entry point cannot be resolved

Platform == {"codex", "claude"}

Sources(platform) ==
    IF platform = "codex"
    THEN <<"repository", "user", "user-legacy", "admin", "system", "plugin">>
    ELSE <<"enterprise", "personal", "project", "nested", "added-directory",
           "plugin", "personal-command", "project-command">>

Standing(p) == CHOOSE i \in 1 .. 8 : Sources(PlatformOf[p])[i] = SourceOf[p]

ASSUME PlaceAssumption ==
    /\ Place \subseteq Nat /\ Name \subseteq Nat
    /\ IsFiniteSet(Place) /\ IsFiniteSet(Name)
    /\ \A p \in Place : /\ PlatformOf[p] \in Platform
                        /\ SourceOf[p] \in ToSet(Sources(PlatformOf[p]))
                        /\ SourceOf[p] = "nested" => DirectoryOf[p] # None
                        /\ SourceOf[p] = "plugin" =>
                              /\ PluginOf[p][1] # None
                              /\ {PluginOf[p], <<PluginOf[p][1], None>>} \subseteq Key
    /\ \A p, r \in Place :
          PlatformOf[p] = PlatformOf[r] /\ p < r => Standing(p) <= Standing(r)

Copy == [place : Place, name : Name]
Before(c, d) == c.place < d.place \/ (c.place = d.place /\ c.name < d.name)

\* The members of S, in their order
InOrder(S, Less(_, _)) ==
    [i \in 1 .. Cardinality(S) |-> CHOOSE x \in S : Cardinality({y \in S : Less(y, x)}) = i - 1]

Source(c) == SourceOf[c.place]

\* What selectors begin with: Claude's plugins qualify their skills, Codex's do not
PluginPrefix(p) == CASE SourceOf[p] = "nested" -> DirectoryOf[p]
                     [] SourceOf[p] = "plugin" -> PluginOf[p][1]
                     [] OTHER -> None
Prefix(p) == CASE SourceOf[p] = "nested" -> DirectoryOf[p]
               [] SourceOf[p] = "plugin" /\ PlatformOf[p] = "claude" -> PluginOf[p][1]
               [] OTHER -> None
Selector == {Prefix(p) : p \in Place} \X Name
Lexical(c) == <<Prefix(c.place), c.name>>

-----------------------------------------------------------------------------
(* Settings.  Claude merges five kinds of files, key by key: the user's, the *)
(* project's from the root down, the local one, the managed one and its      *)
(* drop-ins.  A file that is missing or cannot be read says nothing.         *)

Layer == 1 .. 5
Managed == {4, 5}

LayersOf(said) == {l \in DOMAIN said : said[l] # None}
FirstSaid(said) == IF LayersOf(said) = {} THEN None ELSE said[Min(LayersOf(said))]
LastSaid(said) == IF LayersOf(said) = {} THEN None ELSE said[Max(LayersOf(said))]

Locked(s) == LastSaid([l \in Layer |-> s[l].lock]) = TRUE
Off(s, selector) == LastSaid([l \in Layer |-> s[l].skills[selector]]) = FALSE
PluginSaid(s, key) == LastSaid([l \in Layer |-> s[l].plugins[key]])

\* By its identifier, or else by any entry of its name: another marketplace's too
PluginOn(s, plugin) ==
    IF PluginSaid(s, plugin) # None THEN PluginSaid(s, plugin)
    ELSE \E key \in Key : key[1] = plugin[1] /\ PluginSaid(s, key) = TRUE

ClaudeEnables(s, c) ==
    IF Source(c) = "plugin" THEN PluginOn(s, PluginOf[c.place])
    ELSE (Source(c) = "enterprise" \/ ~Locked(s)) /\ ~Off(s, Lexical(c))

\* config.toml: manifests are switched off by their exact path, plugins by the
\* table under their identifier, or else under their bare name
Table(k, plugin) ==
    IF k.plugins[plugin] # None THEN k.plugins[plugin] ELSE k.plugins[<<plugin[1], None>>]
CodexEnables(k, c) == IF Source(c) = "plugin" THEN Table(k, PluginOf[c.place]) # FALSE
                      ELSE c \notin k.disabled

Enabled(site, c) == IF PlatformOf[c.place] = "codex" THEN CodexEnables(site.codex, c)
                    ELSE ClaudeEnables(site.claude, c)

-----------------------------------------------------------------------------
(* The inventory *)

Status == {"active", "inactive", "shadowed", "ambiguous", "unresolved"}

Present(site, platform) ==
    {c \in Copy : PlatformOf[c.place] = platform /\ site.disk[c] # None}
Resolves(site, c) == site.disk[c] # Broken
SameTarget(site, c, d) == Resolves(site, c) /\ site.disk[c] = site.disk[d]

\* A target loads once, by its first copy, even if that one is disabled
Alias(site, c) == \E d \in Present(site, PlatformOf[c.place]) :
                      Before(d, c) /\ SameTarget(site, c, d)

\* _materialize
Materialized(site, platform) ==
    [c \in Present(site, platform) |->
        IF ~Resolves(site, c) THEN "unresolved"
        ELSE IF ~Enabled(site, c) THEN "inactive"
        ELSE IF Alias(site, c) THEN "shadowed" ELSE "active"]

\* A nested copy needs its qualifier only beside an active copy of its name
Qualified(st, c) == \E d \in DOMAIN st :
    /\ st[d] = "active" /\ Source(d) # "nested"
    /\ Lexical(d) = <<None, c.name>>
Selectors(st) ==
    [c \in DOMAIN st |->
        IF Source(c) = "nested" /\ st[c] = "active" /\ ~Qualified(st, c)
        THEN <<None, c.name>> ELSE Lexical(c)]

Rivals(st, sel, c) == {d \in DOMAIN st \ {c} : st[d] = "active" /\ sel[d] = sel[c]}

\* Codex exposes copies with one selector as ambiguous; Claude loads the first
SettledStatus(st, sel, c) ==
    IF st[c] = "active" /\ PlatformOf[c.place] = "codex" /\ Rivals(st, sel, c) # {}
    THEN "ambiguous"
    ELSE IF st[c] = "active" /\ \E d \in Rivals(st, sel, c) : Before(d, c)
    THEN "shadowed"
    ELSE st[c]

\* discover_codex, discover_claude
Discover(site, platform) ==
    LET st == Materialized(site, platform)
        sel == Selectors(st)
    IN  [c \in DOMAIN st |-> [status |-> SettledStatus(st, sel, c), selector |-> sel[c],
                              target |-> site.disk[c]]]

-----------------------------------------------------------------------------
(* Selection *)

Selectable(inv) == {c \in DOMAIN inv : inv[c].status \in {"active", "ambiguous"}}
Sole(inv, matches) == Cardinality(matches) = 1 /\ \A c \in matches : inv[c].status = "active"

\* Inventory.resolve: the copy, or none where it raises
Resolve(inv, selector) ==
    LET matches == {c \in Selectable(inv) : inv[c].selector = selector}
    IN  IF Sole(inv, matches) THEN matches ELSE {}
=============================================================================
