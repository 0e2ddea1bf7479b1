----------------------------- MODULE CatalogPlan -----------------------------
(***************************************************************************)
(* What `krn catalog apply' makes of a profile: resolveProfile             *)
(* (scripts/lib/catalog/catalog-profile.mjs) turns a profile and an        *)
(* inventory into desired states, normalizeDesired (catalog-desired.mjs)   *)
(* refuses what must not be asked for, and planCatalogConfig               *)
(* (catalog-plan.mjs, catalog-document.mjs) edits the blocks of the Codex  *)
(* configuration.  Then planProjectSkillComposition                        *)
(* (install/project-skill-composition.mjs) turns off the copies in a       *)
(* repository's export that equal an enabled global skill.                 *)
(*                                                                         *)
(* A configuration is three sets of blocks.  Keys, comments and line ends  *)
(* are left out.                                                           *)
(***************************************************************************)
EXTENDS Naturals, FiniteSets

CONSTANTS
  Plugins,      \* plugin ids
  Families,
  Family,       \* Plugins -> Families: the id before its marketplace
  Paths,        \* skill files
  Cached,       \* Paths -> Plugins \cup {NoPlugin}: the cache a skill is in
  Servers,      \* MCP servers
  Quarantined,  \* the ids, paths and servers a quarantined family's name is in
  Aliases,      \* Plugins -> SUBSET Plugins: reviewed legacy caches of an owner
  NoPlugin,
  CatalogCases  \* the configurations, profiles and inventories looked at

ASSUME CatalogAssumption ==
  /\ NoPlugin \notin Plugins
  /\ Family \in [Plugins -> Families]
  /\ Cached \in [Paths -> Plugins \cup {NoPlugin}]
  /\ Aliases \in [Plugins -> SUBSET Plugins]
  /\ \A p, q \in Plugins : q \in Aliases[p] => Family[p] = Family[q] /\ q # p

\* `enabled' in a block: not written, true, false, or no literal boolean.
Settings == {"unset", "on", "off", "odd"}

Blocks(ids) == [id : ids, is : Settings]

\* A skill block may spell its path through a quarantined directory, and may
\* carry the comment that says the composition wrote it.
SkillBlocks == [path : Paths, detour : BOOLEAN, is : Settings, owned : BOOLEAN]

OfId(blocks, id) == {b \in blocks : b.id = id}
OfPath(blocks, path) == {b \in blocks : b.path = path}

\* The two states of a name: the names wanted on and those wanted off.
Both(states) == states.on \cup states.off

Clash(states) == states.on \cap states.off # {}

\* What is known before an apply. Whoever owns a skill has it, and a project's
\* directory is no plugin cache, nor one of those the inventory lists.
Sides(names) == [on : SUBSET names, off : SUBSET names]

Configurations ==
  {c \in [plugins : SUBSET Blocks(Plugins), mcps : SUBSET Blocks(Servers),
          skills : SUBSET SkillBlocks] :
     IsFiniteSet(c.plugins) /\ IsFiniteSet(c.mcps) /\ IsFiniteSet(c.skills)}

Profiles ==
  [enable : SUBSET (Plugins \cup Families), disable : SUBSET (Plugins \cup Families),
   families : SUBSET Families, pluginsOff : BOOLEAN,
   mcps : Sides(Servers), mcpsOff : BOOLEAN,
   skillsOn : SUBSET Paths, skillsOff : SUBSET Paths,
   familyOn : SUBSET Paths, familyOff : SUBSET Paths, skillsDefaultOff : BOOLEAN]

Inventories ==
  {i \in [plugins : SUBSET Plugins, skills : SUBSET Paths, admitted : SUBSET Paths,
          owning : SUBSET Paths, quarantine : SUBSET (Plugins \cup Paths)] :
     i.owning \subseteq i.skills}

Projects ==
  {j \in [paths : SUBSET Paths, marked : SUBSET Paths, equal : SUBSET (Paths \X Paths)] :
     j.marked \subseteq j.paths /\ \A path \in j.paths : Cached[path] = NoPlugin}

Cases ==
  {c \in [config : Configurations, profile : Profiles, inventory : Inventories,
          project : Projects, applied : BOOLEAN] :
     c.project.paths \cap (c.inventory.skills \cup c.inventory.quarantine) = {}}

ASSUME CasesOfCatalog == CatalogCases \subseteq Cases

VARIABLE catalog    \* a case: its configuration, profile and inventory

-----------------------------------------------------------------------------
(* normalizeDesired. *)

\* Two enabled plugins of one family: there is no owner.
OwnersClash(on) == \E p, q \in on : p # q /\ Family[p] = Family[q]

\* The enabled plugin of each family that has one.
OwnerOf(want, family) == {p \in want.plugins.on : Family[p] = family}

Trusted(want, plugin) ==
  plugin \in want.plugins.on
    \/ \E owner \in OwnerOf(want, Family[plugin]) : plugin \in Aliases[owner]

DesiredRefused(want) ==
  \/ OwnersClash(want.plugins.on)
  \/ (want.plugins.on \cup want.mcps.on \cup want.skills.on) \cap Quarantined # {}
  \/ \E p \in want.plugins.on : Family[p] \in want.families
  \/ \E path \in want.skills.on :
       Cached[path] # NoPlugin /\ ~Trusted(want, Cached[path])

-----------------------------------------------------------------------------
(* planCatalogConfig. *)

\* Slip: only what the profile speaks of is turned off.
SetOff_ProfileOnly(config, want) ==
  {b.id : b \in config.plugins} \cap
    {p \in Plugins \ Both(want.plugins) :
       \/ want.pluginsOff
       \/ Family[p] \in want.families
       \/ OwnerOf(want, Family[p]) \ {p} # {}}

\* Plugins with a block that are turned off although the profile names no state
\* for them: by default, with their family, or as a sibling of its owner.
\* Quarantine turns off whatever the profile says.
SetOff(config, want) ==
  {b.id : b \in config.plugins} \cap
    {p \in Plugins :
       \/ p \in Quarantined
       \/ p \notin Both(want.plugins)
          /\ \/ want.pluginsOff
             \/ Family[p] \in want.families
             \/ OwnerOf(want, Family[p]) \ {p} # {}}

\* The states of plugins the plan manages.
Managed(config, want) ==
  LET off == SetOff(config, want) IN
  [on |-> want.plugins.on \ off, off |-> want.plugins.off \cup off]

\* The states of MCP servers the plan manages.
ManagedServers(config, want) ==
  LET there == {b.id : b \in config.mcps}
      off == there \cap (Quarantined \cup (IF want.mcpsOff
                                           THEN Servers \ Both(want.mcps)
                                           ELSE {}))
  IN [on |-> want.mcps.on \ off, off |-> want.mcps.off \cup off]

\* setEnabled, and the blocks that are added.
Set(blocks, states, add) ==
  {IF b.id \in states.on THEN [b EXCEPT !.is = "on"]
    ELSE IF b.id \in states.off THEN [b EXCEPT !.is = "off"]
    ELSE b : b \in blocks}
  \cup {[id |-> id, is |-> IF id \in states.on THEN "on" ELSE "off"] :
          id \in add \ {b.id : b \in blocks}}

ParentOff(config, want, path) ==
  LET plugin == Cached[path] IN
  /\ plugin # NoPlugin
  /\ \/ plugin \in Managed(config, want).off
     \/ Family[plugin] \in want.families
     \/ OwnerOf(want, Family[plugin]) \notin {{}, {plugin}}

BlockQuarantined(b) == b.detour \/ b.path \in Quarantined

\* Is the skill of a block turned off?  Quarantine comes before the disabled
\* plugin it is cached for, and that before what the profile wants.
SkillOff(config, want, b) ==
  \/ BlockQuarantined(b)
  \/ ParentOff(config, want, b.path) /\ b.path \notin Both(want.skills)
  \/ b.path \in want.skills.off

\* Slip: the block that is added says nothing.
PlannedSkills_BareBlock(config, want) ==
  {IF SkillOff(config, want, b) THEN [b EXCEPT !.is = "off"] ELSE b :
     b \in {c \in config.skills :
              SkillOff(config, want, c) \/ c.path \notin want.skills.on}}
  \cup {[path |-> path, detour |-> FALSE, is |-> "unset", owned |-> FALSE] :
          path \in {p \in want.skills.off : OfPath(config.skills, p) = {}}}

\* A skill is on unless a block says off: the block of a wanted skill goes.
PlannedSkills(config, want) ==
  {IF SkillOff(config, want, b) THEN [b EXCEPT !.is = "off"] ELSE b :
     b \in {c \in config.skills :
              SkillOff(config, want, c) \/ c.path \notin want.skills.on}}
  \cup {[path |-> path, detour |-> FALSE, is |-> "off", owned |-> FALSE] :
          path \in {p \in want.skills.off : OfPath(config.skills, p) = {}}}

\* Doubled blocks, a server without a transport, and an `enabled' that cannot
\* be read, where the plan would have to set it.
PlanRefused(config, want) ==
  LET plugins == Managed(config, want)
      servers == ManagedServers(config, want)
  IN \/ \E p \in Both(plugins) : Cardinality(OfId(config.plugins, p)) > 1
     \/ \E s \in Both(servers) : Cardinality(OfId(config.mcps, s)) > 1
     \/ \E s \in servers.on : OfId(config.mcps, s) = {}
     \/ \E path \in Both(want.skills) : Cardinality(OfPath(config.skills, path)) > 1
     \/ \E b \in config.plugins : b.is = "odd" /\ b.id \in Both(plugins)
     \/ \E b \in config.mcps : b.is = "odd" /\ b.id \in Both(servers)
     \/ \E b \in config.skills : b.is = "odd" /\ SkillOff(config, want, b)

Planned(config, want) ==
  [plugins |-> Set(config.plugins, Managed(config, want), Both(want.plugins)),
   mcps    |-> Set(config.mcps, ManagedServers(config, want), {}),
   skills  |-> PlannedSkills(config, want)]

-----------------------------------------------------------------------------
(* resolveProfile.  A profile names plugins by id or family, and skills by    *)
(* file or family; the inventory is what was found on disk.                   *)

\* The inventory's plugins a selector names, or the selector itself.
Named(inventory, selectors) ==
  {p \in inventory.plugins : p \in selectors \/ Family[p] \in selectors}
    \cup {s \in selectors \cap Plugins : s \notin inventory.plugins}

\* Plugin states before quarantine: selectors, families and the default.
Selected(profile, inventory) ==
  LET on  == Named(inventory, profile.enable)
      off == Named(inventory, profile.disable)
               \cup {p \in inventory.plugins : Family[p] \in profile.families}
  IN [on |-> on,
      off |-> off \cup (IF profile.pluginsOff
                        THEN inventory.plugins \ (on \cup off) ELSE {})]

\* Quarantine replaces what was selected, and siblings of an owner are off.
ResolvedPlugins(profile, inventory) ==
  LET selected == Selected(profile, inventory)
      on == selected.on \ inventory.quarantine
      siblings == {p \in inventory.plugins \ on : \E q \in on : Family[p] = Family[q]}
  IN [on |-> on,
      off |-> selected.off \cup siblings \cup (inventory.quarantine \cap Plugins)]

\* Skill states before the plugins: exact selectors, then the admitted owner,
\* then families and the default, and quarantine over all.
SelectedSkills(profile, inventory) ==
  LET exact == inventory.skills \cap (profile.skillsOn \cup profile.skillsOff)
      rest == inventory.skills \ (exact \cup inventory.owning)
      on == {s \in exact \cap profile.skillsOn :
               s \in inventory.admitted => s \in inventory.owning}
            \cup (inventory.owning \ exact) \cup (rest \cap profile.familyOn)
      off == (exact \ on) \cup (rest \cap profile.familyOff)
             \cup (IF profile.skillsDefaultOff THEN rest \ on ELSE {})
  IN [on |-> on \ inventory.quarantine,
      off |-> off \cup (inventory.quarantine \cap Paths)]

\* Slip: a sibling's skills are left as they are.
PluginSkills_OwnersOnly(profile, inventory) ==
  LET plugins == ResolvedPlugins(profile, inventory)
      want == [plugins |-> plugins]
  IN [on |-> {s \in Paths : Cached[s] \in inventory.plugins /\ Trusted(want, Cached[s])},
      off |-> {}]

\* Every file cached for a trusted plugin is on, and every file cached for a
\* plugin that is off or a sibling is off.
PluginSkills(profile, inventory) ==
  LET plugins == ResolvedPlugins(profile, inventory)
      want == [plugins |-> plugins]
      files == {s \in Paths : Cached[s] \in inventory.plugins}
  IN [on  |-> {s \in files : Trusted(want, Cached[s])},
      off |-> {s \in files : /\ ~Trusted(want, Cached[s])
                             /\ \/ Cached[s] \in plugins.off
                                \/ Family[Cached[s]] \in profile.families}]

ProfileRefused(profile, inventory) ==
  LET skills == inventory.skills \ (profile.skillsOn \cup profile.skillsOff) IN
  \/ \E f \in profile.enable \cap Families : Named(inventory, {f}) = {}
  \/ Clash(Selected(profile, inventory))
  \/ OwnersClash(ResolvedPlugins(profile, inventory).on)
  \/ profile.skillsOn \cap profile.skillsOff \cap inventory.skills # {}
  \/ (skills \ inventory.owning) \cap profile.familyOn \cap profile.familyOff # {}
  \/ Clash(profile.mcps)
  \/ SelectedSkills(profile, inventory).on
       \cap PluginSkills(profile, inventory).off # {}

Resolved(profile, inventory) ==
  LET selected == SelectedSkills(profile, inventory)
      cached == PluginSkills(profile, inventory)
  IN [plugins |-> ResolvedPlugins(profile, inventory),
      families |-> profile.families, pluginsOff |-> profile.pluginsOff,
      mcps |-> profile.mcps, mcpsOff |-> profile.mcpsOff,
      skills |-> [on |-> selected.on \cup (cached.on \ selected.off),
                  off |-> selected.off \cup cached.off]]
-----------------------------------------------------------------------------
(* planProjectSkillComposition.  A project is the skills its export's marker  *)
(* names, and the pairs of such a copy and a global skill with the same files. *)
(* No inventory looks into a project.                                          *)

OwnedPaths(config) == {b.path : b \in {c \in config.skills : c.owned}}

\* Slip: a copy that equals some global skill is turned off, be that on or off.
Equivalent_AnyGlobal(config, want, project) ==
  {p \in project.marked :
     /\ OfPath(config.skills, p) # {} => p \in OwnedPaths(config)
     /\ \E s \in Paths : <<p, s>> \in project.equal}

\* Copies of a global skill that is wanted on.  A block the composition did not
\* write is the user's.
Equivalent(config, want, project) ==
  {p \in project.marked :
     /\ OfPath(config.skills, p) # {} => p \in OwnedPaths(config)
     /\ \E s \in want.skills.on : <<p, s>> \in project.equal}

NothingWanted ==
  [plugins |-> [on |-> {}, off |-> {}], families |-> {}, pluginsOff |-> FALSE,
   mcps |-> [on |-> {}, off |-> {}], mcpsOff |-> FALSE,
   skills |-> [on |-> {}, off |-> {}]]

\* What the composition wrote before and no longer holds is taken back.
ProjectWanted(config, want, project) ==
  LET equivalent == Equivalent(config, want, project)
      copies == OwnedPaths(config) \cap project.paths
  IN [NothingWanted EXCEPT !.skills = [on |-> copies \ equivalent, off |-> equivalent]]

\* The blocks that were not there get the comment.
Annotated(before, config, off) ==
  [config EXCEPT !.skills =
     {IF b.path \in off /\ OfPath(before.skills, b.path) = {}
      THEN [b EXCEPT !.owned = TRUE] ELSE b : b \in @}]

Composed(config, want, project) ==
  LET copies == ProjectWanted(config, want, project)
  IN Annotated(config, Planned(config, copies), copies.skills.off)

-----------------------------------------------------------------------------
(* `krn catalog apply'. *)

Wanted == Resolved(catalog.profile, catalog.inventory)

\* Both plans, one on the result of the other.
AppliedConfig == Composed(Planned(catalog.config, Wanted), Wanted, catalog.project)

\* Either plan may be refused, and so is a project whose marker names what is
\* quarantined.
Refused ==
  LET first == Planned(catalog.config, Wanted)
      second == ProjectWanted(first, Wanted, catalog.project)
  IN
  \/ ProfileRefused(catalog.profile, catalog.inventory)
  \/ DesiredRefused(Wanted)
  \/ PlanRefused(catalog.config, Wanted)
  \/ catalog.project.marked \cap Quarantined # {}
  \/ DesiredRefused(second)
  \/ PlanRefused(first, second)

CatalogInit == \E case \in CatalogCases : catalog = [case EXCEPT !.applied = FALSE]

\* Anything refused leaves the configuration as it is.
ApplyProfile ==
  /\ ~catalog.applied
  /\ ~Refused
  /\ catalog' = [catalog EXCEPT !.config = AppliedConfig, !.applied = TRUE]

CatalogSpec == CatalogInit /\ [][ApplyProfile]_catalog

-----------------------------------------------------------------------------
(* Properties. *)

Runs(b) == b.is # "off"

\* Whatever a profile selects, once it is applied nothing that bears the name of
\* a quarantined family, or whose path passes through one, has a block that runs.
QuarantineOff ==
  catalog.applied =>
    /\ \A b \in catalog.config.plugins \cup catalog.config.mcps :
         b.id \in Quarantined => ~Runs(b)
    /\ \A b \in catalog.config.skills :
         b.detour \/ b.path \in Quarantined => ~Runs(b)

\* Once a profile is applied, an enabled plugin is the only one of its family
\* that runs, and no file cached for another one of the inventory, which is no
\* reviewed alias of it, is left to be discovered. A project's copy that the
\* composition turned off, and not quarantine for the detour in its path, has an
\* equivalent global skill that runs.
OneCopyRuns ==
  catalog.applied =>
    /\ \A owner \in Wanted.plugins.on, p \in Plugins :
         (p # owner /\ Family[p] = Family[owner]) =>
           /\ \A b \in OfId(catalog.config.plugins, p) : ~Runs(b)
           /\ (p \in catalog.inventory.plugins \ Aliases[owner]) =>
                \A path \in Paths :
                  Cached[path] = p =>
                    \E b \in OfPath(catalog.config.skills, path) : ~Runs(b)
    /\ \A b \in catalog.config.skills :
         (b.owned /\ ~Runs(b) /\ ~b.detour /\ b.path \in catalog.project.paths) =>
           \E s \in Paths :
             /\ <<b.path, s>> \in catalog.project.equal
             /\ \A c \in OfPath(catalog.config.skills, s) :
                  Runs(c) \/ BlockQuarantined(c)

\* A profile that was applied is accepted again and changes nothing: its two
\* plans do not undo each other.
PlanSettles == catalog.applied => ~Refused /\ AppliedConfig = catalog.config

\* What is applied runs as the profile wants it, and stays so when the profile is
\* applied again: nothing quarantined runs, one copy of an equivalent skill does,
\* and neither of the plans (catalog-profile and project-skill-composition) undoes
\* what the other one did.
RunsAsWanted == QuarantineOff /\ OneCopyRuns /\ PlanSettles
=============================================================================
