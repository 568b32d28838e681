SPECIFICATION Spec
CONSTANTS
  None = None
  NumberWidth <- MCNumberWidth
  Double <- MCDouble
  NaN = NaN
  Programs <- MCPrograms
  CellWidth <- MCCellWidth
  Digits = 2
  Space = 8
  Cells = 6
  Length <- MCLength
  Index <- MCIndex
  Castable <- MCCastable
  ArrayPrograms <- MCArrayPrograms
  Codes <- MCCodes
  Radix = 8
  Operands <- MCOperands
  Hierarchy <- MCHierarchy
  Bit = {0, 1}
  MemberPrograms <- MCMemberPrograms
  Method <- MCMethod
  Library <- MCLibrary
  Caller = {t, u}
  LibraryPrograms <- MCLibraryPrograms
  Unit = {0, 65, 233, 8364}
  LongestText = 2
  LengthLimit = 65536
  StringPrograms <- MCStringPrograms
  CommandLines <- MCCommandLines
  Setting <- MCSetting
  JarFiles <- MCJarFiles
  Directories <- MCDirectories
  HasMain = {"Tool", "Program"}
  Version = {1, 2, 3, 6, 7}
  LaunchPrograms <- MCLaunchPrograms
  Described <- MCDescribed
  Stacks <- MCStacks
  ClassTables <- MCClassTables
  JavaThread = {t, u}
  QueryPrograms <- MCQueryPrograms
INVARIANTS
  DataAsJava
  CodeAsJava
  MembersAsJava
  NativesAsJava
  StartsAsJava
  AnswersAsJava
CHECK_DEADLOCK FALSE
