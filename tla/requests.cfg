CONSTANTS
  UnitBytes <- MCUnitBytes
  Lower <- MCLower
  BadHosts = {"a b"}
  UserHosts = {"u@localhost"}
  Letters <- MCLetters
  Slashed <- MCSlashed
  MaxMembers = 4
  Folded <- MCFolded
  Unwritable = {"bad"}
  Drives = {"C:"}
  Suffix <- MCSuffix
  NoIds = {"bad id"}
  DriveNames = {"C:"}
  Cities <- MCCities
  Grounds <- MCGrounds
  Setups <- MCSetups
  Variants = {"a"}
  Bands <- MCBands
  JsonValues <- MCJsonValues
  Earlier <- MCEarlier
  EarlierScenes <- MCEarlierScenes
  MaxCommands = 2
  MaxDeaths = 1
  Sessions <- MCSessions
  MaxFaults = 1
  Unit = 1000
  FloatDigits = 3
  Tolerance = 10
  MaxKeyChars = 100
  Texts <- MCTexts
  Derivers <- MCDerivers
SPECIFICATION ViewerSpec
CHECK_DEADLOCK FALSE
INVARIANTS RequestsTypeOK IndexIsDisk VerdictIsOfTheSource AnswerTellsTheStore StoredIsConsistent StoredMeansDerivable SceneIsRead WrittenIsRead RequestsAreCanonical
