CONSTANTS
  None = None
  Settings <- MCSettings
  Secrets <- MCSecrets
  Uniforms <- MCUniforms
  MaxNoise = 1
SPECIFICATION Spec
INVARIANTS TypeOK TowersMatch DigitsAreIntegers KeysSwitch NoiseBounded DecryptsRight
CHECK_DEADLOCK FALSE
